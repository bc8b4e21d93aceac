----------------------------- MODULE PluginFiles -----------------------------
(***************************************************************************)
(* How a file of the plugins directory becomes a plugin: the shared        *)
(* library of native.rs, the Rhai script of scripted.rs in the sandbox of  *)
(* sandbox.rs, and the manifest beside it, from which registry.rs takes    *)
(* the capabilities.  PluginHost takes a file as usable or not; this is    *)
(* why it is.                                                              *)
(*                                                                         *)
(* A file is what the loader meets in it, one answer for each question the *)
(* code asks; a library's code runs in the process from its first call on. *)
(***************************************************************************)
EXTENDS Naturals, Sequences, FiniteSets

CONSTANTS
  Files,        \* the files that may be there (FileAnswers)
  Toolchains,   \* what create_plugin_rustc_version may answer
  Host,         \* RUSTC_TOOLCHAIN_VERSION
  Versions,     \* what required_api_version may answer, [major, rank]
  Api,          \* PLUGIN_API_VERSION
  Missing,      \* no such symbol, no such function
  Bad           \* not UTF-8, not a version, an error, a limit of the sandbox

VARIABLES
  file,         \* the file that is loaded
  todo,         \* what the loader does next
  ran,          \* the functions of the file that have been called
  mapped,       \* the library is mapped (the engine and its AST exist)
  object,       \* the plugin object exists
  caps,         \* PluginContext::capabilities
  outcome       \* "none", "loaded" or "refused"

fileVars == <<file, todo, ran, mapped, object, caps, outcome>>

Symbols == <<"create_plugin_rustc_version", "create_plugin">>
\* The functions of a script, in the order of their calls.
Metadata == <<"plugin_id", "plugin_name", "plugin_version", "plugin_author",
              "plugin_description", "plugin_required_api_version">>

\* A library: what its two functions give, and what its plugin requires.
Library(opens, rustc, creates, requires, manifest) ==
  [kind |-> "so", opens |-> opens, rustc |-> rustc, creates |-> creates,
   requires |-> requires, manifest |-> manifest]
\* A script: whether it can be read and compiled, the function that fails, if any,
\* whether its version parses, and the version it requires.
Script(opens, fails, parses, requires, manifest) ==
  [kind |-> "rhai", opens |-> opens, fails |-> fails, parses |-> parses,
   requires |-> requires, manifest |-> manifest]

\* plugin.toml: the names in its two lists; without one, or with one that does
\* not parse, there are none.
NoManifest == [required |-> {}, optional |-> {}]

FilesInit ==
  /\ file \in Files
  /\ todo = "open" /\ ran = << >>
  /\ mapped = FALSE /\ object = FALSE
  /\ caps = {} /\ outcome = "none"

Becomes(step) == todo' = step
Call(f) == ran' = Append(ran, f)

\* An early return: what exists is dropped, the object first.
Refuse == todo' = "drop" /\ outcome' = "refused"

(***************************************************************************)
(* load_native_plugin.                                                     *)
(***************************************************************************)

\* Library::new
OpenLibrary ==
  /\ todo = "open" /\ file.kind = "so"
  /\ IF file.opens THEN mapped' = TRUE /\ Becomes("rustc") /\ UNCHANGED outcome
                   ELSE UNCHANGED mapped /\ Refuse
  /\ UNCHANGED <<file, ran, object, caps>>

\* The version string is there, is UTF-8, and is the host's own.
SameToolchain == file.rustc = Host

CheckToolchain ==
  /\ todo = "rustc"
  /\ IF file.rustc = Missing THEN UNCHANGED ran ELSE Call(Symbols[1])
  /\ IF SameToolchain THEN Becomes("create") /\ UNCHANGED outcome ELSE Refuse
  /\ UNCHANGED <<file, mapped, object, caps>>

\* create_plugin: no symbol, null, or an object that is owned from here on.
CreatePlugin ==
  /\ todo = "create"
  /\ IF file.creates = Missing THEN UNCHANGED ran ELSE Call(Symbols[2])
  /\ IF file.creates \in {Missing, Bad} THEN Refuse /\ UNCHANGED object
     ELSE object' = TRUE /\ Becomes("api") /\ UNCHANGED outcome
  /\ UNCHANGED <<file, mapped, caps>>

\* check_api_compat: the same major version, and none that is newer.
Compatible(required) == required.major = Api.major /\ required.rank <= Api.rank

CheckApi ==
  /\ todo = "api"
  /\ IF Compatible(file.requires) THEN Becomes("manifest") /\ UNCHANGED outcome ELSE Refuse
  /\ UNCHANGED <<file, ran, mapped, object, caps>>

(***************************************************************************)
(* load_scripted_plugin_with_config: the operations, the depth of calls    *)
(* and the sizes of values are bounded, so a function may also fail there. *)
(***************************************************************************)

\* read_to_string, build_scripted_engine and compile
OpenScript ==
  /\ todo = "open" /\ file.kind = "rhai"
  /\ IF file.opens THEN mapped' = TRUE /\ Becomes("metadata") /\ UNCHANGED outcome
                   ELSE UNCHANGED mapped /\ Refuse
  /\ UNCHANGED <<file, ran, object, caps>>

\* extract_str, function by function
ExtractStr ==
  LET n == Len(ran) + 1 IN
  /\ todo = "metadata" /\ n <= Len(Metadata)
  /\ IF file.fails = Metadata[n] THEN UNCHANGED ran /\ Refuse
     ELSE Call(Metadata[n]) /\ UNCHANGED <<todo, outcome>>
  /\ UNCHANGED <<file, mapped, object, caps>>

\* The check is written out again here.
ScriptCompatible(required) == ~ (required.major # Api.major \/ required.rank > Api.rank)

\* Both Version::parse and the check; then the fields are moved into the plugin.
ParseVersions ==
  /\ todo = "metadata" /\ Len(ran) = Len(Metadata)
  /\ IF file.parses /\ file.requires # Bad
     THEN IF ScriptCompatible(file.requires)
          THEN object' = TRUE /\ Becomes("manifest") /\ UNCHANGED outcome
          ELSE Refuse /\ UNCHANGED object
     ELSE Refuse /\ UNCHANGED object
  /\ UNCHANGED <<file, ran, mapped, caps>>

(***************************************************************************)
(* load_one and the end of the plugin.                                     *)
(***************************************************************************)

Declared == file.manifest.required \cup file.manifest.optional
Known == {"downloads", "notifications"}

\* resolve_capabilities: unknown names are ignored, and downloads for a script.
Granted == IF file.kind = "rhai" THEN (Known \ {"downloads"}) \cap Declared
           ELSE Known \cap Declared

\* read_manifest, resolve_capabilities, PluginContext::new
ReadManifest ==
  /\ todo = "manifest"
  /\ caps' = Granted
  /\ outcome' = "loaded" /\ Becomes("live")
  /\ UNCHANGED <<file, ran, mapped, object>>

\* The registry lets the plugin go.
Unload ==
  /\ todo = "live" /\ Becomes("drop")
  /\ UNCHANGED <<file, ran, mapped, object, caps, outcome>>

\* Mutant of DropObject: the fields of NativePlugin in the other order.
DropMapping ==
  /\ todo = "drop" /\ object
  /\ mapped' = FALSE /\ object' = mapped
  /\ UNCHANGED <<file, todo, ran, caps, outcome>>

\* NativePlugin's fields are dropped in their order, plugin and then _lib; so are
\* the locals of an early return.
DropObject ==
  /\ todo = "drop" /\ object
  /\ object' = FALSE
  /\ UNCHANGED <<file, todo, ran, mapped, caps, outcome>>
DropLibrary ==
  /\ todo = "drop" /\ ~ object
  /\ mapped' = FALSE /\ todo' = "gone" /\ caps' = {}
  /\ UNCHANGED <<file, ran, object, outcome>>

FilesNext ==
  \/ OpenLibrary \/ CheckToolchain \/ CreatePlugin \/ CheckApi
  \/ OpenScript \/ ExtractStr \/ ParseVersions
  \/ ReadManifest \/ Unload \/ DropObject \/ DropLibrary

(***************************************************************************)
(* Properties.                                                             *)
(***************************************************************************)

Called(f) == \E i \in DOMAIN ran : ran[i] = f

\* native.rs: the vtable of a plugin that another toolchain laid out is never
\* used: create_plugin is not even called.
NoForeignObject ==
  file.kind = "so" /\ (object \/ Called(Symbols[2])) => file.rustc = Host

\* native.rs: a plugin object never outlives its library, whichever way loading
\* ends, and when the plugin is gone the library is not left behind.
ObjectInLibrary == (object => mapped) /\ (todo = "gone" => ~ mapped)

\* The check written in native.rs and the one written in scripted.rs admit the
\* same versions, and with them a file that answers every question is loaded.
LoadsExactly ==
  todo \in {"live", "gone"} =>
    (outcome = "loaded") =
      /\ file.opens /\ file.requires # Bad
      /\ file.requires.major = Api.major /\ file.requires.rank <= Api.rank
      /\ IF file.kind = "so" THEN file.rustc = Host /\ file.creates \notin {Missing, Bad}
                             ELSE file.fails = Missing /\ file.parses

\* Only plugins of this toolchain and version become objects, and they live in
\* their library.
PluginFilesSound == NoForeignObject /\ ObjectInLibrary /\ LoadsExactly
=============================================================================
