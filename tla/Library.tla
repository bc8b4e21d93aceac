------------------------------ MODULE Library ------------------------------
(***************************************************************************)
(* Parts of the program that share no state with each other.  A behaviour  *)
(* of all of them is a shuffle of behaviours of each, so they are explored *)
(* apart: one part moves, the others stay as they began.                   *)
(***************************************************************************)
EXTENDS Naturals, Sequences, FiniteSets, SequencesExt

CONSTANTS None,
  Sections, Keys, Lower, Values, Texts, MaxSets, Top,
  Overrides, Dlls, Native, Registries, MaxOverrides, Nowhere,
  Manifests, KnownApps, Loaders, MaxChanges, MaxRestarts,
  Saves, Loose, Categories, Matching, Uncategorized, MaxGame, MaxScans,
  Profiles, Inis, Contents, MaxCalls, MaxWrites, Torn,
  ModOrder, DllFiles, SePlugins, Libs, GameVersions,
  Ids, Mods, OverviewRows, MaxClicks,
  Files, Toolchains, Host, Versions, Api, Absent, Bad,
  Kernels

VARIABLES
  part,
  text, lines, index, loaded, sets,
  reg, regTmp, writes,
  disk, readable, prefix, cell, scan, got, everGot, stirred, changes, restarts,
  plugins, saves, loose, diag, shown, lacking, paired, absent, lying, acts,
  scans,
  active, farms, escaped, overlay, links, handle, stranded, gameIni, snap, call, told,
  mixed, calls, written,
  enabled, ships, brings, gameIs, find, dllConflicts, libConflicts,
  rows, given, current, lists, on, page, knob, dialog, loads, chan, clicks, newest, failed,
  file, todo, ran, mapped, object, caps, outcome,
  machine, probed, tier, lastTier, at, fsfd, mntfd, dirs, attached, orphan

Ini == INSTANCE GameIni
Registry == INSTANCE WineRegistry WITH MaxWrites <- MaxOverrides
Games == INSTANCE GameDetection
Diag == INSTANCE Diagnostics
Switch == INSTANCE ProfileSwitch
Se == INSTANCE SkseConflicts WITH Mods <- ModOrder, Versions <- GameVersions
Pg == INSTANCE Pages
PlFiles == INSTANCE PluginFiles WITH Missing <- Absent
Bk == INSTANCE Backend

\* The names of backend/mod.rs.
TierNames == {"symlink-farm", "fuse-overlayfs", "kernel-overlayfs"}

\* A profile has an id, and None is neither an answer of a probe nor a backend.
ASSUME NoneIsNone ==
  None \notin Profiles /\ None \notin BOOLEAN /\ None \notin TierNames

\* The manifests are read one by one, CATEGORIES is a list, and a release is a pair
\* of numbers, as kernel_version reads it.
ASSUME ListsAndNumbers ==
  /\ Manifests \in Seq({Manifests[i] : i \in DOMAIN Manifests})
  /\ Categories \in Seq({Categories[i] : i \in DOMAIN Categories})
  /\ \A k \in Kernels : k[1] \in Nat /\ k[2] \in Nat
  /\ MaxClicks \in Nat

\* A file is a list of lines, the DLLs are a table, and a value has a key.
ASSUME FilesAreLists ==
  /\ \A t \in Texts \cup Registries : t \in Seq({t[i] : i \in DOMAIN t})
  /\ Dlls \in Seq({Dlls[i] : i \in DOMAIN Dlls})
  /\ Overrides # Nowhere

\* A mod has one place among the priorities of a profile, and paths are in an order.
ASSUME PlacesAreOnce ==
  /\ ModOrder \in Seq({ModOrder[i] : i \in DOMAIN ModOrder})
  /\ \A i, j \in DOMAIN ModOrder : ModOrder[i] = ModOrder[j] => i = j
  /\ DllFiles \in Seq({DllFiles[i] : i \in DOMAIN DllFiles})

\* A library answers with a version of its own, and versions are in order; what
\* fails of a script is one of its functions, or none of them.
ASSUME FileAnswers ==
  /\ \A f \in Files :
       /\ f.opens \in BOOLEAN
       /\ f.requires = Bad \/ f.requires.rank \in Nat
       /\ \/ f.kind = "so" /\ f.requires # Bad
          \/ f.kind = "rhai" /\ f.parses \in BOOLEAN
             /\ \/ f.fails = Absent
                \/ \E i \in 1 .. 6 : f.fails = PlFiles!Metadata[i]
  /\ \A i \in 1 .. 6 : Absent # PlFiles!Metadata[i]
  /\ Api.rank \in Nat

iniPart == <<text, lines, index, loaded, sets>>
regPart == <<reg, regTmp, writes>>
gamePart == <<disk, readable, prefix, cell, scan, got, everGot, stirred, changes,
              restarts>>
diagPart == <<plugins, saves, loose, diag, shown, lacking, paired, absent, lying, acts, scans>>
switchPart == <<active, farms, escaped, overlay, links, handle, stranded, gameIni, snap,
                call, told, mixed, calls, written>>
sePart == <<enabled, ships, brings, gameIs, find, dllConflicts, libConflicts>>
pagesPart == <<rows, given, current, lists, on, page, knob, dialog, loads, chan, clicks,
               newest, failed>>
filesPart == <<file, todo, ran, mapped, object, caps, outcome>>
backendPart ==
  <<machine, probed, tier, lastTier, at, fsfd, mntfd, dirs, attached, orphan>>
vars == <<part, iniPart, regPart, gamePart, diagPart, switchPart, sePart, pagesPart,
          filesPart, backendPart>>

\* The variables of the parts that do not move.
NoIni ==
  /\ text = None /\ lines = None /\ index = None /\ loaded = None /\ sets = None
NoRegistry ==
  /\ reg = None /\ regTmp = None /\ writes = None
NoGames ==
  /\ disk = None /\ readable = None /\ prefix = None /\ cell = None /\ scan = None
  /\ got = None /\ everGot = None /\ stirred = None /\ changes = None
  /\ restarts = None
NoDiag ==
  /\ plugins = None /\ saves = None /\ loose = None /\ diag = None /\ shown = None
  /\ lacking = None /\ paired = None /\ absent = None /\ lying = None /\ acts = None
  /\ scans = None
NoSwitch ==
  /\ active = None /\ farms = None /\ escaped = None /\ overlay = None
  /\ links = None /\ handle = None /\ stranded = None /\ gameIni = None /\ snap = None
  /\ call = None /\ told = None /\ mixed = None /\ calls = None /\ written = None
NoSe ==
  /\ enabled = None /\ ships = None /\ brings = None /\ gameIs = None
  /\ find = None /\ dllConflicts = None /\ libConflicts = None
NoPages ==
  /\ rows = None /\ given = None /\ current = None /\ lists = None /\ on = None
  /\ page = None /\ knob = None /\ dialog = None /\ loads = None /\ chan = None
  /\ clicks = None /\ newest = None /\ failed = None
NoFiles ==
  /\ file = None /\ todo = None /\ ran = None /\ mapped = None /\ object = None
  /\ caps = None /\ outcome = None
NoBackend ==
  /\ machine = None /\ probed = None /\ tier = None /\ lastTier = None /\ at = None
  /\ fsfd = None /\ mntfd = None /\ dirs = None /\ attached = None /\ orphan = None

Init ==
  /\ part \in {"ini", "reg", "game", "diag", "switch", "se", "pages", "files", "backend"}
  /\ IF part = "ini" THEN Ini!IniInit ELSE NoIni
  /\ IF part = "reg" THEN Registry!RegInit ELSE NoRegistry
  /\ IF part = "game" THEN Games!DetectInit ELSE NoGames
  /\ IF part = "diag" THEN Diag!DiagInit ELSE NoDiag
  /\ IF part = "switch" THEN Switch!SwitchInit ELSE NoSwitch
  /\ IF part = "se" THEN Se!SeInit ELSE NoSe
  /\ IF part = "pages" THEN Pg!PagesInit ELSE NoPages
  /\ IF part = "files" THEN PlFiles!FilesInit ELSE NoFiles
  /\ IF part = "backend" THEN Bk!BackendInit ELSE NoBackend

Next ==
  /\ UNCHANGED part
  /\ \/ /\ part = "ini" /\ Ini!IniNext
        /\ UNCHANGED <<regPart, gamePart, diagPart, switchPart, sePart, pagesPart,
                      filesPart, backendPart>>
     \/ /\ part = "reg" /\ Registry!RegNext
        /\ UNCHANGED <<iniPart, gamePart, diagPart, switchPart, sePart, pagesPart,
                      filesPart, backendPart>>
     \/ /\ part = "game" /\ Games!DetectNext
        /\ UNCHANGED <<iniPart, regPart, diagPart, switchPart, sePart, pagesPart,
                      filesPart, backendPart>>
     \/ /\ part = "diag" /\ Diag!DiagNext
        /\ UNCHANGED <<iniPart, regPart, gamePart, switchPart, sePart, pagesPart,
                      filesPart, backendPart>>
     \/ /\ part = "switch" /\ Switch!SwitchNext
        /\ UNCHANGED <<iniPart, regPart, gamePart, diagPart, sePart, pagesPart,
                      filesPart, backendPart>>
     \/ /\ part = "se" /\ Se!SeNext
        /\ UNCHANGED <<iniPart, regPart, gamePart, diagPart, switchPart, pagesPart,
                      filesPart, backendPart>>
     \/ /\ part = "pages" /\ Pg!PagesNext
        /\ UNCHANGED <<iniPart, regPart, gamePart, diagPart, switchPart, sePart,
                      filesPart, backendPart>>
     \/ /\ part = "files" /\ PlFiles!FilesNext
        /\ UNCHANGED <<iniPart, regPart, gamePart, diagPart, switchPart, sePart,
                      pagesPart, backendPart>>
     \/ /\ part = "backend" /\ Bk!BackendNext
        /\ UNCHANGED <<iniPart, regPart, gamePart, diagPart, switchPart, sePart,
                      pagesPart, filesPart>>

Spec == Init /\ [][Next]_vars

-----------------------------------------------------------------------------
\* What get answers after any sets is what the saved file says (GameIni).
SetSticks == part = "ini" => Ini!SetSticks

\* The DLL overrides are written once, and the reader finds them (WineRegistry).
OverridesHold == part = "reg" => Registry!WriteIsIdempotent /\ Registry!OverridesRead

\* A switch of a page, however old, changes the profile that the page was built for
\* (Pages).
SwitchesHitShown == [][part = "pages" => Pg!ClickHitsShownStep]_vars

\* A step touches what it is about: a set its own key, an override its own DLLs, a
\* switch of a page its profile (GameIni, WineRegistry, Pages).
OthersUntouched ==
  /\ [][/\ part = "ini" => Ini!OthersStayStep
        /\ part = "reg" => Registry!OthersReadStep]_vars
  /\ SwitchesHitShown

\* All states of a process are about one game, the first there is (GameDetection).
OneGame == part = "game" => Games!OneGamePerProcess /\ Games!FirstGameWins

\* The scans name a save that lacks its cosave, none that never lacked it, and count
\* every loose file once (Diagnostics).
ScansTrue == part = "diag" => Diag!ScansTrue

\* activate_profile shows no mods of another profile, and tells of a switch only
\* when it is complete (ProfileSwitch).
SwitchTrue == part = "switch" => Switch!SwitchTrue

\* Both detections report exactly what conflicts (SkseConflicts).
SeConflictsExact == part = "se" => Se!DllConflictsExact /\ Se!LibConflictsExact

\* Old pages neither delete the active profile nor go on showing what is no
\* longer so (Pages).
PagesHold == part = "pages" => Pg!PagesHold

\* Only plugins of this toolchain and version become objects (PluginFiles).
PluginFilesSound == part = "files" => PlFiles!PluginFilesSound

\* One backend per process, none lower than before, no mount half made (Backend).
BackendSound == part = "backend" => Bk!BackendSound
=============================================================================
