----------------------------- MODULE MCLibrary -----------------------------
(***************************************************************************)
(* A small instance of each part of Library for TLC.                       *)
(***************************************************************************)
EXTENDS Library

CONSTANTS m1, m2, m3, d1, d2

MCLower == [n \in {"Gen", "gen", "Vid", "K", "k", "L", "ddraw", "DDraw", "path"} |->
              IF n = "Gen" THEN "gen" ELSE IF n = "K" THEN "k"
              ELSE IF n = "DDraw" THEN "ddraw" ELSE n]

Head1(s) == [kind |-> "section", name |-> s]
Key1(k, v) == [kind |-> "key", name |-> k, value |-> v]
Note1(n) == [kind |-> "other", name |-> n]
MCTexts ==
  {<<>>,
   <<Key1("k", 0), Head1("Gen"), Key1("K", 0), Note1("blank")>>,
   <<Head1("Gen"), Note1("c"), Head1("Vid"), Key1("L", 1), Head1("gen"), Key1("k", 0)>>,
   <<Head1("gen"), Key1("k", 0), Key1("K", 1), Head1("Vid")>>}

\* The lines that WineRegistry tells apart, built by an instance of its own.
Reg == INSTANCE WineRegistry WITH Registries <- {}, MaxWrites <- 0
RegLines ==
  {Reg!Plain("overrides"), Reg!Escaped("overrides"), Reg!Escaped("steam"),
   Reg!Removal, Reg!Value("DDraw", "builtin"),
   Reg!Value("ddraw", "builtin"), Reg!Value("path", "c"), Reg!Other}
MCDlls == <<"ddraw", "k">>
MCRegistries == UNION {[1 .. n -> RegLines] : n \in 0 .. 4}

MCManifests ==
  <<[lib |-> 1, app |-> "skyrim"], [lib |-> 1, app |-> "doom"],
    [lib |-> 2, app |-> "skyrim"], [lib |-> 2, app |-> "fallout"]>>

MCCategories == <<"SKSE Data", "ENB", "Crash Logs">>
MCMatching == [f1 |-> {"ENB", "Crash Logs"}, f2 |-> {"SKSE Data"}, f3 |-> {}]

MCModOrder == <<m1, m2, m3>>
MCDllFiles == <<d1, d2>>
MCLibs == {[type |-> "64", version |-> 1], [type |-> "64", version |-> 2]}
MCMods == <<m1, m2>>

MCVersions == {[major |-> 0, rank |-> 9], [major |-> 1, rank |-> 2],
               [major |-> 1, rank |-> 3], [major |-> 1, rank |-> 4],
               [major |-> 2, rank |-> 0]}
MCApi == [major |-> 1, rank |-> 3]
MCWants == {[required |-> {}, optional |-> {}],
            [required |-> {"downloads"}, optional |-> {"telepathy"}],
            [required |-> {"notifications"}, optional |-> {"downloads"}]}
MCFiles ==
  [kind : {"so"}, opens : BOOLEAN, rustc : {"1.80", "1.81", Absent, Bad},
   creates : {"object", Absent, Bad}, requires : MCVersions, manifest : MCWants]
  \cup
  [kind : {"rhai"}, opens : BOOLEAN, parses : BOOLEAN,
   fails : {"plugin_id", "plugin_author", "plugin_required_api_version", Absent},
   requires : MCVersions \cup {Bad}, manifest : MCWants]

MCKernels == {<<5, 10>>, <<5, 11>>, <<6, 1>>, <<6, 6>>, <<7, 0>>}
=============================================================================
