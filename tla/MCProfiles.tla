----------------------------- MODULE MCProfiles -----------------------------
(***************************************************************************)
(* Small instances of Profiles for TLC.  The configurations pick how many  *)
(* ids the tables may hand out and how many threads run.                   *)
(***************************************************************************)
EXTENDS ModListVecs, TLC

\* p1 is called "Default", every other profile has a name of its own.
MCNames == [p \in ProfileIds |-> IF p = "p1" THEN DefaultName ELSE p]

\* m3 is a re-install of m1, under the same slug.
MCSlugs == [m \in ModIds |-> IF m = "m3" THEN "s_m1" ELSE "s_" \o m]

\* Slugs that tell the mods apart and nothing more, so that mods are symmetric.
MCOwnSlugs == [m \in ModIds |-> m]

ThreadsAndMods == Permutations(Conns) \cup Permutations(ModIds)
=============================================================================
