----------------------------- MODULE MCInstall -----------------------------
(***************************************************************************)
(* A small instance of Install for TLC: an archive whose BSA file brings a  *)
(* directory that differs in case from a loose one, a later version of it   *)
(* whose BSA file lies in a directory, beside a file that differs in case   *)
(* from the one it packs, and a mod whose slug is the same.                 *)
(***************************************************************************)
EXTENDS Install, Sequences, TLC

Plain == {"meshes", "Meshes", "a", "A", "x.bsa", "y.bsa"}
Tmp == {n \o "~" : n \in Plain}
MCNames == Plain \cup Tmp \cup {n \o "~" : n \in Tmp}
\* The longest names, which no crash leads to, have no temporary name of their own.
MCTmpOf == [n \in MCNames |-> IF n \in Plain \cup Tmp THEN n \o "~" ELSE n]
Capital ==
  "Meshes" :> "meshes" @@ "Meshes~" :> "meshes~" @@ "Meshes~~" :> "meshes~~"
    @@ "A" :> "a" @@ "A~" :> "a~" @@ "A~~" :> "a~~"
MCLowerOf == [n \in MCNames |-> IF n \in DOMAIN Capital THEN Capital[n] ELSE n]

MCPacked == "x.bsa" :> {<<"meshes", "a">>} @@ "y.bsa" :> {<<Root, "a">>}
MCArchives ==
  {[stem |-> "Mod 1", files |-> {<<"Meshes", "A">>, <<Root, "x.bsa">>}],
   [stem |-> "Mod 1", files |-> {<<"Meshes", "y.bsa">>}],
   [stem |-> "mod 1", files |-> {<<Root, "A">>}]}
MCSlugOf == "Mod 1" :> "mod_1" @@ "mod 1" :> "mod_1"
=============================================================================
