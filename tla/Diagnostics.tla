---------------------------- MODULE Diagnostics ----------------------------
(***************************************************************************)
(* The scans after a session: load_diagnostics of state_worker.rs, the      *)
(* cosaves of diag/cosave.rs and the overwrite directory of                 *)
(* diag/overwrite.rs.                                                       *)
(*                                                                          *)
(* The scans ask for one file after the other, while the game may be        *)
(* writing a save and then its cosave, the player deleting one or both, and *)
(* a mod may be installed: between is_file of a save and exists of its      *)
(* cosave as well.                                                          *)
(***************************************************************************)
EXTENDS Naturals, Sequences, FiniteSets, SequencesExt

CONSTANTS
  Saves,         \* the stems of the save files
  Loose,         \* the files that may lie in the overwrite directory
  Categories,    \* CATEGORIES in their order
  Matching,      \* the categories each loose file matches
  Uncategorized,
  MaxGame,       \* bound: what the game does
  MaxScans       \* bound: reloads

VARIABLES
  plugins,    \* a mod has a DLL under the name of the script extender's directory
  saves,      \* of every stem, which of the two files there are
  loose,      \* the files in the overwrite directory
  diag,       \* the scan
  shown,      \* the entries of the last state
  lacking,    \* history: saves that were there without cosave since the scan began
  paired,     \* history: stems whose cosave was there since the scan began
  absent,     \* history: stems whose save was not there since the scan began
  lying,      \* history: loose files since the scan began
  acts, scans

diagVars == <<plugins, saves, loose, diag, shown, lacking, paired, absent, lying, acts, scans>>
world == <<plugins, saves, loose, acts>>
since == <<lacking, paired, absent, lying>>

\* The save is there; there is a file under the very name of its cosave.
Save(s) == "save" \in saves[s]
Cosave(s) == "cosave" \in saves[s]

Quiet == [at |-> "idle", left |-> {}, of |-> {}, listed |-> FALSE, missing |-> {},
          walk |-> {}, found |-> <<>>]
NoFiles == [c \in Range(Categories) \cup {Uncategorized} |-> {}]

DiagInit ==
  /\ plugins \in BOOLEAN
  /\ saves \in [Saves -> SUBSET {"save", "cosave"}]
  /\ loose \in SUBSET Loose
  /\ diag = Quiet /\ shown = <<>>
  /\ lacking = {} /\ paired = {} /\ absent = {} /\ lying = {}
  /\ acts = 0 /\ scans = 0

\* A reload has a game, a prefix and a directory of mods, and runs both scans.
BeginScan ==
  /\ diag.at = "idle" /\ scans < MaxScans /\ scans' = scans + 1
  /\ diag' = [Quiet EXCEPT !.at = IF plugins THEN "list" ELSE "overwrite",
                           !.found = NoFiles]
  /\ lacking' = {s \in Saves : Save(s) /\ ~ Cosave(s)}
  /\ paired' = {s \in Saves : Cosave(s)} /\ absent' = {s \in Saves : ~ Save(s)}
  /\ lying' = loose
  /\ UNCHANGED <<world, shown>>

\* The names of the saves in their directory, or an error: none.
ListSaves ==
  /\ diag.at = "list"
  /\ \E listed \in BOOLEAN :
       diag' = [diag EXCEPT !.at = "saves", !.listed = listed,
                            !.left = IF listed THEN {s \in Saves : Save(s)} ELSE {}]
  /\ UNCHANGED <<world, shown, since, scans>>

\* Mutant of IsFile: a save that has gone ends the scan.
IsFileReturns ==
  /\ diag.at = "saves"
  /\ \E s \in diag.left :
       diag' = IF Save(s) THEN [diag EXCEPT !.at = "exists", !.of = {s}, !.left = @ \ {s}]
                          ELSE [diag EXCEPT !.left = {}]
  /\ UNCHANGED <<world, shown, since, scans>>

\* It is a file still: next its cosave. One that has gone is passed over.
IsFile ==
  /\ diag.at = "saves"
  /\ \E s \in diag.left :
       diag' = [diag EXCEPT !.at = IF Save(s) THEN "exists" ELSE @,
                            !.of = IF Save(s) THEN {s} ELSE @, !.left = @ \ {s}]
  /\ UNCHANGED <<world, shown, since, scans>>

\* By then the save may have gone; it is named unless there is a cosave.
CosaveExists ==
  /\ diag.at = "exists"
  /\ diag' = [diag EXCEPT !.at = "saves", !.of = {},
                          !.missing = @ \cup {s \in diag.of : ~ Cosave(s)}]
  /\ UNCHANGED <<world, shown, since, scans>>

SavesDone ==
  /\ diag.at = "saves" /\ diag.left = {}
  /\ diag' = [diag EXCEPT !.at = "overwrite"]
  /\ UNCHANGED <<world, shown, since, scans>>

ListLoose ==
  /\ diag.at = "overwrite"
  /\ diag' = [diag EXCEPT !.at = "walk", !.walk = loose]
  /\ UNCHANGED <<world, shown, since, scans>>

\* classify: the first category that matches.
Classes(f) ==
  LET at == {i \in DOMAIN Categories : Categories[i] \in Matching[f]}
  IN {IF at = {} THEN Uncategorized
      ELSE Categories[CHOOSE i \in at : \A j \in at : i <= j]}

WalkFile ==
  /\ diag.at = "walk"
  /\ \E f \in diag.walk :
       diag' = [diag EXCEPT !.walk = @ \ {f},
                  !.found = [c \in DOMAIN @ |-> IF c \in Classes(f) THEN @[c] \cup {f}
                                                                    ELSE @[c]]]
  /\ UNCHANGED <<world, shown, since, scans>>

Warning == [severity |-> "warning", of |-> diag.missing]
Note == [severity |-> "info", of |-> diag.found]

\* A warning when a cosave is missing, then an info when a file lies about.
ShowEntries ==
  /\ diag.at = "walk" /\ diag.walk = {}
  /\ shown' = (IF diag.missing # {} THEN <<Warning>> ELSE <<>>)
              \o (IF diag.found # NoFiles THEN <<Note>> ELSE <<>>)
  /\ diag' = [diag EXCEPT !.at = "shown"]
  /\ UNCHANGED <<world, since, scans>>

EndOfScan ==
  /\ diag.at = "shown" /\ diag' = Quiet
  /\ UNCHANGED <<world, shown, since, scans>>

\* The game writes a save, and its script extender the cosave after it; the player
\* deletes one or both; files come to lie in the overwrite directory or are moved away.
GameActs ==
  /\ acts < MaxGame /\ acts' = acts + 1
  /\ \/ \E s \in Saves :
          /\ \/ ~ Save(s) /\ saves' = [saves EXCEPT ![s] = @ \cup {"save"}]
             \/ Save(s) /\ ~ Cosave(s) /\ saves' = [saves EXCEPT ![s] = @ \cup {"cosave"}]
             \/ \E gone \in (SUBSET saves[s]) \ {{}} :
                  saves' = [saves EXCEPT ![s] = @ \ gone]
          /\ UNCHANGED <<plugins, loose>>
     \/ plugins' = ~ plugins /\ UNCHANGED <<saves, loose>>
     \/ \E f \in Loose :
          /\ loose' = IF f \in loose THEN loose \ {f} ELSE loose \cup {f}
          /\ UNCHANGED <<plugins, saves>>
  /\ lacking' = {s \in lacking : saves'[s] = {"save"}}
  /\ paired' = {s \in paired : "cosave" \in saves'[s]}
  /\ absent' = {s \in absent : "save" \notin saves'[s]}
  /\ lying' = lying \cap loose'
  /\ UNCHANGED <<diag, shown, scans>>

DiagNext ==
  \/ BeginScan \/ ListSaves \/ IsFile \/ CosaveExists \/ SavesDone \/ ListLoose
  \/ WalkFile \/ ShowEntries \/ EndOfScan \/ GameActs

-----------------------------------------------------------------------------
Warned == UNION {shown[i].of : i \in {j \in DOMAIN shown :
                                        shown[j].severity = "warning"}}
Listed == {shown[i].of : i \in {j \in DOMAIN shown : shown[j].severity = "info"}}

\* What a finished scan warns of was there at some moment of it, and had no cosave at
\* some moment of it, not always the same one: a save deleted with its cosave between
\* the two questions is named. And every save that was there without one all the time
\* is named, if the directory could be read, whatever has gone meanwhile.
WarnsOfMissing ==
  diag.at = "shown" =>
    /\ Warned \cap (paired \cup absent) = {}
    /\ diag.listed => lacking \subseteq Warned

\* A loose file that lay there during the whole scan is counted once, under one
\* category, so that the total of the entry is the number of files.
LooseCountedOnce ==
  diag.at = "shown" =>
    \A f \in lying : \E found \in Listed :
      Cardinality({c \in DOMAIN found : f \in found[c]}) = 1

\* The scans name what lacked a cosave all the time and nothing that never did, and
\* every loose file once.
ScansTrue == WarnsOfMissing /\ LooseCountedOnce
=============================================================================
