----------------------------- MODULE Conflicts -----------------------------
(***************************************************************************)
(* File conflicts between the enabled mods of a profile: the scan           *)
(* (conflict/detector.rs, called by build_mod_list_with_conflicts of        *)
(* state_worker.rs), the roles (conflict/mod.rs, conflict/resolution.rs)    *)
(* and the pruning of the files that lose (conflict/prune.rs).              *)
(*                                                                          *)
(* Order is the list of enabled mods, highest priority first; Rows gives    *)
(* the paths of every mod in mod_files, where UNIQUE(mod_id, rel_path)      *)
(* leaves no path twice.                                                    *)
(***************************************************************************)
EXTENDS Naturals, Sequences

CONSTANTS
  Mods, Paths,
  Order,       \* the enabled mods, the winner of every conflict first
  None

ASSUME OrderAssumption ==
  /\ Order \in Seq(Mods)
  /\ \A j, k \in 1..Len(Order) : Order[j] = Order[k] => j = k
  /\ None \notin Mods

Places == 1..Len(Order)

VARIABLES
  rows,        \* the paths of each mod in mod_files
  disk,        \* the paths of each mod in its directory
  backup,      \* the paths of each mod in the backup directory
  torn,        \* ... those of them that a failed copy has left cut short
  at,          \* "scan", "scanned", "prune" or "pruned"
  next,        \* the place in Order the scan has come to
  winner,      \* detect: winner_table
  losers,      \* detect: loser_list, by path
  left,        \* prune_losers: the entries to come
  entry,       \* ... the path of the current one
  queue,       \* ... and its losers to come
  copied,      \* the backup of the head of queue has been written
  errors       \* PruneResult.errors: the losers whose file was not moved

diskVars == <<rows, disk, backup, torn>>
scanVars == <<next, winner, losers>>
pruneVars == <<left, entry, queue, copied, errors>>
conflictVars == <<rows, disk, backup, torn, at, next, winner, losers, left,
                  entry, queue, copied, errors>>

ConflictsInit ==
  /\ rows \in [Mods -> SUBSET Paths]
  /\ disk = rows
  /\ backup = [m \in Mods |-> {}] /\ torn = [m \in Mods |-> {}]
  /\ at = "scan"
  /\ next = 1
  /\ winner = [p \in Paths |-> None]
  /\ losers = [p \in Paths |-> <<>>]
  /\ left = {} /\ entry = None /\ queue = <<>> /\ copied = FALSE /\ errors = {}

(***************************************************************************)
(* What a mount of the directories d in the list's order shows at path p:   *)
(* the meaning of MountParams (vfs/types.rs).                               *)
(***************************************************************************)
Providers(d, p) == {k \in Places : p \in d[Order[k]]}
First(K) == CHOOSE k \in K : \A j \in K : k <= j
Shown(d, p) == IF Providers(d, p) = {} THEN None ELSE Order[First(Providers(d, p))]

(***************************************************************************)
(* detect: one mod of the list, the highest first.                          *)
(***************************************************************************)
\* Mutant of Claim: the last mod that claims a path has it.
ClaimLast(m) == [p \in Paths |-> IF p \in rows[m] THEN m ELSE winner[p]]

\* The first mod that claims a path keeps it.
Claim(m) ==
  [p \in Paths |-> IF p \in rows[m] /\ winner[p] = None THEN m ELSE winner[p]]

ScanMod ==
  /\ at = "scan" /\ next <= Len(Order)
  /\ LET m == Order[next]
     IN /\ winner' = Claim(m)
        /\ losers' = [p \in Paths |->
                        IF p \in rows[m] /\ winner[p] # None
                          THEN Append(losers[p], m) ELSE losers[p]]
  /\ next' = next + 1
  /\ UNCHANGED <<diskVars, at, pruneVars>>

ScanDone ==
  /\ at = "scan" /\ next > Len(Order)
  /\ at' = "scanned"
  /\ UNCHANGED <<diskVars, scanVars, pruneVars>>

\* ConflictMap.entries.
Contested == {p \in Paths : losers[p] # <<>>}
LosersOf(p) == {losers[p][n] : n \in DOMAIN losers[p]}

\* win_count_for_mod, loss_count_for_mod and role_of_mod, whose counts matter
\* only as being zero or not.
Wins(m) == {p \in Contested : winner[p] = m}
Losses(m) == {p \in Contested : m \in LosersOf(p)}

RoleOf(m) ==
  IF Wins(m) = {} THEN IF Losses(m) = {} THEN "Clean" ELSE "Loser"
                  ELSE IF Losses(m) = {} THEN "Winner" ELSE "Both"

(***************************************************************************)
(* prune_losers: the entries in any order (it walks a HashMap), the losers  *)
(* of each in theirs.                                                       *)
(***************************************************************************)
StartPrune ==
  /\ at = "scanned"
  /\ at' = "prune"
  /\ left' = Contested
  /\ entry' = None /\ queue' = <<>> /\ copied' = FALSE /\ errors' = {}
  /\ UNCHANGED <<diskVars, scanVars>>

NextEntry ==
  /\ at = "prune" /\ queue = <<>>
  /\ \E p \in left :
       /\ entry' = p /\ queue' = losers[p]
       /\ left' = left \ {p}
  /\ UNCHANGED <<diskVars, at, scanVars, copied, errors>>

Loser == Head(queue)
NextLoser == queue' = Tail(queue) /\ copied' = FALSE

\* skipped_missing.
SkipMissing ==
  /\ at = "prune" /\ queue # <<>> /\ ~copied
  /\ entry \notin disk[Loser]
  /\ NextLoser
  /\ UNCHANGED <<diskVars, at, scanVars, left, entry, errors>>

\* fs::copy writes the backup ...
CopyLoser ==
  /\ at = "prune" /\ queue # <<>> /\ ~copied
  /\ entry \in disk[Loser]
  /\ backup' = [backup EXCEPT ![Loser] = @ \cup {entry}]
  /\ torn' = [torn EXCEPT ![Loser] = @ \ {entry}]
  /\ copied' = TRUE
  /\ UNCHANGED <<rows, disk, at, scanVars, left, entry, queue, errors>>

Failed == errors' = errors \cup {<<Loser, entry>>}

\* Mutant of CopyFails: the error is recorded but the file is removed all the same.
CopyFailsRemoves ==
  /\ at = "prune" /\ queue # <<>> /\ ~copied
  /\ entry \in disk[Loser]
  /\ Failed /\ copied' = TRUE
  /\ UNCHANGED <<diskVars, at, scanVars, left, entry, queue>>

\* ... or fails, before it has made the file or in the midst of writing it; the
\* next loser follows.  A directory that cannot be made is the first case.
CopyFails ==
  /\ at = "prune" /\ queue # <<>> /\ ~copied
  /\ entry \in disk[Loser]
  /\ \/ UNCHANGED <<backup, torn>>
     \/ /\ backup' = [backup EXCEPT ![Loser] = @ \cup {entry}]
        /\ torn' = [torn EXCEPT ![Loser] = @ \cup {entry}]
  /\ Failed /\ NextLoser
  /\ UNCHANGED <<rows, disk, at, scanVars, left, entry>>

RemoveLoser ==
  /\ at = "prune" /\ copied
  /\ disk' = [disk EXCEPT ![Loser] = @ \ {entry}]
  /\ NextLoser
  /\ UNCHANGED <<rows, backup, torn, at, scanVars, left, entry, errors>>

RemoveFails ==
  /\ at = "prune" /\ copied
  /\ Failed /\ NextLoser
  /\ UNCHANGED <<diskVars, at, scanVars, left, entry>>

PruneDone ==
  /\ at = "prune" /\ queue = <<>> /\ left = {}
  /\ at' = "pruned"
  /\ UNCHANGED <<diskVars, scanVars, pruneVars>>

\* The program stops, at any point; the next one scans the same rows.
Restart ==
  /\ at' = "scan"
  /\ next' = 1
  /\ winner' = [p \in Paths |-> None]
  /\ losers' = [p \in Paths |-> <<>>]
  /\ left' = {} /\ entry' = None /\ queue' = <<>> /\ copied' = FALSE /\ errors' = {}
  /\ UNCHANGED diskVars

PruneStep ==
  \/ NextEntry \/ SkipMissing \/ CopyLoser \/ CopyFails \/ RemoveLoser
  \/ RemoveFails \/ PruneDone

ConflictsNext == ScanMod \/ ScanDone \/ StartPrune \/ PruneStep \/ Restart

ConflictsSpec == ConflictsInit /\ [][ConflictsNext]_conflictVars

-----------------------------------------------------------------------------
ConflictsTypeOK ==
  /\ rows \in [Mods -> SUBSET Paths] /\ disk \in [Mods -> SUBSET Paths]
  /\ backup \in [Mods -> SUBSET Paths] /\ torn \in [Mods -> SUBSET Paths]
  /\ at \in {"scan", "scanned", "prune", "pruned"}
  /\ next \in 1..(Len(Order) + 1)
  /\ winner \in [Paths -> Mods \cup {None}]
  /\ losers \in [Paths -> Seq(Mods)]
  /\ left \in SUBSET Paths /\ entry \in Paths \cup {None}
  /\ queue \in Seq(Mods) /\ copied \in BOOLEAN
  /\ errors \in SUBSET (Mods \X Paths)

\* The conflict map and the mounted overlay agree: of the mods that have a path
\* in the database the map's winner is the one whose file the mount shows, also
\* while the losers' files are being moved away and wherever that fails.
WinnerIsShown ==
  at # "scan" => \A p \in Paths : winner[p] = Shown(disk, p)

\* Every file of every mod is in the mod's directory or whole in the backup,
\* whichever step of the pruning fails and wherever the program stops.
NothingLost ==
  \A m \in Mods : \A p \in rows[m] : p \in disk[m] \/ p \in backup[m] \ torn[m]

\* The badge of a mod tells the truth about the mount: it wins or loses exactly
\* when some file of it hides, or is hidden by, a file of another enabled mod.
Hides(k) == \E p \in rows[Order[k]] :
  First(Providers(rows, p)) = k /\ Providers(rows, p) # {k}
Hidden(k) == \E p \in rows[Order[k]] : First(Providers(rows, p)) # k

RolesTrue ==
  at # "scan" => \A k \in Places :
    /\ Hides(k) <=> RoleOf(Order[k]) \in {"Winner", "Both"}
    /\ Hidden(k) <=> RoleOf(Order[k]) \in {"Loser", "Both"}

\* Unless an error is reported for it, pruning leaves no file of a loser behind.
LosersPruned ==
  at = "pruned" => \A p \in Contested : \A m \in LosersOf(p) :
    p \in disk[m] => <<m, p>> \in errors

\* The conflict map tells the truth about the mount: who wins, and who wins or
\* loses something, also while and after losers are pruned.
MapIsTrue == ConflictsTypeOK /\ WinnerIsShown /\ RolesTrue

\* Pruning takes every loser's file it says it took, and loses none.
PruneIsSafe == NothingLost /\ LosersPruned
=============================================================================
