------------------------------ MODULE Overlay ------------------------------
(***************************************************************************)
(* Stacked mounts (vfs/stacking.rs) of the mods whose conflicts are scanned *)
(* and pruned: mount_stacked mounts chunks of the list in temporary         *)
(* directories and those under the game's directory, and unmount takes it   *)
(* all down.  The mount of a chunk may fail, and so may every unmount.      *)
(***************************************************************************)
EXTENDS Conflicts, SequencesExt

CONSTANT ChunkSize

\* The list is longer than a chunk: the debug_assert of mount_stacked.
ASSUME ChunkAssumption == ChunkSize \in Nat \ {0} /\ Len(Order) > ChunkSize

Final == 0
ChunkCount == (Len(Order) + ChunkSize - 1) \div ChunkSize
Chunks == 1..ChunkCount
PlacesOf(c) == {k \in Places : (c - 1) * ChunkSize < k /\ k <= c * ChunkSize}

VARIABLES
  stage,       \* where mount_stacked or unmount is
  handles,     \* intermediate_handles
  merges,      \* chunk_merge_paths
  tempDirs,    \* intermediate_dirs
  mounted,     \* what is mounted on the machine: chunks and Final
  stuck,       \* ... and has refused to be unmounted
  view         \* what each mount shows

stackVars == <<stage, handles, merges, tempDirs, mounted, stuck, view>>

NoView == [p \in Paths |-> None]

Init ==
  /\ ConflictsInit
  /\ stage = "idle"
  /\ handles = <<>> /\ merges = <<>> /\ tempDirs = {}
  /\ mounted = {} /\ stuck = {}
  /\ view = [c \in Chunks \cup {Final} |-> NoView]

\* What the mount of chunk c shows, and what the mount of the chunks shows.
ChunkView(c) ==
  [p \in Paths |-> LET K == Providers(disk, p) \cap PlacesOf(c)
                   IN IF K = {} THEN None ELSE Order[First(K)]]
FinalView ==
  [p \in Paths |-> LET K == {k \in DOMAIN merges : view[merges[k]][p] # None}
                   IN IF K = {} THEN None ELSE view[merges[First(K)]][p]]

\* mount_stacked: the temporary directory of the next chunk ...
MakeTempDir ==
  /\ stage = "idle" \/ (stage = "chunks" /\ Len(merges) < ChunkCount)
  /\ stage' = "mount"
  /\ tempDirs' = tempDirs \cup {Len(merges) + 1}
  /\ UNCHANGED <<handles, merges, mounted, stuck, view>>

\* ... cannot be made: `?` returns at once, and drops the handles without an
\* unmount.
TempDirFails ==
  /\ stage = "idle" \/ (stage = "chunks" /\ Len(merges) < ChunkCount)
  /\ stage' = "abandoned"
  /\ handles' = <<>> /\ tempDirs' = {}
  /\ UNCHANGED <<merges, mounted, stuck, view>>

\* Mutant of MountChunk: its directory goes to the front of the list.
MountChunkFront ==
  /\ stage = "mount"
  /\ LET c == Len(merges) + 1
     IN /\ view' = [view EXCEPT ![c] = ChunkView(c)]
        /\ mounted' = mounted \cup {c}
        /\ handles' = Append(handles, c)
        /\ merges' = <<c>> \o merges
  /\ stage' = "chunks"
  /\ UNCHANGED <<tempDirs, stuck>>

\* The chunk is mounted there, and its directory joins the list at the end.
MountChunk ==
  /\ stage = "mount"
  /\ LET c == Len(merges) + 1
     IN /\ view' = [view EXCEPT ![c] = ChunkView(c)]
        /\ mounted' = mounted \cup {c}
        /\ handles' = Append(handles, c)
        /\ merges' = Append(merges, c)
  /\ stage' = "chunks"
  /\ UNCHANGED <<tempDirs, stuck>>

MountFinal ==
  /\ stage = "chunks" /\ Len(merges) = ChunkCount
  /\ view' = [view EXCEPT ![Final] = FinalView]
  /\ mounted' = mounted \cup {Final}
  /\ stage' = "up"
  /\ UNCHANGED <<handles, merges, tempDirs, stuck>>

\* Mutant of MountFails: the chunks stay mounted.
MountFailsLeaks ==
  /\ stage = "mount" \/ (stage = "chunks" /\ Len(merges) = ChunkCount)
  /\ stage' = "failed"
  /\ handles' = <<>> /\ tempDirs' = {}
  /\ UNCHANGED <<merges, mounted, stuck, view>>

\* The mount of a chunk or the final one fails.
MountFails ==
  /\ stage = "mount" \/ (stage = "chunks" /\ Len(merges) = ChunkCount)
  /\ stage' = "cleanup"
  /\ UNCHANGED <<handles, merges, tempDirs, mounted, stuck, view>>

TakeDown(c) ==
  \/ mounted' = mounted \ {c} /\ UNCHANGED stuck
  \/ stuck' = stuck \cup {c} /\ UNCHANGED mounted

\* drain(..) of the handles in their order, errors ignored.
CleanUp ==
  /\ stage = "cleanup"
  /\ IF handles = <<>>
       THEN /\ stage' = "failed" /\ tempDirs' = {}
            /\ UNCHANGED <<handles, mounted, stuck>>
       ELSE /\ TakeDown(Head(handles)) /\ handles' = Tail(handles)
            /\ UNCHANGED <<stage, tempDirs>>
  /\ UNCHANGED <<merges, view>>

\* StackedMount::unmount: the final mount first ...
UnmountFinal ==
  /\ stage = "up"
  /\ TakeDown(Final)
  /\ stage' = "down"
  /\ UNCHANGED <<handles, merges, tempDirs, view>>

\* ... then the others from the last to the first, all of them.
UnmountChunk ==
  /\ stage = "down"
  /\ IF handles = <<>>
       THEN /\ stage' = "off" /\ tempDirs' = {}
            /\ UNCHANGED <<handles, mounted, stuck>>
       ELSE /\ TakeDown(Last(handles)) /\ handles' = Front(handles)
            /\ UNCHANGED <<stage, tempDirs>>
  /\ UNCHANGED <<merges, view>>

StackStep ==
  \/ MakeTempDir \/ TempDirFails \/ MountChunk \/ MountFinal \/ MountFails
  \/ CleanUp \/ UnmountFinal \/ UnmountChunk

\* A program that stops under a mount is a matter of module Vfs.
Next ==
  \/ (StackStep /\ UNCHANGED conflictVars)
  \/ ((ScanMod \/ ScanDone \/ StartPrune \/ PruneStep) /\ UNCHANGED stackVars)
  \/ (stage = "idle" /\ Restart /\ UNCHANGED stackVars)

Spec == Init /\ [][Next]_<<conflictVars, stackVars>>

-----------------------------------------------------------------------------
TypeOK ==
  /\ ConflictsTypeOK
  /\ stage \in {"idle", "mount", "chunks", "up", "cleanup", "failed", "abandoned",
                "down", "off"}
  /\ Range(handles) \subseteq Chunks /\ Range(merges) \subseteq Chunks
  /\ tempDirs \subseteq Chunks
  /\ mounted \subseteq Chunks \cup {Final} /\ stuck \subseteq mounted
  /\ view \in [Chunks \cup {Final} -> [Paths -> Mods \cup {None}]]

\* The stacked mount shows for every path what one mount of the whole list would
\* show, wherever the chunks are cut, and losers that are pruned while it is
\* being built or used do not change that.
StackShowsFlat ==
  stage = "up" => \A p \in Paths : view[Final][p] = Shown(disk, p)

\* When mount_stacked has failed to mount and when unmount is through, the only
\* mounts left are those that refused to go.
OnlyStuckRemain ==
  stage \in {"failed", "off"} => mounted = stuck

\* The stack accounts for every mount it made.
MountsKnown == TypeOK /\ OnlyStuckRemain
=============================================================================
