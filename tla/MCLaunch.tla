------------------------------ MODULE MCLaunch ------------------------------
(***************************************************************************)
(* A small instance of what makes a game ready to start, for TLC: the mount *)
(* of its mods, and the script extender that is installed into its Data.    *)
(* The files of the two are never the same, and an install and a mount      *)
(* share no state of the two modules: one part moves, the other stays as it *)
(* began.                                                                   *)
(***************************************************************************)
EXTENDS MCVfs, Skse

VARIABLE part

partVars == <<vars, seVars, part>>
MountPart == part = "mount" /\ UNCHANGED <<seVars, part>>
SePart == part = "se" /\ UNCHANGED <<vars, part>>

ReadyInit == part \in {"mount", "se"} /\ Init /\ SeInit
ReadyNext == (MountPart /\ Next) \/ (SePart /\ SeNext)

\* The fairness of Vfs and of Skse.
ReadySpec ==
  /\ ReadyInit /\ [][ReadyNext]_partVars
  /\ WF_partVars(MountPart /\ HandlerStep)
  /\ \A j \in Jobs : WF_partVars(SePart /\ JobStep(j)) /\ WF_partVars(SePart /\ Poll(j))
=============================================================================
