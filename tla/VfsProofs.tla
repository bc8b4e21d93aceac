------------------------------ MODULE VfsProofs ------------------------------
(***************************************************************************)
(* Proofs about the overlay over Data, for any mods, files and bound on    *)
(* the mounts, on each kind of machine.                                    *)
(*                                                                         *)
(* The machine's backend never changes, so the invariant has a part for    *)
(* each: what the kernel's mounts are (KernelInv), what a fuse child of    *)
(* the handler may have mounted (FuseInv), and how far a symlink farm has  *)
(* got (FarmInv).                                                          *)
(***************************************************************************)
EXTENDS Vfs, FiniteSetTheorems, SequenceTheorems, NaturalsInduction,
        WellFoundedInduction, TLAPS

\* Where the handler may be while the window holds a handle.
Resting == {"launch", "idle"}

\* While the handler works it has the handle's lists in its own hands.
HandlerInv ==
  /\ handle # None => job.at \in Resting
  /\ job.at \in {"stale", "mount", "verify", "link"} => job.lower # << >>
  /\ job.at \in {"verify", "wait"} => kind = "fuse"
  /\ job.at = "link" => kind = "symlink"

\* The kernel unmounts when asked: nothing is over Data when it mounts, if the
\* mount over it is found.  The handle's mount is the one on top.
KernelInv ==
  kind = "kernel" =>
    /\ child = None /\ late = {}
    /\ ~ Escaped => Len(mounts) <= 1 /\ (job.at = "mount" => mounts = << >>)
    /\ handle # None => mounts # << >> /\ Last(mounts).lower = handle.lower

\* A mount of the handler's own child is a mount of the list it asked for; it
\* has none when it starts anew.
FuseInv ==
  kind = "fuse" =>
    /\ handle # None =>
         /\ mounts # << >> /\ child \in {None, handle.lower}
         /\ \A i \in DOMAIN mounts : mounts[i].own => mounts[i].lower = handle.lower
    /\ job.at = "verify" =>
         /\ child \in {None, job.lower}
         /\ \A i \in DOMAIN mounts : mounts[i].own => mounts[i].lower = job.lower
    /\ handle = None /\ job.at \notin {"unmount", "wait", "verify"} =>
         child = None /\ \A i \in DOMAIN mounts : ~ mounts[i].own

\* The directory at i has been linked at p: the farm goes from the last to the
\* first, and is at the last of todo.
IsLinked(i, p) ==
  /\ i \in DOMAIN job.lower /\ p \in FilesOf[job.lower[i]]
  /\ \/ i > Len(job.todo)
     \/ i = Len(job.todo) /\ p \notin job.files

\* Nothing is mounted; a path shows the first directory linked there so far.
FarmInv ==
  kind = "symlink" =>
    /\ mounts = << >> /\ child = None /\ late = {}
    /\ job.at = "link" =>
         /\ Len(job.todo) \in 1 .. Len(job.lower)
         /\ \A i \in DOMAIN job.todo : job.todo[i] = job.lower[i]
         /\ job.files \subseteq FilesOf[Last(job.todo)]
         /\ \A i \in DOMAIN job.lower, p \in Paths :
              IsLinked(i, p) =>
                /\ p \in job.links
                /\ (\A k \in 1 .. i - 1 : ~ IsLinked(k, p)) => entry[p] = job.lower[i]
    /\ handle # None =>
         \A p \in Provided(handle.lower) :
           p \in handle.links /\ entry[p] = Winner(handle.lower, p)

VInv == TypeOK /\ HandlerInv /\ KernelInv /\ FuseInv /\ FarmInv

(***************************************************************************)
(* Lists of mods and stacks of mounts.                                     *)
(***************************************************************************)

Mount == [lower : Lists, own : BOOLEAN]

Handler == [at    : {"idle", "unmount", "wait", "params", "stale", "mount",
                     "verify", "link", "launch"},
            next  : {"idle", "params", "launch"},
            lower : Lists,
            todo  : Lists,
            files : SUBSET Paths,
            links : SUBSET Paths]

Handles == [lower : Lists, links : SUBSET Paths]

LEMMA Types ==
  TypeOK <=>
    /\ kind \in Kinds
    /\ listed \in Lists
    /\ entry \in [Paths -> Mods \cup {"game", None}]
    /\ mounts \in Seq(Mount) /\ Len(mounts) <= MaxMounts
    /\ child \in Lists \cup {None} /\ late \subseteq Lists
    /\ handle \in Handles \cup {None}
    /\ job \in Handler
BY DEF TypeOK, Mount, Handler, Handles

LEMMA TypesNext ==
  TypeOK' <=>
    /\ kind' \in Kinds
    /\ listed' \in Lists
    /\ entry' \in [Paths -> Mods \cup {"game", None}]
    /\ mounts' \in Seq(Mount) /\ Len(mounts') <= MaxMounts
    /\ child' \in Lists \cup {None} /\ late' \subseteq Lists
    /\ handle' \in Handles \cup {None}
    /\ job' \in Handler
BY DEF TypeOK, Mount, Handler, Handles

LEMMA ListIs ==
  ASSUME NEW s \in Lists
  PROVE  /\ s \in Seq(Mods) /\ Len(s) \in Nat /\ DOMAIN s = 1 .. Len(s)
         /\ Len(s) <= Cardinality(Mods)
         /\ \A i \in 1 .. Len(s) : s[i] \in Mods
         /\ IsInjective(s)
<1>1. PICK n \in 0 .. Cardinality(Mods) : s \in [1 .. n -> Mods] /\ IsInjective(s)
  BY DEF Lists
<1>2. n \in Nat
  BY <1>1
<1>3. s \in Seq(Mods) /\ Len(s) = n
  BY <1>1, <1>2
<1>4. QED
  BY <1>1, <1>2, <1>3

LEMMA IsList ==
  ASSUME NEW n \in Nat, n <= Cardinality(Mods), NEW s \in [1 .. n -> Mods], IsInjective(s)
  PROVE  s \in Lists
<1>1. Cardinality(Mods) \in Nat
  BY FS_CardinalityType, VfsAssumption
<1>2. n \in 0 .. Cardinality(Mods)
  BY <1>1
<1>3. QED
  BY <1>2 DEF Lists

LEMMA EmptyIsList == << >> \in Lists
<1>1. Cardinality(Mods) \in Nat
  BY FS_CardinalityType, VfsAssumption
<1>2. << >> \in [1 .. 0 -> Mods] /\ IsInjective(<< >>)
  BY DEF IsInjective
<1>3. 0 \in 0 .. Cardinality(Mods)
  BY <1>1
<1>4. QED
  BY <1>2, <1>3 DEF Lists

\* Front and Last of a sequence that is not empty.
LEMMA FrontLast ==
  ASSUME NEW S, NEW s \in Seq(S), s # << >>
  PROVE  /\ Len(s) \in Nat \ {0} /\ DOMAIN s = 1 .. Len(s)
         /\ Front(s) \in Seq(S) /\ Len(Front(s)) = Len(s) - 1
         /\ DOMAIN Front(s) = 1 .. (Len(s) - 1)
         /\ \A i \in 1 .. (Len(s) - 1) : Front(s)[i] = s[i]
         /\ Last(s) = s[Len(s)] /\ Last(s) \in S
<1>1. Len(s) \in Nat \ {0} /\ DOMAIN s = 1 .. Len(s)
  BY EmptySeq
<1>2. Front(s) = SubSeq(s, 1, Len(s) - 1)
  BY DEF Front
<1>3. /\ Front(s) \in Seq(S) /\ Len(Front(s)) = Len(s) - 1
      /\ \A i \in 1 .. (Len(s) - 1) : Front(s)[i] = s[i]
  BY <1>1, <1>2, SubSeqProperties
<1>4. DOMAIN Front(s) = 1 .. (Len(s) - 1)
  BY <1>3
<1>5. Last(s) = s[Len(s)] /\ Last(s) \in S
  BY <1>1 DEF Last
<1>6. QED
  BY <1>1, <1>3, <1>4, <1>5

LEMMA FrontIsList ==
  ASSUME NEW s \in Lists, s # << >>
  PROVE  Front(s) \in Lists
<1>1. /\ s \in Seq(Mods) /\ Len(s) <= Cardinality(Mods) /\ IsInjective(s)
  BY ListIs
<1>2. /\ Len(s) \in Nat \ {0} /\ DOMAIN s = 1 .. Len(s)
      /\ Front(s) \in Seq(Mods) /\ Len(Front(s)) = Len(s) - 1
      /\ DOMAIN Front(s) = 1 .. (Len(s) - 1)
      /\ \A i \in 1 .. (Len(s) - 1) : Front(s)[i] = s[i]
  BY <1>1, FrontLast
<1>3. IsInjective(Front(s))
  BY <1>1, <1>2 DEF IsInjective
<1>4. Cardinality(Mods) \in Nat
  BY FS_CardinalityType, VfsAssumption
<1>5. Front(s) \in [1 .. (Len(s) - 1) -> Mods] /\ Len(s) - 1 \in Nat
      /\ Len(s) - 1 <= Cardinality(Mods)
  BY <1>1, <1>2, <1>4
<1>6. QED
  BY <1>3, <1>5, IsList

\* Abandoned mounts are the same mounts, owned by nobody.
LEMMA AbandonIs ==
  ASSUME mounts \in Seq(Mount), child \in Lists \cup {None}, late \subseteq Lists, Abandon
  PROVE  /\ mounts' \in Seq(Mount) /\ Len(mounts') = Len(mounts)
         /\ DOMAIN mounts' = DOMAIN mounts
         /\ \A i \in DOMAIN mounts : /\ mounts'[i].lower = mounts[i].lower
                                     /\ ~ mounts'[i].own
         /\ child' = None /\ late' \subseteq Lists
         /\ child = None => late' = late
<1>1. /\ mounts' = [i \in DOMAIN mounts |-> [mounts[i] EXCEPT !.own = FALSE]]
      /\ child' = None
      /\ late' = IF child = None THEN late ELSE late \cup {child}
  BY DEF Abandon
<1>2. DOMAIN mounts = 1 .. Len(mounts) /\ Len(mounts) \in Nat
  OBVIOUS
<1>3. \A i \in DOMAIN mounts : mounts[i] \in Mount
  BY <1>2
<1>4. \A m \in Mount : /\ [m EXCEPT !.own = FALSE] \in Mount
                       /\ [m EXCEPT !.own = FALSE].lower = m.lower
                       /\ [m EXCEPT !.own = FALSE].own = FALSE
  BY DEF Mount
<1>5. mounts' \in [1 .. Len(mounts) -> Mount]
  BY <1>1, <1>2, <1>3, <1>4
<1>6. mounts' \in Seq(Mount) /\ Len(mounts') = Len(mounts)
  BY <1>2, <1>5
<1>7. \A i \in DOMAIN mounts : mounts'[i].lower = mounts[i].lower /\ ~ mounts'[i].own
  BY <1>1, <1>3, <1>4
<1>8. QED
  BY <1>1, <1>2, <1>5, <1>6, <1>7

(***************************************************************************)
(* The record of the handler.                                              *)
(***************************************************************************)

LEMMA HandlerGoes ==
  ASSUME job \in Handler, NEW from,
         NEW to \in {"idle", "unmount", "wait", "params", "stale", "mount",
                    "verify", "link", "launch"},
         Goes(from, to)
  PROVE  /\ job.at = from /\ job' \in Handler /\ job'.at = to
         /\ job'.next = job.next /\ job'.lower = job.lower /\ job'.todo = job.todo
         /\ job'.files = job.files /\ job'.links = job.links
<1>1. job.at = from /\ job' = [job EXCEPT !.at = to]
  BY DEF Goes
<1>2. [job EXCEPT !.at = to] \in Handler
  BY DEF Handler
<1>3. QED
  BY <1>1, <1>2 DEF Handler

LEMMA RestIs ==
  /\ Rest \in Handler
  /\ Rest.at = "idle" /\ Rest.lower = << >> /\ Rest.todo = << >> /\ Rest.links = {}
BY EmptyIsList DEF Rest, Handler

(***************************************************************************)
(* Types.                                                                  *)
(***************************************************************************)

LEMMA StepKeepsTypes ==
  ASSUME TypeOK, HandlerInv, FarmInv, Next
  PROVE  TypeOK'
<1>1. /\ kind \in Kinds /\ listed \in Lists
      /\ entry \in [Paths -> Mods \cup {"game", None}]
      /\ mounts \in Seq(Mount) /\ Len(mounts) <= MaxMounts
      /\ child \in Lists \cup {None} /\ late \subseteq Lists
      /\ handle \in Handles \cup {None}
      /\ job \in Handler
  BY Types
<1>2. /\ job.at \in {"idle", "unmount", "wait", "params", "stale", "mount",
                     "verify", "link", "launch"}
      /\ job.next \in {"idle", "params", "launch"}
      /\ job.lower \in Lists /\ job.todo \in Lists
      /\ job.files \subseteq Paths /\ job.links \subseteq Paths
  BY <1>1 DEF Handler
<1>3. mounts # << >> => Front(mounts) \in Seq(Mount) /\ Len(Front(mounts)) <= MaxMounts
  BY <1>1, FrontLast, VfsAssumption
<1>4. \A m \in Lists, b \in BOOLEAN : Len(mounts) < MaxMounts =>
        /\ Append(mounts, [lower |-> m, own |-> b]) \in Seq(Mount)
        /\ Len(Append(mounts, [lower |-> m, own |-> b])) <= MaxMounts
  <2> TAKE m \in Lists, b \in BOOLEAN
  <2>1. [lower |-> m, own |-> b] \in Mount
    BY DEF Mount
  <2>2. QED
    BY <1>1, <2>1, VfsAssumption
<1>5. \A m \in Mods : FilesOf[m] \subseteq Paths
  BY VfsAssumption
<1>6. CASE Click
  <2>1. job' \in Handler
    <3>1. [Rest EXCEPT !.at = "params"] \in Handler
      BY RestIs DEF Handler
    <3>2. handle # None => [Rest EXCEPT !.at = "unmount", !.next = "params",
                                        !.links = handle.links] \in Handler
      BY <1>1, RestIs DEF Handler, Handles
    <3>3. QED
      BY <1>6, <3>1, <3>2 DEF Click
  <2>2. QED
    BY <1>1, <1>6, <2>1, TypesNext DEF Click, diskVars
<1>7. CASE Unlink \/ UnlinkFails
  <2>1. PICK p \in job.links : job' = [job EXCEPT !.links = @ \ {p}]
    BY <1>7 DEF Unlink, UnlinkFails
  <2>2. job' \in Handler
    BY <1>1, <2>1 DEF Handler
  <2>3. entry' \in [Paths -> Mods \cup {"game", None}]
    BY <1>1, <1>2, <1>7 DEF Unlink, UnlinkFails, diskVars
  <2>4. QED
    BY <1>1, <1>7, <2>2, <2>3, TypesNext DEF Unlink, UnlinkFails, diskVars
<1>8. CASE Unlinked \/ Wait \/ MountRefused
  <2>1. job' \in Handler
    BY <1>1, <1>2, <1>8, HandlerGoes DEF Unlinked, Wait, MountRefused
  <2>2. QED
    BY <1>1, <1>8, <2>1, TypesNext DEF Unlinked, Wait, MountRefused, diskVars
<1>9. CASE Unmount
  <2>1. job' \in Handler
    BY <1>1, <1>2, <1>9, HandlerGoes DEF Unmount
  <2>2. QED
    BY <1>1, <1>3, <1>9, <2>1, TypesNext DEF Unmount
<1>10. CASE UnmountFails
  <2>1. job' \in Handler
    BY <1>1, <1>2, <1>10, HandlerGoes DEF UnmountFails
  <2>2. QED
    BY <1>1, <1>10, <2>1, AbandonIs, TypesNext DEF UnmountFails
<1>11. CASE ReadParams
  <2>1. job' \in Handler
    BY <1>1, <1>11 DEF ReadParams, Handler
  <2>2. QED
    BY <1>1, <1>11, <2>1, TypesNext DEF ReadParams, diskVars
<1>12. CASE TeardownStale
  <2>1. job' \in Handler
    BY <1>1, <1>12, HandlerGoes DEF TeardownStale
  <2>2. mounts' \in Seq(Mount) /\ Len(mounts') <= MaxMounts
    BY <1>1, <1>3, <1>12 DEF TeardownStale, IsMounted
  <2>3. QED
    BY <1>1, <1>12, <2>1, <2>2, TypesNext DEF TeardownStale
<1>13. CASE MountKernel \/ Verified \/ Linked
  <2>1. job' \in Handler
    BY <1>1, <1>13, HandlerGoes DEF MountKernel, Verified, Linked
  <2>2. handle' \in Handles
    BY <1>2, <1>13 DEF MountKernel, Verified, Linked, Handles
  <2>3. mounts' \in Seq(Mount) /\ Len(mounts') <= MaxMounts
    BY <1>1, <1>2, <1>4, <1>13 DEF MountKernel, Verified, Linked, diskVars
  <2>4. QED
    BY <1>1, <1>13, <2>1, <2>2, <2>3, TypesNext DEF MountKernel, Verified, Linked, diskVars
<1>14. CASE SpawnFuse
  <2>1. job' \in Handler
    BY <1>1, <1>14, HandlerGoes DEF SpawnFuse
  <2>2. QED
    BY <1>1, <1>2, <1>14, <2>1, TypesNext DEF SpawnFuse
<1>15. CASE NotVerified
  <2>1. job' \in Handler
    BY <1>1, <1>15 DEF NotVerified, Handler
  <2>2. QED
    BY <1>1, <1>15, <2>1, TypesNext DEF NotVerified, diskVars
<1>16. CASE StartLinking
  <2>1. job.lower # << >>
    BY <1>16 DEF StartLinking, HandlerInv
  <2>2. FilesOf[Last(job.lower)] \subseteq Paths
    BY <1>2, <1>5, <2>1, ListIs, FrontLast
  <2>3. job' \in Handler
    BY <1>1, <1>2, <1>16, <2>2 DEF StartLinking, Handler
  <2>4. QED
    BY <1>1, <1>16, <2>3, TypesNext DEF StartLinking, diskVars
<1>17. CASE LinkFile
  <2>1. job.todo # << >>
    BY <1>1, <1>17, EmptySeq DEF LinkFile, HandlerInv, FarmInv
  <2>2. Last(job.todo) \in Mods
    BY <1>2, <2>1, ListIs, FrontLast
  <2>3. PICK p \in job.files :
          /\ entry' = [entry EXCEPT ![p] = Last(job.todo)]
          /\ job' = [job EXCEPT !.files = @ \ {p}, !.links = @ \cup {p}]
    BY <1>17 DEF LinkFile
  <2>4. job' \in Handler
    BY <1>1, <1>2, <2>3 DEF Handler
  <2>5. entry' \in [Paths -> Mods \cup {"game", None}]
    BY <1>1, <2>2, <2>3
  <2>6. QED
    BY <1>1, <1>17, <2>4, <2>5, TypesNext DEF LinkFile
<1>18. CASE LinkFails
  <2>1. job' \in Handler
    BY <1>1, <1>18, HandlerGoes DEF LinkFails
  <2>2. entry' \in [Paths -> Mods \cup {"game", None}]
    BY <1>1, <1>18 DEF LinkFails
  <2>3. QED
    BY <1>1, <1>18, <2>1, <2>2, TypesNext DEF LinkFails
<1>19. CASE NextDirectory
  <2>1. job.todo \in Seq(Mods) /\ job.todo # << >> /\ Front(job.todo) \in Lists
        /\ Front(job.todo) # << >>
    <3>1. job.todo \in Seq(Mods) /\ job.todo # << >>
      BY <1>2, <1>19, ListIs DEF NextDirectory
    <3>2. Len(Front(job.todo)) > 0
      BY <1>19, <3>1, FrontLast DEF NextDirectory
    <3>3. QED
      BY <1>2, <3>1, <3>2, FrontIsList
  <2>2. FilesOf[Last(Front(job.todo))] \subseteq Paths
    BY <1>5, <2>1, ListIs, FrontLast
  <2>3. job' \in Handler
    BY <1>1, <1>19, <2>1, <2>2 DEF NextDirectory, Handler
  <2>4. QED
    BY <1>1, <1>19, <2>3, TypesNext DEF NextDirectory, diskVars
<1>20. CASE Launch
  BY <1>1, <1>20, RestIs, TypesNext DEF Launch, diskVars
<1>21. CASE ChangeList
  BY <1>1, <1>21, TypesNext DEF ChangeList, diskVars
<1>22. CASE Quit
  BY <1>1, <1>22, AbandonIs, RestIs, TypesNext DEF Quit
<1>23. CASE ChildMounts \/ ChildMountsLate
  <2>1. \E m \in Lists, b \in BOOLEAN : /\ mounts' = Append(mounts, [lower |-> m, own |-> b])
                                      /\ Len(mounts) < MaxMounts
    BY <1>1, <1>23 DEF ChildMounts, ChildMountsLate
  <2>2. mounts' \in Seq(Mount) /\ Len(mounts') <= MaxMounts
    BY <1>4, <2>1
  <2>3. QED
    BY <1>1, <1>23, <2>2, TypesNext DEF ChildMounts, ChildMountsLate
<1>24. CASE ChildEnds
  BY <1>1, <1>24, TypesNext DEF ChildEnds
<1>25. QED
  BY <1>6, <1>7, <1>8, <1>9, <1>10, <1>11, <1>12, <1>13, <1>14, <1>15, <1>16, <1>17, <1>18,
     <1>19, <1>20, <1>21, <1>22, <1>23, <1>24 DEF Next, HandlerStep

(***************************************************************************)
(* The handler.                                                            *)
(***************************************************************************)

LEMMA StepKeepsHandler ==
  ASSUME TypeOK, HandlerInv, Next
  PROVE  HandlerInv'
<1> USE DEF HandlerInv, Resting
<1>1. job \in Handler /\ handle \in Handles \cup {None} /\ job.next \in {"idle", "params", "launch"}
  BY Types DEF Handler
<1>2. CASE Click
  BY <1>2 DEF Click, Rest, diskVars
<1>3. CASE Unlink \/ UnlinkFails
  BY <1>1, <1>3 DEF Unlink, UnlinkFails, Handler, diskVars
<1>4. CASE Unlinked \/ Unmount \/ Wait \/ UnmountFails
  <2>1. /\ job'.at \in {"wait"} \cup {job.next} /\ job.at \in {"unmount", "wait"}
        /\ job'.at = "wait" => kind = "fuse"
        /\ handle' = handle /\ kind' = kind
    BY <1>1, <1>4, HandlerGoes DEF Unlinked, Unmount, Wait, UnmountFails, diskVars
  <2>2. handle = None
    BY <2>1
  <2>3. job'.at \in {"idle", "wait", "params", "launch"}
    BY <1>1, <2>1
  <2>4. QED
    BY <2>1, <2>2, <2>3
<1>5. CASE ReadParams
  BY <1>1, <1>5 DEF ReadParams, Handler, diskVars
<1>6. CASE TeardownStale \/ MountRefused
  BY <1>1, <1>6, HandlerGoes DEF TeardownStale, MountRefused, diskVars
<1>7. CASE MountKernel \/ SpawnFuse \/ Verified \/ Linked
  BY <1>1, <1>7, HandlerGoes DEF MountKernel, SpawnFuse, Verified, Linked, diskVars
<1>8. CASE NotVerified
  BY <1>1, <1>8 DEF NotVerified, Handler, diskVars
<1>9. CASE StartLinking \/ LinkFile \/ NextDirectory
  BY <1>1, <1>9 DEF StartLinking, LinkFile, NextDirectory, Handler, diskVars
<1>10. CASE LinkFails
  BY <1>1, <1>10, HandlerGoes DEF LinkFails, diskVars
<1>11. CASE Launch \/ Quit
  BY <1>1, <1>11, RestIs DEF Launch, Quit, diskVars
<1>12. CASE ChangeList \/ ChildMounts \/ ChildEnds \/ ChildMountsLate
  BY <1>12 DEF ChangeList, ChildMounts, ChildEnds, ChildMountsLate, diskVars
<1>13. QED
  BY <1>2, <1>3, <1>4, <1>5, <1>6, <1>7, <1>8, <1>9, <1>10, <1>11, <1>12 DEF Next, HandlerStep

(***************************************************************************)
(* Each kind of machine.                                                   *)
(***************************************************************************)

LEMMA KindStays == Next => kind' = kind
BY DEF Next, HandlerStep, Click, Unlink, UnlinkFails, Unlinked, Unmount, Wait, UnmountFails,
       ReadParams, TeardownStale, MountRefused, MountKernel, SpawnFuse, Verified, NotVerified,
       StartLinking, LinkFile, LinkFails, NextDirectory, Linked, Launch, ChangeList, Quit,
       ChildMounts, ChildEnds, ChildMountsLate

LEMMA MountAppends ==
  ASSUME mounts \in Seq(Mount), NEW m \in Mount
  PROVE  /\ Append(mounts, m) # << >>
         /\ \A i \in DOMAIN Append(mounts, m) :
              \/ i \in DOMAIN mounts /\ Append(mounts, m)[i] = mounts[i]
              \/ Append(mounts, m)[i] = m
<1>1. /\ Append(mounts, m) \in Seq(Mount) /\ Len(Append(mounts, m)) = Len(mounts) + 1
      /\ \A i \in 1 .. Len(mounts) : Append(mounts, m)[i] = mounts[i]
      /\ Append(mounts, m)[Len(mounts) + 1] = m
      /\ Len(mounts) \in Nat /\ DOMAIN mounts = 1 .. Len(mounts)
  OBVIOUS
<1>2. DOMAIN Append(mounts, m) = 1 .. (Len(mounts) + 1)
  BY <1>1
<1>3. Append(mounts, m) # << >>
  BY <1>1, EmptySeq
<1>4. QED
  BY <1>1, <1>2, <1>3

LEMMA StepKeepsKernel ==
  ASSUME TypeOK, HandlerInv, HandlerInv', KernelInv, Next
  PROVE  KernelInv'
<1> SUFFICES ASSUME kind = "kernel"
             PROVE  KernelInv'
  BY KindStays DEF KernelInv
<1>1. /\ job \in Handler /\ mounts \in Seq(Mount) /\ Len(mounts) \in Nat
      /\ child = None /\ late = {}
      /\ ~ Escaped => Len(mounts) <= 1 /\ (job.at = "mount" => mounts = << >>)
      /\ handle # None => mounts # << >> /\ Last(mounts).lower = handle.lower
      /\ child \in Lists \cup {None} /\ late \subseteq Lists
      /\ job.next \in {"idle", "params", "launch"} /\ job.lower \in Lists
  BY Types DEF KernelInv, Handler
<1>2. mounts # << >> /\ ~ Escaped => Front(mounts) = << >>
  <2> SUFFICES ASSUME mounts # << >>, ~ Escaped
               PROVE  Front(mounts) = << >>
    OBVIOUS
  <2>1. Front(mounts) \in Seq(Mount) /\ Len(Front(mounts)) = 0
    BY <1>1, FrontLast
  <2>2. QED
    BY <2>1, EmptySeq
<1>3. CASE Click \/ ReadParams
  BY <1>1, <1>3 DEF Click, ReadParams, Rest, Handler, diskVars, KernelInv
<1>4. CASE Unlinked \/ Wait \/ MountRefused \/ Verified \/ NotVerified \/ SpawnFuse
           \/ Unlink \/ UnlinkFails \/ StartLinking \/ LinkFile \/ LinkFails
           \/ NextDirectory \/ Linked
  <2>1. MountRefused
    BY <1>4 DEF Unlinked, Wait, Verified, NotVerified, SpawnFuse, Unlink, UnlinkFails,
       StartLinking, LinkFile, LinkFails, NextDirectory, Linked, Goes, HandlerInv
  <2>2. QED
    BY <1>1, <2>1, HandlerGoes DEF MountRefused, diskVars, KernelInv, HandlerInv, Resting
<1>5. CASE Unmount \/ TeardownStale
  <2>1. (~ Escaped => mounts' = << >>) /\ child' = None /\ late' = {}
    BY <1>1, <1>2, <1>5 DEF Unmount, TeardownStale, IsMounted
  <2>2. handle' = None
    BY <1>5 DEF Unmount, TeardownStale, Goes, HandlerInv, Resting
  <2>3. QED
    BY <2>1, <2>2, EmptySeq DEF KernelInv
<1>6. CASE UnmountFails
  <2>1. mounts = << >> /\ handle' = None
    BY <1>6 DEF UnmountFails, Goes, HandlerInv, Resting
  <2>2. Len(mounts') = 0 /\ mounts' \in Seq(Mount) /\ child' = None /\ late' = {}
    BY <1>1, <1>6, <2>1, AbandonIs DEF UnmountFails
  <2>3. QED
    BY <2>1, <2>2, EmptySeq DEF KernelInv
<1>7. CASE MountKernel
  <2>. DEFINE m == [lower |-> job.lower, own |-> TRUE]
  <2>1. (~ Escaped => mounts = << >>) /\ job'.at = "launch"
    BY <1>1, <1>7, HandlerGoes DEF MountKernel
  <2>2. mounts' = Append(mounts, m) /\ handle'.lower = job.lower
        /\ child' = None /\ late' = {}
    BY <1>1, <1>7 DEF MountKernel
  <2>3. /\ m \in Mount /\ m.lower = job.lower
    BY <1>1 DEF Mount
  <2>. HIDE DEF m
  <2>4. /\ Len(mounts') = Len(mounts) + 1 /\ mounts'[Len(mounts) + 1] = m
        /\ mounts' # << >>
    BY <1>1, <2>2, <2>3, MountAppends, AppendProperties
  <2>5. Last(mounts').lower = job.lower
    BY <2>3, <2>4 DEF Last
  <2>6. ~ Escaped => Len(mounts') <= 1
    BY <1>1, <2>1, <2>4
  <2>7. QED
    BY <2>1, <2>2, <2>4, <2>5, <2>6 DEF KernelInv
<1>8. CASE Launch \/ ChangeList \/ ChildMounts \/ ChildEnds \/ ChildMountsLate
  BY <1>1, <1>8, RestIs DEF Launch, ChangeList, ChildMounts, ChildEnds, ChildMountsLate,
     diskVars, KernelInv
<1>9. CASE Quit
  <2>1. Len(mounts') = Len(mounts) /\ child' = None /\ late' = {}
    BY <1>1, <1>9, AbandonIs DEF Quit
  <2>2. handle' = None /\ job'.at = "idle"
    BY <1>9, RestIs DEF Quit
  <2>3. QED
    BY <1>1, <2>1, <2>2 DEF KernelInv
<1>10. QED
  BY <1>3, <1>4, <1>5, <1>6, <1>7, <1>8, <1>9 DEF Next, HandlerStep

LEMMA StepKeepsFuse ==
  ASSUME TypeOK, HandlerInv, HandlerInv', FuseInv, Next
  PROVE  FuseInv'
<1> SUFFICES ASSUME kind = "fuse"
             PROVE  FuseInv'
  BY KindStays DEF FuseInv
<1>1. /\ job \in Handler /\ mounts \in Seq(Mount)
      /\ child \in Lists \cup {None} /\ late \subseteq Lists
      /\ job.next \in {"idle", "params", "launch"} /\ job.lower \in Lists
  BY Types DEF Handler
<1>2. /\ handle # None =>
           /\ mounts # << >> /\ child \in {None, handle.lower}
           /\ \A i \in DOMAIN mounts : mounts[i].own => mounts[i].lower = handle.lower
      /\ job.at = "verify" =>
           /\ child \in {None, job.lower}
           /\ \A i \in DOMAIN mounts : mounts[i].own => mounts[i].lower = job.lower
      /\ handle = None /\ job.at \notin {"unmount", "wait", "verify"} =>
           child = None /\ \A i \in DOMAIN mounts : ~ mounts[i].own
  BY DEF FuseInv
<1>3. handle # None => job.at \in {"launch", "idle"}
  BY DEF HandlerInv, Resting
<1>4. CASE Click
  <2>1. CASE handle = None
    <3>1. job.at = "idle" /\ job'.at = "params" /\ handle' = None
          /\ mounts' = mounts /\ child' = child
      BY <1>4, <2>1 DEF Click, Rest, diskVars
    <3>2. QED
      BY <1>2, <2>1, <3>1 DEF FuseInv
  <2>2. CASE handle # None
    <3>1. job'.at = "unmount" /\ handle' = None
      BY <1>4, <2>2 DEF Click, Rest
    <3>2. QED
      BY <3>1 DEF FuseInv
  <2>3. QED
    BY <2>1, <2>2
<1>5. CASE Unmount \/ NotVerified
  <2>1. CASE Unmount
    <3>1. Goes("unmount", "wait")
      BY <2>1 DEF Unmount
    <3>2. job.at = "unmount" /\ job'.at = "wait" /\ handle' = handle
      BY <1>1, <2>1, <3>1, HandlerGoes DEF Unmount
    <3>3. QED
      BY <1>3, <3>2 DEF FuseInv
  <2>2. CASE NotVerified
    <3>1. job.at = "verify" /\ job'.at = "unmount" /\ handle' = handle
      BY <1>1, <2>2 DEF NotVerified, Handler
    <3>2. QED
      BY <1>3, <3>1 DEF FuseInv
  <2>3. QED
    BY <1>5, <2>1, <2>2
<1>6. CASE Wait \/ UnmountFails
  <2>1. child' = None /\ \A i \in DOMAIN mounts' : ~ mounts'[i].own
    BY <1>1, <1>6, AbandonIs DEF Wait, UnmountFails, diskVars
  <2>2. job'.at # "verify" /\ handle' = None
    BY <1>1, <1>3, <1>6, HandlerGoes DEF Wait, UnmountFails
  <2>3. QED
    BY <2>1, <2>2 DEF FuseInv
<1>7. CASE ReadParams \/ MountRefused
  <2>1. job.at \in {"params", "mount"} /\ job'.at \in {"launch", "stale"}
        /\ handle' = handle /\ mounts' = mounts /\ child' = child
    BY <1>1, <1>7, HandlerGoes DEF ReadParams, MountRefused, diskVars, Handler
  <2>2. QED
    BY <1>2, <1>3, <2>1 DEF FuseInv
<1>8. CASE TeardownStale
  <2>1. job.at = "stale" /\ job'.at = "mount" /\ handle' = None /\ child' = child
    BY <1>1, <1>3, <1>8, HandlerGoes DEF TeardownStale
  <2>2. child' = None /\ \A i \in DOMAIN mounts : ~ mounts[i].own
    BY <1>2, <1>3, <2>1
  <2>3. \A i \in DOMAIN mounts' : ~ mounts'[i].own
    <3>1. CASE mounts' = mounts
      BY <2>2, <3>1
    <3>2. CASE mounts # << >> /\ mounts' = Front(mounts)
      BY <1>1, <2>2, <3>2, FrontLast
    <3>3. QED
      BY <1>8, <3>1, <3>2 DEF TeardownStale, IsMounted
  <2>4. QED
    BY <2>1, <2>2, <2>3 DEF FuseInv
<1>9. CASE SpawnFuse
  <2>1. job.at = "mount" /\ job'.at = "verify" /\ job'.lower = job.lower
        /\ handle' = None /\ mounts' = mounts /\ child' = job.lower
    BY <1>1, <1>3, <1>9, HandlerGoes DEF SpawnFuse
  <2>2. \A i \in DOMAIN mounts : ~ mounts[i].own
    BY <1>2, <1>3, <2>1
  <2>3. QED
    BY <2>1, <2>2 DEF FuseInv
<1>10. CASE Verified
  <2>1. /\ job.at = "verify" /\ job'.at = "launch"
        /\ handle' = [lower |-> job.lower, links |-> {}]
        /\ mounts' = mounts /\ mounts # << >> /\ child' = child
    BY <1>1, <1>10, HandlerGoes DEF Verified, diskVars
  <2>2. handle'.lower = job.lower
    BY <2>1
  <2>3. /\ child \in {None, job.lower}
        /\ \A i \in DOMAIN mounts : mounts[i].own => mounts[i].lower = job.lower
    BY <1>2, <2>1
  <2>4. handle' # None
    BY <1>1, <2>1, NoneAssumption
  <2>5. QED
    BY <2>1, <2>2, <2>3, <2>4 DEF FuseInv
<1>11. CASE Launch
  BY <1>2, <1>3, <1>11, RestIs DEF Launch, FuseInv, diskVars
<1>12. CASE ChangeList
  BY <1>12 DEF ChangeList, FuseInv, diskVars
<1>13. CASE Quit
  <2>1. child' = None /\ \A i \in DOMAIN mounts' : ~ mounts'[i].own
    BY <1>1, <1>13, AbandonIs DEF Quit
  <2>2. job'.at = "idle" /\ handle' = None
    BY <1>13, RestIs DEF Quit
  <2>3. QED
    BY <2>1, <2>2 DEF FuseInv
<1>14. CASE ChildMounts
  <2> DEFINE m == [lower |-> child, own |-> TRUE]
  <2>1. /\ child # None /\ mounts' = Append(mounts, m) /\ child' = None
        /\ UNCHANGED <<handle, job>>
    BY <1>14 DEF ChildMounts
  <2>2. m \in Mount /\ m.lower = child
    BY <1>1, <2>1 DEF Mount
  <2> HIDE DEF m
  <2>3. /\ mounts' # << >>
        /\ \A i \in DOMAIN mounts' : \/ i \in DOMAIN mounts /\ mounts'[i] = mounts[i]
                                     \/ mounts'[i] = m
    BY <1>1, <2>1, <2>2, MountAppends
  <2>4. QED
    BY <1>2, <2>1, <2>2, <2>3 DEF FuseInv
<1>15. CASE ChildEnds
  BY <1>2, <1>15 DEF ChildEnds, FuseInv
<1>16. CASE ChildMountsLate
  <2>1. PICK lower \in late : mounts' = Append(mounts, [lower |-> lower, own |-> FALSE])
    BY <1>16 DEF ChildMountsLate
  <2> DEFINE m == [lower |-> lower, own |-> FALSE]
  <2>2. m \in Mount /\ m.own = FALSE
    BY <1>1, <2>1 DEF Mount
  <2>3. mounts' = Append(mounts, m)
    BY <2>1
  <2> HIDE DEF m
  <2>4. /\ mounts' # << >>
        /\ \A i \in DOMAIN mounts' : \/ i \in DOMAIN mounts /\ mounts'[i] = mounts[i]
                                     \/ mounts'[i] = m
    BY <1>1, <2>2, <2>3, MountAppends
  <2>5. UNCHANGED <<child, handle, job>>
    BY <1>16 DEF ChildMountsLate
  <2>6. QED
    BY <1>2, <2>2, <2>4, <2>5 DEF FuseInv
<1>17. CASE \/ Unlink \/ UnlinkFails \/ Unlinked \/ MountKernel
            \/ StartLinking \/ LinkFile \/ LinkFails \/ NextDirectory \/ Linked
  BY <1>17 DEF Unlink, UnlinkFails, Unlinked, MountKernel, StartLinking, LinkFile, LinkFails,
     NextDirectory, Linked, HandlerInv, Goes
<1>18. QED
  BY <1>4, <1>5, <1>6, <1>7, <1>8, <1>9, <1>10, <1>11, <1>12, <1>13, <1>14, <1>15, <1>16, <1>17
     DEF Next, HandlerStep

(***************************************************************************)
(* Winners, and the farm.                                                  *)
(***************************************************************************)

\* The first directory of a list that has the file.
First(lower, p, i) ==
  /\ i \in DOMAIN lower /\ p \in FilesOf[lower[i]]
  /\ \A k \in 1 .. i - 1 : p \notin FilesOf[lower[k]]

LEMMA FirstExists ==
  ASSUME NEW lower \in Lists, NEW p \in Provided(lower)
  PROVE  \E i \in DOMAIN lower : First(lower, p, i)
<1> DEFINE K == {i \in DOMAIN lower : p \in FilesOf[lower[i]]}
<1>1. DOMAIN lower = 1 .. Len(lower) /\ Len(lower) \in Nat
  BY ListIs
<1>2. K \subseteq Nat /\ K # {}
  BY <1>1 DEF Provided
<1>3. PICK i \in K : \A k \in K : ~ (<<k, i>> \in OpToRel(<, Nat))
  BY <1>2, NatLessThanWellFounded, WFMin
<1>4. \A k \in 1 .. i - 1 : k \notin K
  <2> SUFFICES ASSUME NEW k \in 1 .. i - 1, k \in K
               PROVE  FALSE
    OBVIOUS
  <2>1. k \in Nat /\ i \in Nat
    BY <1>2
  <2>2. k < i
    BY <2>1
  <2>3. QED
    BY <1>3, <2>1, <2>2 DEF OpToRel
<1>5. \A k \in 1 .. i - 1 : k \in DOMAIN lower
  BY <1>1
<1>6. QED
  BY <1>4, <1>5 DEF First

LEMMA WinnerIsFirst ==
  ASSUME NEW lower \in Lists, NEW p, NEW i, First(lower, p, i)
  PROVE  Winner(lower, p) = lower[i]
<1>1. DOMAIN lower = 1 .. Len(lower) /\ Len(lower) \in Nat
  BY ListIs
<1>2. \A k \in DOMAIN lower :
        p \in FilesOf[lower[k]] /\ (\A h \in 1 .. k - 1 : p \notin FilesOf[lower[h]]) => k = i
  BY <1>1 DEF First
<1>3. QED
  BY <1>2 DEF Winner, First

\* How far the farm is, with the list and the place it is at given names.
LEMMA LinkedIs ==
  ASSUME NEW i, NEW p
  PROVE  /\ IsLinked(i, p) <=>
              /\ i \in DOMAIN job.lower /\ p \in FilesOf[job.lower[i]]
              /\ \/ i > Len(job.todo)
                 \/ i = Len(job.todo) /\ p \notin job.files
         /\ IsLinked(i, p)' <=>
              /\ i \in DOMAIN job'.lower /\ p \in FilesOf[job'.lower[i]]
              /\ \/ i > Len(job'.todo)
                 \/ i = Len(job'.todo) /\ p \notin job'.files
BY DEF IsLinked

\* The part of FarmInv about the work under way.
Linking ==
  job.at = "link" =>
    /\ Len(job.todo) \in 1 .. Len(job.lower)
    /\ \A i \in DOMAIN job.todo : job.todo[i] = job.lower[i]
    /\ job.files \subseteq FilesOf[Last(job.todo)]
    /\ \A i \in DOMAIN job.lower, p \in Paths :
         IsLinked(i, p) =>
           /\ p \in job.links
           /\ (\A k \in 1 .. i - 1 : ~ IsLinked(k, p)) => entry[p] = job.lower[i]

LEMMA StartKeepsLinking ==
  ASSUME TypeOK, HandlerInv, StartLinking
  PROVE  Linking'
<1>1. /\ job \in Handler /\ job.lower \in Lists /\ job.lower # << >>
  BY Types DEF Handler, HandlerInv, StartLinking
<1>2. /\ job'.lower = job.lower /\ job'.todo = job.lower
      /\ job'.files = FilesOf[Last(job.lower)]
  BY <1>1 DEF StartLinking, Handler
<1>3. /\ Len(job.lower) \in Nat \ {0} /\ DOMAIN job.lower = 1 .. Len(job.lower)
      /\ Last(job.lower) = job.lower[Len(job.lower)]
  BY <1>1, ListIs, FrontLast
<1>4. \A i, p : ~ IsLinked(i, p)'
  BY <1>2, <1>3, LinkedIs
<1>5. QED
  BY <1>2, <1>3, <1>4 DEF Linking

LEMMA LinkKeepsLinking ==
  ASSUME TypeOK, HandlerInv, Linking, LinkFile
  PROVE  Linking'
<1>0. PICK n : n = Len(job.todo)
  OBVIOUS
<1>1. PICK p \in job.files :
        /\ entry' = [entry EXCEPT ![p] = Last(job.todo)]
        /\ job' = [job EXCEPT !.files = @ \ {p}, !.links = @ \cup {p}]
  BY DEF LinkFile
<1>2. /\ job \in Handler /\ job.lower \in Lists /\ job.todo \in Lists
      /\ job.files \subseteq Paths
      /\ entry \in [Paths -> Mods \cup {"game", None}]
  BY <1>0, Types DEF Handler
<1>3. /\ job'.lower = job.lower /\ job'.todo = job.todo /\ job.at = "link"
      /\ job'.files = job.files \ {p} /\ job'.links = job.links \cup {p}
  BY <1>0, <1>1, <1>2 DEF LinkFile, Handler
<1>4. /\ n \in 1 .. Len(job.lower)
      /\ \A i \in DOMAIN job.todo : job.todo[i] = job.lower[i]
      /\ job.files \subseteq FilesOf[Last(job.todo)]
      /\ \A i \in DOMAIN job.lower, q \in Paths :
           IsLinked(i, q) =>
             /\ q \in job.links
             /\ (\A k \in 1 .. i - 1 : ~ IsLinked(k, q)) => entry[q] = job.lower[i]
  BY <1>0, <1>3 DEF Linking
<1>5. /\ Len(job.lower) \in Nat /\ DOMAIN job.lower = 1 .. Len(job.lower)
      /\ n \in Nat /\ DOMAIN job.todo = 1 .. n
  BY <1>0, <1>2, ListIs
<1>6. Last(job.todo) = job.lower[n]
  BY <1>0, <1>4, <1>5 DEF Last
<1>7. \A i, q : IsLinked(i, q)' <=> IsLinked(i, q) \/ (i = n /\ q = p)
  BY <1>0, <1>1, <1>3, <1>4, <1>5, <1>6, LinkedIs
<1>8. \A i, q : IsLinked(i, q)' => i \in DOMAIN job.lower /\ i >= n
  BY <1>0, <1>3, <1>5, LinkedIs
<1>9. ASSUME NEW i \in DOMAIN job.lower, NEW q \in Paths, IsLinked(i, q)'
      PROVE  /\ q \in job'.links
             /\ (\A k \in 1 .. i - 1 : ~ IsLinked(k, q)') => entry'[q] = job.lower[i]
  <2>1. CASE q = p
    <3>1. q \in job'.links
      BY <1>0, <1>3, <2>1
    <3>2. IsLinked(n, q)' /\ n \in Nat /\ i \in Nat /\ n >= 1 /\ i >= n
      BY <1>0, <1>4, <1>5, <1>7, <1>8, <1>9, <2>1
    <3>3. (\A k \in 1 .. i - 1 : ~ IsLinked(k, q)') => i = n
      BY <1>0, <3>2
    <3>4. entry'[q] = job.lower[n]
      BY <1>0, <1>1, <1>2, <1>6, <2>1
    <3>5. QED
      BY <1>0, <3>1, <3>3, <3>4
  <2>2. CASE q # p
    BY <1>0, <1>1, <1>2, <1>3, <1>4, <1>7, <1>9, <2>2
  <2>3. QED
    BY <1>0, <2>1, <2>2
<1>10. QED
  BY <1>0, <1>3, <1>4, <1>9 DEF Linking

LEMMA NextKeepsLinking ==
  ASSUME TypeOK, HandlerInv, Linking, NextDirectory
  PROVE  Linking'
<1>0. PICK n : n = Len(job.todo)
  OBVIOUS
<1>1. /\ job \in Handler /\ job.lower \in Lists /\ job.todo \in Lists
  BY <1>0, Types DEF Handler
<1>2. /\ job'.lower = job.lower /\ job'.todo = Front(job.todo) /\ job.at = "link"
      /\ job'.files = FilesOf[Last(Front(job.todo))] /\ job'.links = job.links
      /\ job.files = {} /\ n > 1 /\ UNCHANGED entry
  BY <1>0, <1>1 DEF NextDirectory, Handler, diskVars
<1>3. /\ n \in 1 .. Len(job.lower)
      /\ \A i \in DOMAIN job.todo : job.todo[i] = job.lower[i]
      /\ \A i \in DOMAIN job.lower, q \in Paths :
           IsLinked(i, q) =>
             /\ q \in job.links
             /\ (\A k \in 1 .. i - 1 : ~ IsLinked(k, q)) => entry[q] = job.lower[i]
  BY <1>0, <1>2 DEF Linking
<1>4. /\ Len(job.lower) \in Nat /\ DOMAIN job.lower = 1 .. Len(job.lower)
      /\ n \in Nat /\ DOMAIN job.todo = 1 .. n /\ job.todo \in Seq(Mods)
  BY <1>0, <1>1, ListIs
<1>5. /\ Len(Front(job.todo)) = n - 1 /\ DOMAIN Front(job.todo) = 1 .. (n - 1)
      /\ \A i \in 1 .. (n - 1) : Front(job.todo)[i] = job.lower[i]
      /\ Front(job.todo) \in Seq(Mods)
  <2>1. job.todo # << >>
    BY <1>0, <1>2
  <2>2. /\ Len(Front(job.todo)) = n - 1 /\ DOMAIN Front(job.todo) = 1 .. (n - 1)
        /\ \A i \in 1 .. (n - 1) : Front(job.todo)[i] = job.todo[i]
        /\ Front(job.todo) \in Seq(Mods)
    BY <1>0, <1>4, <2>1, FrontLast
  <2>3. \A i \in 1 .. (n - 1) : i \in DOMAIN job.todo
    BY <1>4
  <2>4. QED
    BY <1>3, <2>2, <2>3
<1>6. Last(Front(job.todo)) = job.lower[n - 1]
  BY <1>0, <1>2, <1>4, <1>5 DEF Last
<1>7. n - 1 \in 1 .. Len(job.lower)
  BY <1>0, <1>2, <1>3, <1>4
<1>8. \A i, q : IsLinked(i, q)' <=> IsLinked(i, q)
  <2> SUFFICES ASSUME NEW i, NEW q
               PROVE  IsLinked(i, q)' <=> IsLinked(i, q)
    OBVIOUS
  <2>1. IsLinked(i, q) <=> i \in DOMAIN job.lower /\ q \in FilesOf[job.lower[i]] /\ i >= n
    BY <1>0, <1>2, <1>4, LinkedIs
  <2>2. IsLinked(i, q)' <=> /\ i \in DOMAIN job.lower /\ q \in FilesOf[job.lower[i]]
                            /\ i > n - 1 \/ (i = n - 1 /\ q \notin FilesOf[job.lower[n - 1]])
    BY <1>0, <1>2, <1>5, <1>6, LinkedIs
  <2>3. QED
    BY <1>0, <1>4, <2>1, <2>2
<1>9. QED
  BY <1>0, <1>2, <1>3, <1>5, <1>6, <1>7, <1>8 DEF Linking

\* A farm that has got through the first directory shows every winner.
LEMMA LinkedIsWhole ==
  ASSUME TypeOK, HandlerInv, Linking, Linked
  PROVE  \A p \in Provided(handle'.lower) :
           p \in handle'.links /\ entry'[p] = Winner(handle'.lower, p)
<1>1. job \in Handler /\ job.lower \in Lists
  BY Types DEF Handler
<1>2. /\ job.at = "link" /\ job.files = {} /\ Len(job.todo) = 1 /\ UNCHANGED entry
      /\ handle'.lower = job.lower /\ handle'.links = job.links
  BY DEF Linked, Goes, diskVars
<1>3. \A i \in DOMAIN job.lower, p \in Paths :
         IsLinked(i, p) =>
           /\ p \in job.links
           /\ (\A k \in 1 .. i - 1 : ~ IsLinked(k, p)) => entry[p] = job.lower[i]
  BY <1>2 DEF Linking
<1>4. DOMAIN job.lower = 1 .. Len(job.lower) /\ Len(job.lower) \in Nat
      /\ \A i \in DOMAIN job.lower : job.lower[i] \in Mods
  BY <1>1, ListIs
<1>5. \A i, p : IsLinked(i, p) <=> i \in DOMAIN job.lower /\ p \in FilesOf[job.lower[i]]
  BY <1>2, <1>4, LinkedIs
<1>6. ASSUME NEW p \in Provided(job.lower)
      PROVE  p \in job.links /\ entry[p] = Winner(job.lower, p)
  <2>1. PICK i \in DOMAIN job.lower : First(job.lower, p, i)
    BY <1>1, FirstExists
  <2>2. p \in Paths
    BY <1>4, VfsAssumption DEF Provided
  <2>3. IsLinked(i, p) /\ \A k \in 1 .. i - 1 : ~ IsLinked(k, p)
    BY <1>5, <2>1 DEF First
  <2>4. Winner(job.lower, p) = job.lower[i]
    BY <1>1, <2>1, WinnerIsFirst
  <2>5. QED
    BY <1>3, <2>2, <2>3, <2>4
<1>7. QED
  BY <1>2, <1>6

LEMMA StepKeepsFarm ==
  ASSUME TypeOK, HandlerInv, HandlerInv', FarmInv, Next
  PROVE  FarmInv'
<1> SUFFICES ASSUME kind = "symlink"
             PROVE  FarmInv'
  BY KindStays DEF FarmInv
<1>1. /\ job \in Handler /\ mounts = << >> /\ child = None /\ late = {}
      /\ mounts \in Seq(Mount)
  BY Types DEF FarmInv
<1>2. handle # None => job.at \in {"launch", "idle"}
  BY DEF HandlerInv, Resting
<1>3. Linking
  BY DEF FarmInv, Linking
<1>4. job.at \notin {"verify", "wait"}
  BY DEF HandlerInv
<1>5. mounts' = << >> /\ child' = None /\ late' = {}
  <2>1. CASE Quit
    <3>1. mounts' \in Seq(Mount) /\ Len(mounts') = 0 /\ child' = None /\ late' = {}
      BY <1>1, <2>1, AbandonIs DEF Quit
    <3>2. QED
      BY <3>1, EmptySeq
  <2>2. CASE ~ Quit
    BY <1>1, <1>4, <2>2 DEF Next, HandlerStep, Click, Unlink, UnlinkFails, Unlinked, Unmount,
       Wait, UnmountFails, ReadParams, TeardownStale, MountRefused, MountKernel, SpawnFuse,
       Verified, NotVerified, StartLinking, LinkFile, LinkFails, NextDirectory, Linked, Launch,
       ChangeList, ChildMounts, ChildEnds, ChildMountsLate, diskVars, Goes, IsMounted
  <2>3. QED
    BY <2>1, <2>2
<1>6. Linking'
  <2>1. CASE StartLinking
    BY <2>1, StartKeepsLinking
  <2>2. CASE LinkFile
    BY <1>3, <2>2, LinkKeepsLinking
  <2>3. CASE NextDirectory
    BY <1>3, <2>3, NextKeepsLinking
  <2>4. CASE ChangeList \/ ChildMounts \/ ChildEnds \/ ChildMountsLate
    <3>1. UNCHANGED <<job, entry>>
      BY <2>4 DEF ChangeList, ChildMounts, ChildEnds, ChildMountsLate, diskVars
    <3>2. QED
      BY <1>3, <3>1 DEF Linking, IsLinked
  <2>5. CASE Unlink \/ UnlinkFails \/ Click \/ Quit \/ Launch \/ ReadParams
    <3>1. job'.at # "link"
      BY <1>1, <2>5, RestIs DEF Unlink, UnlinkFails, Click, Quit, Launch, ReadParams, Rest, Handler
    <3>2. QED
      BY <3>1 DEF Linking
  <2>6. CASE Unlinked \/ TeardownStale \/ MountRefused \/ LinkFails \/ Linked
    <3>1. job.next \in {"idle", "params", "launch"}
      BY <1>1 DEF Handler
    <3>2. job'.at # "link"
      BY <1>1, <2>6, <3>1, HandlerGoes DEF Unlinked, TeardownStale, MountRefused, LinkFails, Linked
    <3>3. QED
      BY <3>2 DEF Linking
  <2>7. QED
    BY <1>1, <1>4, <2>1, <2>2, <2>3, <2>4, <2>5, <2>6 DEF Next, HandlerStep, Unmount, Wait,
       UnmountFails, MountKernel, SpawnFuse, Verified, NotVerified, Goes
<1>7. handle' # None => \A p \in Provided(handle'.lower) :
                          p \in handle'.links /\ entry'[p] = Winner(handle'.lower, p)
  <2>1. CASE Linked
    BY <1>3, <2>1, LinkedIsWhole
  <2>2. CASE ~ Linked /\ handle' # None
    <3>1. UNCHANGED handle
      BY <1>4, <2>2 DEF Next, HandlerStep, Click, Unlink, UnlinkFails, Unlinked, Unmount,
         Wait, UnmountFails, ReadParams, TeardownStale, MountRefused, MountKernel, SpawnFuse,
         Verified, NotVerified, StartLinking, LinkFile, LinkFails, NextDirectory, Launch,
         ChangeList, Quit, ChildMounts, ChildEnds, ChildMountsLate, diskVars, Goes
    <3>2. job.at \in {"launch", "idle"}
      BY <1>2, <2>2, <3>1
    <3>3. UNCHANGED entry
      BY <2>2, <3>2 DEF Next, HandlerStep, Click, Unlink, UnlinkFails, Unlinked, Unmount,
         Wait, UnmountFails, ReadParams, TeardownStale, MountRefused, MountKernel, SpawnFuse,
         Verified, NotVerified, StartLinking, LinkFile, LinkFails, NextDirectory, Launch,
         ChangeList, Quit, ChildMounts, ChildEnds, ChildMountsLate, diskVars, Goes
    <3>4. QED
      BY <2>2, <3>1, <3>3 DEF FarmInv
  <2>3. QED
    BY <2>1, <2>2
<1>8. QED
  BY <1>5, <1>6, <1>7 DEF FarmInv, Linking

(***************************************************************************)
(* The theorems.                                                           *)
(***************************************************************************)

LEMMA InitMakesInv == Init => VInv
<1> SUFFICES ASSUME Init
             PROVE  VInv
  OBVIOUS
<1>1. TypeOK
  <2>1. /\ mounts \in Seq(Mount) /\ Len(mounts) <= MaxMounts
    BY VfsAssumption DEF Init
  <2>2. QED
    BY <2>1, EmptyIsList, RestIs, Types DEF Init
<1>2. job.at = "idle" /\ handle = None /\ mounts = << >> /\ child = None /\ late = {}
  BY RestIs DEF Init
<1>3. HandlerInv
  BY <1>2 DEF HandlerInv
<1>4. KernelInv
  BY <1>2 DEF KernelInv
<1>5. FuseInv
  BY <1>2 DEF FuseInv
<1>6. FarmInv
  BY <1>2 DEF FarmInv
<1>7. QED
  BY <1>1, <1>3, <1>4, <1>5, <1>6 DEF VInv

LEMMA StepKeepsInv == VInv /\ [Next]_vars => VInv'
<1> SUFFICES ASSUME VInv, [Next]_vars
             PROVE  VInv'
  OBVIOUS
<1>1. CASE Next
  BY <1>1, StepKeepsTypes, StepKeepsHandler, StepKeepsKernel, StepKeepsFuse, StepKeepsFarm
     DEF VInv
<1>2. CASE UNCHANGED vars
  <2>1. UNCHANGED <<kind, listed, entry, mounts, child, late, handle, job>>
    BY <1>2 DEF vars, diskVars
  <2>2. TypeOK' /\ HandlerInv' /\ KernelInv' /\ FuseInv'
    BY <2>1 DEF VInv, TypeOK, HandlerInv, KernelInv, FuseInv
  <2>3. FarmInv'
    BY <2>1 DEF VInv, FarmInv, IsLinked
  <2>4. QED
    BY <2>2, <2>3 DEF VInv
<1>3. QED
  BY <1>1, <1>2

LEMMA InvShowsWinners == VInv => WinnersShown
<1> SUFFICES ASSUME VInv, handle # None, NoStrays \/ kind = "kernel",
                    NEW p \in Provided(handle.lower)
             PROVE  Sees(p) = Winner(handle.lower, p)
  BY DEF WinnersShown
<1>1. mounts \in Seq(Mount) /\ kind \in {"kernel", "fuse", "symlink"}
  BY Types, VfsAssumption DEF VInv
<1>2. CASE kind = "symlink"
  BY <1>2 DEF VInv, FarmInv, Sees
<1>3. CASE kind # "symlink"
  <2>1. mounts # << >> /\ Last(mounts).lower = handle.lower
    <3>1. CASE kind = "kernel"
      BY <3>1 DEF VInv, KernelInv
    <3>2. CASE kind = "fuse"
      <4>1. mounts # << >>
        BY <3>2 DEF VInv, FuseInv
      <4>2. Len(mounts) \in DOMAIN mounts
        BY <1>1, <4>1, FrontLast
      <4>3. QED
        BY <3>2, <4>1, <4>2 DEF VInv, FuseInv, NoStrays, Last
    <3>3. QED
      BY <1>1, <1>3, <3>1, <3>2
  <2>2. QED
    BY <2>1 DEF Sees
<1>4. QED
  BY <1>2, <1>3

LEMMA InvTracksData == VInv => DataTracked
<1> SUFFICES ASSUME VInv
             PROVE  DataTracked
  OBVIOUS
<1>1. NoStacking
  BY DEF VInv, KernelInv, NoStacking
<1>2. LinksTracked
  BY DEF VInv, FarmInv, LinksTracked
<1>3. QED
  BY <1>1, <1>2 DEF VInv, DataTracked

\* While the window holds a handle and no late fuse child lies over Data, a reader
\* of Data gets every file from the mod with the highest priority that has it,
\* on every kind of machine, after any crashes, failures and changes of the list;
\* with the kernel also over mounts teardown_stale has not found.
THEOREM WinnersAreShown == Spec => []WinnersShown
<1>1. QED
  BY InitMakesInv, StepKeepsInv, InvShowsWinners, PTL DEF Spec

\* Over a path that mountinfo shows as it is (~ Escaped) the kernel's mounts never
\* stack up; a farm knows each of its links, whatever the path is called.
THEOREM DataIsTracked == Spec => []DataTracked
<1>1. QED
  BY InitMakesInv, StepKeepsInv, InvTracksData, PTL DEF Spec
=============================================================================
