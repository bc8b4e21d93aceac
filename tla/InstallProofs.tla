--------------------------- MODULE InstallProofs ---------------------------
(***************************************************************************)
(* Proofs about what is installed and set: mods (Install), the script      *)
(* extender (Skse), and the settings with the search that uses their key   *)
(* (Settings, Search).  Of a mod: an install that no other has come near   *)
(* leaves every name in lower case and rows of exactly its files, and      *)
(* renaming costs no file.  The invariant follows one thread through its   *)
(* renames, and knows of the names still to be renamed that nothing there  *)
(* is alike to them. Of the script extender: what a message and the        *)
(* version file promise is in the game directory.  The invariant follows   *)
(* the version an install has looked up, and knows, for as long as         *)
(* installs have not overlapped, that no other one writes.  Of the         *)
(* settings: no save undoes what another one saved.                        *)
(***************************************************************************)
EXTENDS Install, Skse, Search, FiniteSetTheorems, FunctionTheorems, SequenceTheorems,
        TLAPS

(***************************************************************************)
(* Install: names, and the directories they are in.                        *)
(***************************************************************************)
\* Every name is in lower case, or left alone because of one that is alike.
Settled(S) ==
  \A n \in S : n = LowerOf[n] \/ \E m \in S \ {n} : LowerOf[m] = LowerOf[n]
SettledTree(D) ==
  Settled(Subdirs(D)) /\ \A d \in Subdirs(D) \cup {Root} : Settled(NamesIn(D, d))

\* What is still to be renamed is alike to nothing but temporary names ...
Apart(S, P) ==
  /\ \A w \in P, m \in S : LowerOf[m] = LowerOf[w] => m = w \/ IsTmp(m)
  /\ \A v, w \in P : LowerOf[v] = LowerOf[w] => v = w
  /\ \A w \in P : LowerOf[w] # w

\* ... and, without an error, to nothing at all; what is not to be is settled.
Exact(S, W, P) ==
  /\ \A w \in P, m \in S : LowerOf[m] = LowerOf[w] => m = w
  /\ \A n \in S : n = LowerOf[n] \/ n \in W \/ \E m \in S \ {n} : LowerOf[m] = LowerOf[n]

LEMMA FoldStarts ==
  ASSUME NEW S \in SUBSET Names
  PROVE  /\ Renamable(S) \in SUBSET Names
         /\ Apart(S, Renamable(S)) /\ Exact(S, Renamable(S), Renamable(S))
BY DEF Renamable, Apart, Exact

LEMMA FoldEnds ==
  ASSUME NEW S, Exact(S, {}, {}) PROVE Settled(S)
BY DEF Exact, Settled

LEMMA AwayKeepsApart ==
  ASSUME NEW S \in SUBSET Names, NEW W \in SUBSET Names, NEW n \in W, Apart(S, W),
         NEW T, T = (S \ {n}) \cup {TmpOf[n]}
  PROVE  /\ Apart(T, W)
         /\ Exact(S, W, W) /\ TmpOf[n] \notin S => Exact(T \ {TmpOf[n]}, W \ {n}, W)
<1>1. IsTmp(TmpOf[n])
  BY DEF IsTmp
<1>2. Apart(T, W)
  BY <1>1 DEF Apart
<1>3. ASSUME Exact(S, W, W), TmpOf[n] \notin S PROVE Exact(T \ {TmpOf[n]}, W \ {n}, W)
  <2>1. T \ {TmpOf[n]} = S \ {n}
    BY <1>3
  <2>2. \A m \in S \ {n} : LowerOf[m] # LowerOf[n]
    BY <1>3 DEF Exact
  <2>. QED
    BY <1>3, <2>1, <2>2 DEF Exact
<1>. QED
  BY <1>2, <1>3

LEMMA BackKeepsApart ==
  ASSUME NEW S \in SUBSET Names, NEW W \in SUBSET Names, NEW n \in Names, n \notin W,
         Apart(S, W \cup {n}), NEW T, T = (S \ {TmpOf[n]}) \cup {LowerOf[n]}
  PROVE  /\ Apart(T, W)
         /\ Exact(S \ {TmpOf[n]}, W, W \cup {n}) => Exact(T, W, W)
<1>1. LowerOf[n] \in Names /\ LowerOf[LowerOf[n]] = LowerOf[n]
  BY NamesAssumption
<1>2. \A w \in W : LowerOf[w] # LowerOf[n]
  BY DEF Apart
<1>3. Apart(T, W)
  BY <1>1, <1>2 DEF Apart
<1>4. ASSUME Exact(S \ {TmpOf[n]}, W, W \cup {n}) PROVE Exact(T, W, W)
  <2>1. \A w \in W, m \in T : LowerOf[m] = LowerOf[w] => m = w
    BY <1>1, <1>2, <1>4 DEF Exact
  <2>2. \A m \in T : m = LowerOf[m] \/ m \in W \/ \E k \in T \ {m} : LowerOf[k] = LowerOf[m]
    BY <1>1, <1>4 DEF Exact
  <2>. QED
    BY <2>1, <2>2 DEF Exact
<1>. QED
  BY <1>3, <1>4

LEMMA FewerApart ==
  ASSUME NEW S, NEW P, NEW Q \in SUBSET P, Apart(S, P)
  PROVE  Apart(S, Q)
BY DEF Apart

-----------------------------------------------------------------------------
\* Renaming a file: the directories stay, and so do the names in the others.
LEMMA FileMovedNames ==
  ASSUME NEW D \in SUBSET Files, NEW d \in Dirs, NEW a \in Names, NEW b \in Names,
         <<d, a>> \in D, NEW E, E = FileMoved(D, d, a, b)
  PROVE  /\ E \in SUBSET Files /\ Subdirs(E) = Subdirs(D)
         /\ NamesIn(E, d) = (NamesIn(D, d) \ {a}) \cup {b}
         /\ \A e : e # d => NamesIn(E, e) = NamesIn(D, e)
<1>1. \A p \in D : p \in Dirs \X Names /\ p = <<p[1], p[2]>> /\ p[1] \in Dirs /\ p[2] \in Names
  BY DEF Files
<1>2. \A p : p \in E <=> (p \in D /\ p # <<d, a>>) \/ p = <<d, b>>
  BY DEF FileMoved
<1>3. \A p \in E : p = <<p[1], p[2]>> /\ p[1] \in Dirs /\ p[2] \in Names
  BY <1>1, <1>2
<1>4. E \in SUBSET Files
  BY <1>1, <1>2 DEF Files
<1>5. {p[1] : p \in E} = {p[1] : p \in D}
  <2>1. ASSUME NEW p \in E PROVE \E q \in D : q[1] = p[1]
    <3>1. <<d, a>>[1] = d /\ <<d, b>>[1] = d
      OBVIOUS
    <3>. QED
      BY <1>2, <3>1
  <2>2. ASSUME NEW q \in D PROVE \E p \in E : p[1] = q[1]
    <3>1. <<d, a>>[1] = d /\ <<d, b>>[1] = d /\ <<d, b>> \in E
      BY <1>2
    <3>. QED
      BY <1>2, <3>1
  <2>. QED
    BY <2>1, <2>2
<1>6. \A e, n : n \in NamesIn(E, e) <=> <<e, n>> \in E
  BY <1>3 DEF NamesIn
<1>7. \A e, n : n \in NamesIn(D, e) <=> <<e, n>> \in D
  BY <1>1 DEF NamesIn
<1>8. \A e, n : n \in NamesIn(E, e) <=>
        (n \in NamesIn(D, e) /\ ~ (e = d /\ n = a)) \/ (e = d /\ n = b)
  BY <1>2, <1>6, <1>7
<1>. QED
  BY <1>4, <1>5, <1>8 DEF Subdirs

\* Renaming a directory: its files come along.
LEMMA DirMovedNames ==
  ASSUME NEW D \in SUBSET Files, NEW a \in Names, NEW b \in Names,
         a \in Subdirs(D), b \notin Subdirs(D), NEW E, E = DirMoved(D, a, b)
  PROVE  /\ E \in SUBSET Files /\ Subdirs(E) = (Subdirs(D) \ {a}) \cup {b}
         /\ NamesIn(E, b) = NamesIn(D, a)
         /\ \A e : e # a /\ e # b => NamesIn(E, e) = NamesIn(D, e)
<1>1. \A p \in D : p = <<p[1], p[2]>> /\ p[1] \in Dirs /\ p[2] \in Names /\ p[1] # b
  BY NamesAssumption DEF Files, Subdirs
<1>2. a # b /\ a # Root /\ b # Root
  BY NamesAssumption
<1>3. \A e, n : <<e, n>> \in E <=>
        \/ e = b /\ <<a, n>> \in D
        \/ e # a /\ <<e, n>> \in D
  <2>1. SUFFICES ASSUME NEW e, NEW n
        PROVE <<e, n>> \in E <=> \/ e = b /\ <<a, n>> \in D
                                 \/ e # a /\ <<e, n>> \in D
    OBVIOUS
  <2>2. <<e, n>> \in E <=> \E p \in D : <<e, n>> = <<IF p[1] = a THEN b ELSE p[1], p[2]>>
    BY DEF DirMoved
  <2>3. ASSUME NEW p \in D, <<e, n>> = <<IF p[1] = a THEN b ELSE p[1], p[2]>>
        PROVE  \/ e = b /\ <<a, n>> \in D
               \/ e # a /\ <<e, n>> \in D
    BY <1>1, <1>2, <2>3
  <2>4. ASSUME e = b, <<a, n>> \in D
        PROVE  \E p \in D : <<e, n>> = <<IF p[1] = a THEN b ELSE p[1], p[2]>>
    <3>1. <<a, n>>[1] = a /\ <<a, n>>[2] = n
      OBVIOUS
    <3>. QED
      BY <2>4, <3>1
  <2>5. ASSUME e # a, <<e, n>> \in D
        PROVE  \E p \in D : <<e, n>> = <<IF p[1] = a THEN b ELSE p[1], p[2]>>
    <3>1. <<e, n>>[1] = e /\ <<e, n>>[2] = n
      OBVIOUS
    <3>. QED
      BY <2>5, <3>1
  <2>. QED
    BY <2>2, <2>3, <2>4, <2>5
<1>4. \A p \in E : p = <<p[1], p[2]>> /\ p[1] \in Dirs /\ p[2] \in Names
  <2>1. SUFFICES ASSUME NEW q \in D, NEW p, p = <<IF q[1] = a THEN b ELSE q[1], q[2]>>
        PROVE  p = <<p[1], p[2]>> /\ p[1] \in Dirs /\ p[2] \in Names
    BY DEF DirMoved
  <2>. QED
    BY <1>1, <2>1 DEF Dirs
<1>5. E \in SUBSET Files
  BY <1>4 DEF Files
<1>6. \A e, n : n \in NamesIn(E, e) <=> <<e, n>> \in E
  BY <1>4 DEF NamesIn
<1>7. \A e, n : n \in NamesIn(D, e) <=> <<e, n>> \in D
  BY <1>1 DEF NamesIn
<1>8. \A e : e \in Subdirs(E) <=> e # Root /\ \E n : <<e, n>> \in E
  BY <1>4 DEF Subdirs
<1>9. \A e : e \in Subdirs(D) <=> e # Root /\ \E n : <<e, n>> \in D
  BY <1>1 DEF Subdirs
<1>10. Subdirs(E) = (Subdirs(D) \ {a}) \cup {b}
  <2>1. PICK n : <<a, n>> \in D
    BY <1>9
  <2>. QED
    BY <1>2, <1>3, <1>8, <1>9, <2>1
<1>11. \A n : <<b, n>> \notin D
  BY <1>1
<1>12. \A n : n \in NamesIn(E, b) <=> n \in NamesIn(D, a)
  BY <1>2, <1>3, <1>6, <1>7, <1>11
<1>13. \A e, n : e # a /\ e # b => (n \in NamesIn(E, e) <=> n \in NamesIn(D, e))
  BY <1>3, <1>6, <1>7
<1>14. NamesIn(E, b) = NamesIn(D, a)
  BY <1>12 DEF NamesIn
<1>15. \A e : e # a /\ e # b => NamesIn(E, e) = NamesIn(D, e)
  BY <1>13 DEF NamesIn
<1>. QED
  BY <1>5, <1>10, <1>14, <1>15

\* Neither costs a file, if nothing has the new name.
LEMMA FileMovedCount ==
  ASSUME NEW D, IsFiniteSet(D), NEW d, NEW a, NEW b, <<d, a>> \in D,
         <<d, b>> \notin D \/ a = b
  PROVE  Cardinality(FileMoved(D, d, a, b)) = Cardinality(D)
<1>1. CASE a = b
  BY <1>1 DEF FileMoved
<1>2. CASE a # b
  <2>1. IsFiniteSet(D \ {<<d, a>>}) /\ Cardinality(D \ {<<d, a>>}) = Cardinality(D) - 1
    BY FS_RemoveElement
  <2>2. <<d, b>> \notin D \ {<<d, a>>}
    BY <1>2
  <2>3. Cardinality(FileMoved(D, d, a, b)) = Cardinality(D \ {<<d, a>>}) + 1
    BY <2>1, <2>2, FS_AddElement DEF FileMoved
  <2>. QED
    BY <2>1, <2>3, FS_CardinalityType
<1>. QED
  BY <1>1, <1>2

LEMMA DirMovedCount ==
  ASSUME NEW D \in SUBSET Files, IsFiniteSet(D), NEW a \in Names, NEW b \in Names,
         a \in Subdirs(D), b \notin Subdirs(D)
  PROVE  /\ IsFiniteSet(DirMoved(D, a, b))
         /\ Cardinality(DirMoved(D, a, b)) = Cardinality(D)
<1>. DEFINE move(p) == <<IF p[1] = a THEN b ELSE p[1], p[2]>>
            f == [p \in D |-> move(p)]
<1>1. \A p \in D : p = <<p[1], p[2]>> /\ p[1] # b
  BY NamesAssumption DEF Files, Subdirs
<1>2. f \in Bijection(D, DirMoved(D, a, b))
  <2>1. f \in [D -> DirMoved(D, a, b)]
    BY DEF DirMoved
  <2>2. \A q \in DirMoved(D, a, b) : \E p \in D : f[p] = q
    BY DEF DirMoved
  <2>3. ASSUME NEW p \in D, NEW q \in D, f[p] = f[q] PROVE p = q
    <3>1. <<IF p[1] = a THEN b ELSE p[1], p[2]>> = <<IF q[1] = a THEN b ELSE q[1], q[2]>>
      BY <2>3
    <3>2. (IF p[1] = a THEN b ELSE p[1]) = (IF q[1] = a THEN b ELSE q[1]) /\ p[2] = q[2]
      BY <3>1
    <3>3. p[1] = q[1]
      BY <1>1, <3>2
    <3>. QED
      BY <1>1, <3>2, <3>3
  <2>. QED
    BY <2>1, <2>2, <2>3, Fun_IsBij
<1>. QED
  BY <1>2, FS_Bijection DEF ExistsBijection

-----------------------------------------------------------------------------
\* The names among which an install renames, and what it has still to rename.
Around(r, D) == IF r.at = "fold" THEN NamesIn(D, r.here) ELSE Subdirs(D)
Pending(r) == r.work \cup ({r.name} \ {None})
AwayOf(r) == IF r.name = None THEN {} ELSE {TmpOf[r.name]}

(***************************************************************************)
(* Where a thread r stands that alone works on the files D and the rows R. *)
(***************************************************************************)
Unpacking(r) ==
  r.at \in {"extract", "insert", "unpack", "bsa"} =>
    r.here = None /\ r.work = {} /\ r.name = None

\* The directories are those found first; those behind are settled, and the files of
\* the root are as they were found until it is their turn.
FoldingFiles(r, D) ==
  r.at = "fold" =>
    /\ r.subs = Subdirs(D)
    /\ r.here = None => r.work = {} /\ r.name = None
    /\ r.here # Root => {p[2] : p \in r.todo} = NamesIn(D, Root)
    /\ r.here = Root => r.dirs = {}
    /\ r.clean => \A d \in (Subdirs(D) \ r.dirs) \ {r.here} : Settled(NamesIn(D, d))

FoldingDirs(r, D) ==
  r.at = "folddirs" =>
    /\ r.here = Root
    /\ r.clean => \A d \in Subdirs(D) \cup {Root} : Settled(NamesIn(D, d))

Renaming(r, D) ==
  /\ r.name \notin r.work
  /\ r.at \in {"fold", "folddirs"} /\ r.here # None =>
       /\ Apart(Around(r, D), Pending(r))
       /\ r.clean => Exact(Around(r, D) \ AwayOf(r), r.work, Pending(r))

Registered(r, D, R) ==
  /\ r.at = "rows" /\ r.clean => r.found = D /\ SettledTree(D)
  /\ r.at = "done" /\ r.clean =>
       /\ SettledTree(D)
       /\ R = IF Alike(D) THEN {} ELSE Lowered(D)

ThreadInv(r, D, R) ==
  /\ Unpacking(r) /\ FoldingFiles(r, D) /\ FoldingDirs(r, D) /\ Renaming(r, D)
  /\ Registered(r, D, R)

LEMMA NamesAre ==
  ASSUME NEW D \in SUBSET Files
  PROVE  /\ Subdirs(D) \in SUBSET Names
         /\ \A d : NamesIn(D, d) \in SUBSET Names
BY DEF Files, Dirs, Subdirs, NamesIn

LEMMA AroundAre ==
  ASSUME NEW r, NEW D \in SUBSET Files
  PROVE  Around(r, D) \in SUBSET Names
BY NamesAre DEF Around

\* Nothing of what ThreadInv says is about the steps before the files are folded.
LEMMA UnpackingKeeps ==
  ASSUME NEW r \in Records, NEW D, NEW R, NEW q \in Records, NEW E, NEW Q,
         ThreadInv(r, D, R), r.at \in {"extract", "insert", "unpack", "bsa"},
         q.at \in {"insert", "unpack", "bsa", "extract"},
         q.here = r.here, q.work = r.work, q.name = r.name
  PROVE  ThreadInv(q, E, Q)
BY DEF ThreadInv, Unpacking, FoldingFiles, FoldingDirs, Renaming, Registered

LEMMA OverKeeps ==
  ASSUME NEW q, NEW E, NEW Q,
         q.at \in Ended, q.at = "done" => ~ q.clean, q.name \notin q.work
  PROVE  ThreadInv(q, E, Q)
BY DEF ThreadInv, Unpacking, FoldingFiles, FoldingDirs, Renaming, Registered, Ended

LEMMA ReadRootKeeps ==
  ASSUME NEW r \in Records, NEW D \in SUBSET Files, NEW R, NEW q \in Records,
         ThreadInv(r, D, R), r.at = "bsa", q.at = "fold",
         q.subs = Subdirs(D), q.dirs = Subdirs(D),
         q.todo = {<<Root, n>> : n \in NamesIn(D, Root)},
         q.here = r.here, q.work = r.work, q.name = r.name
  PROVE  ThreadInv(q, D, R)
<1>1. q.here = None /\ q.work = {} /\ q.name = None
  BY DEF ThreadInv, Unpacking
<1>2. {p[2] : p \in q.todo} = NamesIn(D, Root)
  <2>. DEFINE S == NamesIn(D, Root)
  <2>. HIDE DEF S
  <2>1. q.todo = {<<Root, n>> : n \in S}
    BY DEF S
  <2>2. ASSUME NEW n \in S PROVE n \in {p[2] : p \in q.todo}
    <3>1. <<Root, n>> \in q.todo /\ <<Root, n>>[2] = n
      BY <2>1
    <3>. QED
      BY <3>1
  <2>3. ASSUME NEW p \in q.todo PROVE p[2] \in S
    <3>1. PICK n \in S : p = <<Root, n>>
      BY <2>1
    <3>. QED
      BY <3>1
  <2>4. {p[2] : p \in q.todo} = S
    BY <2>2, <2>3
  <2>. QED
    BY <2>4 DEF S
<1>3. q.here # Root
  BY <1>1, NamesAssumption
<1>. QED
  BY <1>1, <1>2, <1>3 DEF ThreadInv, Unpacking, FoldingFiles, FoldingDirs, Renaming,
     Registered

\* When a directory is through, its names are settled.
LEMMA ThroughIsSettled ==
  ASSUME NEW r \in Records, NEW D \in SUBSET Files, Renaming(r, D),
         r.at \in {"fold", "folddirs"}, r.here # None, r.clean, r.work = {}, r.name = None
  PROVE  Settled(Around(r, D))
<1>1. Pending(r) = {} /\ Around(r, D) \ AwayOf(r) = Around(r, D)
  BY DEF Pending, AwayOf
<1>. QED
  BY <1>1, FoldEnds DEF Renaming

LEMMA RenamingStarts ==
  ASSUME NEW q \in Records, NEW D \in SUBSET Files, q.name = None,
         q.work = Renamable(Around(q, D))
  PROVE  Renaming(q, D)
<1>1. q.work \in SUBSET Names
  BY DEF Records
<1>2. None \notin q.work /\ Pending(q) = q.work /\ Around(q, D) \ AwayOf(q) = Around(q, D)
  BY <1>1, NamesAssumption DEF Pending, AwayOf
<1>. QED
  BY <1>2, AroundAre, FoldStarts DEF Renaming

\* The next directory.
LEMMA FoldSubdirKeeps ==
  ASSUME NEW r \in Records, NEW D \in SUBSET Files, NEW R, NEW q \in Records,
         ThreadInv(r, D, R), r.at = "fold", r.work = {}, r.name = None, NEW d \in r.dirs,
         q.at = "fold", q.dirs = r.dirs \ {d}, q.here = d, q.name = None,
         q.work = Renamable(NamesIn(D, d)), q.subs = r.subs, q.todo = r.todo,
         q.clean = r.clean
  PROVE  ThreadInv(q, D, R)
<1>1. r.here # Root /\ d \in Names /\ d # Root /\ d # None
  BY NamesAssumption DEF ThreadInv, FoldingFiles, Records
<1>2. NamesIn(D, d) \in SUBSET Names /\ Subdirs(D) \in SUBSET Names
  BY NamesAre
<1>3. ASSUME r.clean, NEW e \in (Subdirs(D) \ q.dirs) \ {d} PROVE Settled(NamesIn(D, e))
  <2>1. e \in Subdirs(D) \ r.dirs
    BY <1>3
  <2>2. CASE e = r.here
    <3>1. r.here # None /\ Around(r, D) = NamesIn(D, e)
      BY <1>2, <2>1, <2>2, NamesAssumption DEF Around
    <3>. QED
      BY <1>3, <3>1, ThroughIsSettled DEF ThreadInv
  <2>3. CASE e # r.here
    BY <1>3, <2>1, <2>3 DEF ThreadInv, FoldingFiles
  <2>. QED
    BY <2>2, <2>3
<1>4. FoldingFiles(q, D)
  BY <1>1, <1>3 DEF ThreadInv, FoldingFiles
<1>5. Renaming(q, D)
  <2>1. Around(q, D) = NamesIn(D, d)
    BY DEF Around
  <2>. QED
    BY <1>1, <2>1, RenamingStarts
<1>. QED
  BY <1>4, <1>5 DEF ThreadInv, Unpacking, FoldingDirs, Registered

\* The files of the root.
LEMMA FoldRootFilesKeeps ==
  ASSUME NEW r \in Records, NEW D \in SUBSET Files, NEW R, NEW q \in Records,
         ThreadInv(r, D, R), r.at = "fold", r.work = {}, r.name = None, r.dirs = {},
         r.here # Root,
         q.at = "fold", q.dirs = r.dirs, q.here = Root, q.name = None,
         q.work = Renamable({p[2] : p \in r.todo}), q.subs = r.subs, q.clean = r.clean
  PROVE  ThreadInv(q, D, R)
<1>1. Root # None /\ {p[2] : p \in r.todo} = NamesIn(D, Root)
  BY NamesAssumption DEF ThreadInv, FoldingFiles
<1>2. NamesIn(D, Root) \in SUBSET Names /\ Subdirs(D) \in SUBSET Names
  BY NamesAre
<1>3. ASSUME r.clean, NEW e \in Subdirs(D) PROVE Settled(NamesIn(D, e))
  <2>1. CASE e = r.here
    <3>1. r.here # None /\ Around(r, D) = NamesIn(D, e)
      BY <1>2, <2>1, NamesAssumption DEF Around
    <3>. QED
      BY <1>3, <3>1, ThroughIsSettled DEF ThreadInv
  <2>2. CASE e # r.here
    BY <1>3, <2>2 DEF ThreadInv, FoldingFiles
  <2>. QED
    BY <2>1, <2>2
<1>4. FoldingFiles(q, D)
  BY <1>1, <1>3 DEF ThreadInv, FoldingFiles
<1>5. Renaming(q, D)
  <2>1. Around(q, D) = NamesIn(D, Root)
    BY DEF Around
  <2>. QED
    BY <1>1, <2>1, RenamingStarts
<1>. QED
  BY <1>4, <1>5 DEF ThreadInv, Unpacking, FoldingDirs, Registered

\* The directories themselves.
LEMMA FoldDirsKeeps ==
  ASSUME NEW r \in Records, NEW D \in SUBSET Files, NEW R, NEW q \in Records,
         ThreadInv(r, D, R), r.at = "fold", r.work = {}, r.name = None, r.dirs = {},
         r.here = Root,
         q.at = "folddirs", q.here = r.here, q.name = None,
         q.work = Renamable(r.subs), q.clean = r.clean
  PROVE  ThreadInv(q, D, R)
<1>1. Root # None /\ r.subs = Subdirs(D) /\ Root \notin Names
  BY NamesAssumption DEF ThreadInv, FoldingFiles
<1>2. Subdirs(D) \in SUBSET Names
  BY NamesAre
<1>3. ASSUME r.clean, NEW e \in Subdirs(D) \cup {Root} PROVE Settled(NamesIn(D, e))
  <2>1. CASE e = Root
    <3>1. Around(r, D) = NamesIn(D, e)
      BY <2>1 DEF Around
    <3>. QED
      BY <1>1, <1>3, <3>1, ThroughIsSettled DEF ThreadInv
  <2>2. CASE e # Root
    BY <1>1, <1>3, <2>2 DEF ThreadInv, FoldingFiles
  <2>. QED
    BY <2>1, <2>2
<1>4. FoldingDirs(q, D)
  BY <1>3 DEF FoldingDirs
<1>5. Renaming(q, D)
  <2>1. Around(q, D) = Subdirs(D)
    BY DEF Around
  <2>. QED
    BY <1>1, <2>1, RenamingStarts
<1>. QED
  BY <1>4, <1>5 DEF ThreadInv, Unpacking, FoldingFiles, Registered

-----------------------------------------------------------------------------
\* What rename does to the directory it works in.
LEMMA FileMoveKeeps ==
  ASSUME NEW r \in Records, NEW D \in SUBSET Files, FoldingFiles(r, D), r.at = "fold",
         r.here # None, NEW a \in Names, NEW b \in Names, FileMoves(D, r.here, a, b),
         NEW q \in Records, q.at = r.at, q.subs = r.subs, q.dirs = r.dirs,
         q.here = r.here, q.todo = r.todo, q.clean => r.clean,
         NEW E, E = FileMoved(D, r.here, a, b)
  PROVE  /\ E \in SUBSET Files /\ FoldingFiles(q, E)
         /\ Around(q, E) = (Around(r, D) \ {a}) \cup {b}
<1>1. r.here \in Dirs /\ <<r.here, a>> \in D
  BY DEF Records, FileMoves
<1>2. /\ E \in SUBSET Files /\ Subdirs(E) = Subdirs(D)
      /\ NamesIn(E, r.here) = (NamesIn(D, r.here) \ {a}) \cup {b}
      /\ \A e : e # r.here => NamesIn(E, e) = NamesIn(D, e)
  BY <1>1, FileMovedNames
<1>3. \A d \in (Subdirs(E) \ q.dirs) \ {q.here} : NamesIn(E, d) = NamesIn(D, d)
  BY <1>2
<1>4. q.here # Root => NamesIn(E, Root) = NamesIn(D, Root)
  BY <1>2
<1>5. FoldingFiles(q, E)
  BY <1>2, <1>3, <1>4 DEF FoldingFiles
<1>. QED
  BY <1>2, <1>5 DEF Around

LEMMA DirMoveKeeps ==
  ASSUME NEW r \in Records, NEW D \in SUBSET Files, FoldingDirs(r, D), r.at = "folddirs",
         NEW a \in Names, NEW b \in Names, DirMoves(D, a, b),
         NEW q \in Records, q.at = r.at, q.here = r.here, q.clean => r.clean,
         NEW E, E = DirMoved(D, a, b)
  PROVE  /\ E \in SUBSET Files /\ FoldingDirs(q, E)
         /\ Around(q, E) = (Around(r, D) \ {a}) \cup {b}
<1>1. /\ E \in SUBSET Files /\ Subdirs(E) = (Subdirs(D) \ {a}) \cup {b}
      /\ NamesIn(E, b) = NamesIn(D, a)
      /\ \A e : e # a /\ e # b => NamesIn(E, e) = NamesIn(D, e)
  BY DirMovedNames DEF DirMoves
<1>2. a \in Subdirs(D) /\ b \notin Subdirs(D) /\ a # Root /\ b # Root
  BY NamesAssumption DEF DirMoves
<1>3. ASSUME q.clean, NEW d \in Subdirs(E) \cup {Root} PROVE Settled(NamesIn(E, d))
  <2>1. \A e \in Subdirs(D) \cup {Root} : Settled(NamesIn(D, e))
    BY <1>3 DEF FoldingDirs
  <2>2. CASE d = b
    BY <1>1, <1>2, <2>1, <2>2
  <2>3. CASE d # b
    <3>1. d # a /\ d \in Subdirs(D) \cup {Root}
      BY <1>1, <1>2, <2>3
    <3>. QED
      BY <1>1, <2>1, <2>3, <3>1
  <2>. QED
    BY <2>2, <2>3
<1>. QED
  BY <1>1, <1>3 DEF FoldingDirs, Around

\* The two steps of a rename, and what is left when one fails.
LEMMA AwayRenames ==
  ASSUME NEW r \in Records, NEW D \in SUBSET Files, Renaming(r, D),
         r.at \in {"fold", "folddirs"}, r.here # None, r.name = None, NEW n \in r.work,
         NEW q \in Records, q.work = r.work \ {n}, q.name = n,
         q.clean => r.clean /\ TmpOf[n] \notin Around(r, D),
         NEW E, Around(q, E) = (Around(r, D) \ {n}) \cup {TmpOf[n]}
  PROVE  Renaming(q, E)
<1>1. Around(r, D) \in SUBSET Names /\ r.work \in SUBSET Names /\ n # None
  BY AroundAre, NamesAssumption DEF Records
<1>2. Pending(r) = r.work /\ Pending(q) = r.work /\ Around(r, D) \ AwayOf(r) = Around(r, D)
      /\ AwayOf(q) = {TmpOf[n]}
  BY <1>1 DEF Pending, AwayOf
<1>3. Apart(Around(r, D), r.work)
      /\ (r.clean => Exact(Around(r, D), r.work, r.work))
  BY <1>2 DEF Renaming
<1>. DEFINE S == Around(r, D)
            T == Around(q, E)
<1>4. /\ Apart(T, r.work)
      /\ Exact(S, r.work, r.work) /\ TmpOf[n] \notin S
           => Exact(T \ {TmpOf[n]}, r.work \ {n}, r.work)
  <2>1. S \in SUBSET Names /\ Apart(S, r.work) /\ T = (S \ {n}) \cup {TmpOf[n]}
    BY <1>1, <1>3
  <2>. HIDE DEF S, T
  <2>. QED
    BY <1>1, <2>1, AwayKeepsApart
<1>. QED
  BY <1>2, <1>3, <1>4 DEF Renaming

LEMMA BackRenames ==
  ASSUME NEW r \in Records, NEW D \in SUBSET Files, Renaming(r, D),
         r.at \in {"fold", "folddirs"}, r.here # None, r.name # None,
         NEW q \in Records, q.work = r.work, q.name = None, q.clean = r.clean,
         NEW E, Around(q, E) = (Around(r, D) \ {TmpOf[r.name]}) \cup {LowerOf[r.name]}
  PROVE  Renaming(q, E)
<1>1. Around(r, D) \in SUBSET Names /\ r.work \in SUBSET Names /\ r.name \in Names
      /\ r.name \notin r.work /\ None \notin r.work
  BY AroundAre, NamesAssumption DEF Records, Renaming
<1>2. Pending(r) = r.work \cup {r.name} /\ Pending(q) = r.work /\ AwayOf(q) = {}
      /\ AwayOf(r) = {TmpOf[r.name]}
  BY <1>1 DEF Pending, AwayOf
<1>. DEFINE S == Around(r, D)
            T == Around(q, E)
<1>3. /\ Apart(T, r.work)
      /\ Exact(S \ {TmpOf[r.name]}, r.work, r.work \cup {r.name})
           => Exact(T, r.work, r.work)
  <2>1. S \in SUBSET Names /\ Apart(S, r.work \cup {r.name})
        /\ T = (S \ {TmpOf[r.name]}) \cup {LowerOf[r.name]}
    BY <1>1, <1>2 DEF Renaming
  <2>. HIDE DEF S, T
  <2>. QED
    BY <1>1, <2>1, BackKeepsApart
<1>4. r.clean => Exact(S \ {TmpOf[r.name]}, r.work, r.work \cup {r.name})
  BY <1>2 DEF Renaming
<1>5. T \ AwayOf(q) = T
  BY <1>2
<1>. QED
  BY <1>1, <1>2, <1>3, <1>4, <1>5 DEF Renaming

LEMMA FailRenames ==
  ASSUME NEW r \in Records, NEW D \in SUBSET Files, NEW R, ThreadInv(r, D, R),
         r.at \in {"fold", "folddirs"},
         NEW q \in Records, q.at = r.at, q.subs = r.subs, q.dirs = r.dirs,
         q.here = r.here, q.todo = r.todo, q.work \in SUBSET r.work, q.name = None,
         q.clean = FALSE
  PROVE  ThreadInv(q, D, R)
<1>1. None \notin q.work
  BY NamesAssumption DEF Records
<1>2. Around(q, D) = Around(r, D) /\ Pending(q) \in SUBSET Pending(r)
  BY DEF Around, Pending
<1>3. Renaming(q, D)
  BY <1>1, <1>2, FewerApart DEF ThreadInv, Renaming
<1>4. FoldingFiles(q, D) /\ FoldingDirs(q, D)
  BY DEF ThreadInv, FoldingFiles, FoldingDirs
<1>. QED
  BY <1>3, <1>4 DEF ThreadInv, Unpacking, Registered

\* The last directory is through, and everything is found, or an error met.
LEMMA CollectKeeps ==
  ASSUME NEW r \in Records, NEW D \in SUBSET Files, NEW R, ThreadInv(r, D, R),
         r.at = "folddirs", r.work = {}, r.name = None,
         NEW q \in Records, q.at = "rows", q.clean => r.clean /\ q.found = D,
         q.name \notin q.work
  PROVE  ThreadInv(q, D, R)
<1>1. r.here # None /\ Around(r, D) = Subdirs(D)
  BY NamesAssumption DEF ThreadInv, FoldingDirs, Around
<1>2. r.clean => SettledTree(D)
  BY <1>1, ThroughIsSettled DEF ThreadInv, FoldingDirs, SettledTree
<1>. QED
  BY <1>2 DEF ThreadInv, Unpacking, FoldingFiles, FoldingDirs, Renaming, Registered

LEMMA RegisterKeeps ==
  ASSUME NEW r \in Records, NEW D \in SUBSET Files, NEW R, ThreadInv(r, D, R),
         r.at = "rows",
         NEW q \in Records, q.at = "done", q.clean => r.clean /\ R = {}, q.name \notin q.work,
         NEW Q, Q = IF /\ Cardinality(Lowered(r.found)) = Cardinality(r.found)
                       /\ Lowered(r.found) \cap R = {}
                    THEN R \cup Lowered(r.found) ELSE R
  PROVE  ThreadInv(q, D, Q)
<1>1. r.clean => r.found = D /\ SettledTree(D)
  BY DEF ThreadInv, Registered
<1>2. q.clean => Q = IF Alike(D) THEN {} ELSE Lowered(D)
  BY <1>1 DEF Alike
<1>. QED
  BY <1>1, <1>2 DEF ThreadInv, Unpacking, FoldingFiles, FoldingDirs, Renaming, Registered

-----------------------------------------------------------------------------
(***************************************************************************)
(* All threads.                                                            *)
(***************************************************************************)
\* What is taken for a BSA file is one.
Packs(r) == r.at = "bsa" => \A b \in r.todo : b[2] \in DOMAIN Packed

JobInv(i) ==
  /\ At(i, "idle") => Stem(i) = None
  /\ Stem(i) = None => job[i].at \in {"idle", "gone"}
  /\ Packs(job[i])
  /\ Stem(i) # None /\ Alone(i) => ThreadInv(job[i], Tree(i), rows[Slug(i)])

InstallInv ==
  /\ TypeOK
  /\ \A s \in Stems : IsFiniteSet(disk[s])
  /\ \A i \in Installs : JobInv(i)

\* The files and rows a step leaves, but for those of one stem.
Leaves(stem) ==
  /\ disk' \in [Stems -> SUBSET Files] /\ \A s \in Stems : IsFiniteSet(disk[s])'
  /\ \A s \in Stems \ {stem} : disk'[s] = disk[s]
  /\ modRow' \in [Slugs -> Stems \cup {None}] /\ rows' \in [Slugs -> SUBSET Files]
  /\ \A g \in Slugs \ {SlugOf[stem]} : rows'[g] = rows[g]

\* A step of one thread is nothing to those that work on something else.
LEMMA StepKeeps ==
  ASSUME InstallInv, NEW i \in Installs, NEW q \in Records,
         job' = [job EXCEPT ![i] = q], q.stem # None, q.at # "idle",
         Stem(i) = None \/ q.stem = Stem(i), Leaves(q.stem), Packs(q),
         Stem(i) = None \/ Alone(i) => ThreadInv(q, disk'[q.stem], rows'[SlugOf[q.stem]])
  PROVE  InstallInv'
<1>1. job \in [Installs -> Records] /\ job' \in [Installs -> Records] /\ job'[i] = q
      /\ \A j \in Installs \ {i} : job'[j] = job[j]
  BY DEF InstallInv, TypeOK
<1>2. TypeOK' /\ \A s \in Stems : IsFiniteSet(disk[s])'
  BY <1>1 DEF Leaves, TypeOK
<1>3. JobInv(i)'
  <2>1. ASSUME Alone(i)', Stem(i) # None PROVE Alone(i)
    BY <1>1, <2>1 DEF Alone, Stem, Slug
  <2>. QED
    BY <1>1, <2>1 DEF JobInv, At, Stem, Tree, Slug
<1>4. ASSUME NEW j \in Installs \ {i} PROVE JobInv(j)'
  <2>1. JobInv(j) /\ job'[j] = job[j]
    BY <1>1 DEF InstallInv
  <2>2. ASSUME Alone(j)', Stem(j) # None
        PROVE  Alone(j) /\ Tree(j)' = Tree(j) /\ rows'[Slug(j)] = rows[Slug(j)]
    <3>1. SlugOf[q.stem] # Slug(j)
      BY <1>1, <2>1, <2>2 DEF Alone, Stem, Slug
    <3>2. Alone(j)
      BY <1>1, <2>1, <2>2, <3>1 DEF Alone, Stem, Slug
    <3>3. Stem(j) \in Stems /\ Slug(j) \in Slugs /\ Stem(j) # q.stem
      BY <1>1, <2>2, <3>1 DEF Stem, Slug, Slugs, Records
    <3>. QED
      BY <2>1, <3>1, <3>2, <3>3 DEF Leaves, Tree, Stem, Slug
  <2>. QED
    BY <2>1, <2>2 DEF JobInv, At, Stem, Tree, Slug
<1>. QED
  BY <1>2, <1>3, <1>4 DEF InstallInv

LEMMA Working ==
  ASSUME InstallInv, NEW i \in Installs, ~ At(i, "idle"), ~ At(i, "gone")
  PROVE  /\ job[i] \in Records /\ Stem(i) \in Stems /\ Stem(i) # None /\ Stem(i) = job[i].stem
         /\ Tree(i) \in SUBSET Files /\ IsFiniteSet(Tree(i))
         /\ rows[Slug(i)] \in SUBSET Files /\ Slug(i) \in Slugs
         /\ Packs(job[i])
         /\ Alone(i) => ThreadInv(job[i], Tree(i), rows[Slug(i)])
<1>1. job[i] \in Records /\ JobInv(i)
  BY DEF InstallInv, TypeOK
<1>2. Stem(i) \in Stems /\ Stem(i) # None /\ Slug(i) \in Slugs
  BY <1>1 DEF JobInv, At, Stem, Slug, Slugs, Records
<1>. QED
  BY <1>1, <1>2 DEF JobInv, InstallInv, TypeOK, Tree, Stem

\* A step within the thread, and one that changes its files.
LEMMA QuietStep ==
  ASSUME InstallInv, NEW i \in Installs, ~ At(i, "idle"), ~ At(i, "gone"),
         NEW q \in Records, job' = [job EXCEPT ![i] = q], q.stem = job[i].stem, q.at # "idle",
         Packs(q),
         UNCHANGED <<disk, modRow, rows>>,
         Alone(i) => ThreadInv(q, Tree(i), rows[Slug(i)])
  PROVE  InstallInv'
<1>1. Leaves(Stem(i))
  BY DEF InstallInv, TypeOK, Leaves
<1>. QED
  BY <1>1, Working, StepKeeps DEF Tree, Slug, Stem

LEMMA TreeStep ==
  ASSUME InstallInv, NEW i \in Installs, ~ At(i, "idle"), ~ At(i, "gone"),
         NEW q \in Records, job' = [job EXCEPT ![i] = q], q.stem = job[i].stem, q.at # "idle",
         Packs(q),
         NEW E \in SUBSET Files, IsFiniteSet(E), SetTree(i, E), UNCHANGED <<modRow, rows>>,
         Alone(i) => ThreadInv(q, E, rows[Slug(i)])
  PROVE  InstallInv'
<1>1. Stem(i) \in Stems /\ Stem(i) = job[i].stem /\ Stem(i) # None
  BY Working
<1>2. disk' = [disk EXCEPT ![Stem(i)] = E]
  BY <1>1 DEF SetTree
<1>3. disk'[Stem(i)] = E /\ Leaves(Stem(i))
  BY <1>1, <1>2 DEF InstallInv, TypeOK, Leaves
<1>. QED
  BY <1>1, <1>3, StepKeeps DEF Slug, Stem

LEMMA FinishGives ==
  ASSUME InstallInv, NEW i \in Installs, ~ At(i, "idle"), ~ At(i, "gone"),
         NEW how \in {"failed", "done"}, NEW clean \in BOOLEAN, Finish(i, how, clean)
  PROVE  \E q \in Records :
           /\ job' = [job EXCEPT ![i] = q]
           /\ q.at = how /\ q.stem = job[i].stem /\ q.clean = clean /\ q.name \notin q.work
<1>. DEFINE q == [Fresh EXCEPT !.at = how, !.stem = Stem(i), !.clean = clean]
<1>1. q \in Records /\ q.at = how /\ q.stem = Stem(i) /\ q.clean = clean /\ q.name \notin q.work
  BY Working DEF Fresh, Records, Ended
<1>2. job' = [job EXCEPT ![i] = q]
  BY DEF Finish
<1>. QED
  BY <1>1, <1>2, Working

LEMMA FinishKeeps ==
  ASSUME InstallInv, NEW i \in Installs, ~ At(i, "idle"), ~ At(i, "gone"),
         NEW how \in {"failed", "done"}, Finish(i, how, FALSE), UNCHANGED <<disk, modRow, rows>>
  PROVE  InstallInv'
<1>1. PICK q \in Records :
        /\ job' = [job EXCEPT ![i] = q]
        /\ q.at = how /\ q.stem = job[i].stem /\ q.clean = FALSE /\ q.name \notin q.work
  BY FinishGives
<1>2. q.at \in Ended /\ q.at # "idle"
  BY <1>1 DEF Ended
<1>3. ThreadInv(q, Tree(i), rows[Slug(i)])
  BY <1>1, <1>2, OverKeeps
<1>. QED
  BY <1>1, <1>2, <1>3, QuietStep DEF Packs, Ended

LEMMA BeginKeeps ==
  ASSUME InstallInv, NEW i \in Installs, Begin(i) PROVE InstallInv'
<1>1. PICK a \in Archives :
        job' = [job EXCEPT ![i] = [Fresh EXCEPT !.at = "extract", !.stem = a.stem,
                                                !.todo = a.files]]
  BY DEF Begin
<1>. DEFINE q == [Fresh EXCEPT !.at = "extract", !.stem = a.stem, !.todo = a.files]
<1>2. a.stem \in Stems /\ a.stem # None /\ a.files \in SUBSET Files
  BY NamesAssumption, ArchivesAssumption DEF Stems
<1>3. /\ q \in Records /\ q.at = "extract" /\ q.stem = a.stem
      /\ q.here = None /\ q.work = {} /\ q.name = None
  BY <1>2 DEF Fresh, Records
<1>4. job' = [job EXCEPT ![i] = q]
  BY <1>1
<1>. HIDE DEF q
<1>5. ThreadInv(q, disk'[q.stem], rows'[SlugOf[q.stem]])
  BY <1>3 DEF ThreadInv, Unpacking, FoldingFiles, FoldingDirs, Renaming, Registered
<1>6. Leaves(q.stem) /\ Stem(i) = None
  BY DEF Begin, InstallInv, JobInv, TypeOK, Leaves
<1>. QED
  BY <1>2, <1>3, <1>4, <1>5, <1>6, StepKeeps DEF Packs

LEMMA ExtractFileKeeps ==
  ASSUME InstallInv, NEW i \in Installs, ExtractFile(i) PROVE InstallInv'
<1>1. ~ At(i, "idle") /\ ~ At(i, "gone") /\ job[i].at = "extract"
  BY DEF ExtractFile, At
<1>2. job[i] \in Records /\ IsFiniteSet(Tree(i)) /\ Tree(i) \in SUBSET Files
  BY <1>1, Working
<1>3. PICK p \in job[i].todo :
        /\ SetTree(i, Tree(i) \cup {p})
        /\ job' = [job EXCEPT ![i] = [@ EXCEPT !.todo = job[i].todo \ {p}]]
  BY DEF ExtractFile
<1>. DEFINE q == [job[i] EXCEPT !.todo = job[i].todo \ {p}]
<1>4. /\ q \in Records /\ q.at = job[i].at /\ q.stem = job[i].stem
      /\ q.here = job[i].here /\ q.work = job[i].work /\ q.name = job[i].name
  BY <1>2 DEF Records
<1>5. job' = [job EXCEPT ![i] = q]
  BY <1>3
<1>. HIDE DEF q
<1>6. Tree(i) \cup {p} \in SUBSET Files /\ IsFiniteSet(Tree(i) \cup {p})
  BY <1>2, FS_AddElement DEF Records
<1>7. Alone(i) => ThreadInv(q, Tree(i) \cup {p}, rows[Slug(i)])
  BY <1>1, <1>2, <1>4, Working, UnpackingKeeps
<1>. QED
  BY <1>1, <1>3, <1>4, <1>5, <1>6, <1>7, TreeStep DEF ExtractFile, Packs

LEMMA LookUpKeeps ==
  ASSUME InstallInv, NEW i \in Installs, LookUp(i) PROVE InstallInv'
<1>1. ~ At(i, "idle") /\ ~ At(i, "gone") /\ job[i].at = "extract"
  BY DEF LookUp, At
<1>2. job[i] \in Records
  BY <1>1, Working
<1>3. ASSUME NEW at \in {"insert", "unpack"}, job' = [job EXCEPT ![i] = [@ EXCEPT !.at = at]]
      PROVE  InstallInv'
  <2>. DEFINE q == [job[i] EXCEPT !.at = at]
  <2>1. /\ q \in Records /\ q.at = at /\ q.stem = job[i].stem
        /\ q.here = job[i].here /\ q.work = job[i].work /\ q.name = job[i].name
    BY <1>2 DEF Records
  <2>2. job' = [job EXCEPT ![i] = q]
    BY <1>3
  <2>. HIDE DEF q
  <2>3. Alone(i) => ThreadInv(q, Tree(i), rows[Slug(i)])
    BY <1>1, <1>2, <2>1, Working, UnpackingKeeps
  <2>. QED
    BY <1>1, <2>1, <2>2, <2>3, QuietStep DEF LookUp, Packs
<1>4. CASE Finish(i, "done", FALSE)
  BY <1>1, <1>4, FinishKeeps DEF LookUp
<1>5. \/ \E at \in {"insert", "unpack"} : job' = [job EXCEPT ![i] = [@ EXCEPT !.at = at]]
      \/ Finish(i, "done", FALSE)
  <2>1. CASE modRow[Slug(i)] = None
    BY <2>1, Zenon DEF LookUp
  <2>2. CASE modRow[Slug(i)] # None
    BY <2>2, Zenon DEF LookUp
  <2>. QED
    BY <2>1, <2>2
<1>. QED
  BY <1>3, <1>4, <1>5

LEMMA InsertModKeeps ==
  ASSUME InstallInv, NEW i \in Installs, InsertMod(i) PROVE InstallInv'
<1>1. ~ At(i, "idle") /\ ~ At(i, "gone") /\ job[i].at = "insert"
  BY DEF InsertMod, At
<1>2. job[i] \in Records /\ Stem(i) \in Stems /\ Stem(i) # None /\ Slug(i) \in Slugs
  BY <1>1, Working
<1>3. CASE /\ modRow' = [modRow EXCEPT ![Slug(i)] = Stem(i)]
           /\ job' = [job EXCEPT ![i] = [@ EXCEPT !.at = "unpack"]]
  <2>. DEFINE q == [job[i] EXCEPT !.at = "unpack"]
  <2>1. /\ q \in Records /\ q.at = "unpack" /\ q.stem = Stem(i)
        /\ q.here = job[i].here /\ q.work = job[i].work /\ q.name = job[i].name
    BY <1>2 DEF Records, Stem
  <2>2. job' = [job EXCEPT ![i] = q] /\ modRow' = [modRow EXCEPT ![Slug(i)] = Stem(i)]
        /\ UNCHANGED <<disk, rows>>
    BY <1>3 DEF InsertMod
  <2>. HIDE DEF q
  <2>3. Leaves(Stem(i))
    BY <1>2, <2>2 DEF InstallInv, TypeOK, Leaves
  <2>4. Alone(i) => ThreadInv(q, disk'[Stem(i)], rows'[SlugOf[Stem(i)]])
    BY <1>1, <1>2, <2>1, Working, UnpackingKeeps
  <2>. QED
    BY <1>2, <2>1, <2>2, <2>3, <2>4, StepKeeps DEF Packs
<1>4. CASE Finish(i, "done", FALSE) /\ UNCHANGED modRow
  BY <1>1, <1>4, FinishKeeps DEF InsertMod
<1>. QED
  BY <1>3, <1>4 DEF InsertMod

LEMMA FindArchivesKeeps ==
  ASSUME InstallInv, NEW i \in Installs, FindArchives(i) PROVE InstallInv'
<1>1. ~ At(i, "idle") /\ ~ At(i, "gone") /\ job[i].at = "unpack"
  BY DEF FindArchives, At
<1>2. job[i] \in Records /\ Bsas(Tree(i)) \in SUBSET Files
  BY <1>1, Working DEF Bsas
<1>. DEFINE q == [job[i] EXCEPT !.at = "bsa", !.todo = Bsas(Tree(i))]
<1>3. /\ q \in Records /\ q.at = "bsa" /\ q.stem = job[i].stem /\ q.todo = Bsas(Tree(i))
      /\ q.here = job[i].here /\ q.work = job[i].work /\ q.name = job[i].name
  BY <1>2 DEF Records
<1>4. job' = [job EXCEPT ![i] = q]
  BY DEF FindArchives
<1>. HIDE DEF q
<1>5. Alone(i) => ThreadInv(q, Tree(i), rows[Slug(i)])
  BY <1>1, <1>2, <1>3, Working, UnpackingKeeps
<1>6. Packs(q)
  BY <1>3 DEF Packs, Bsas
<1>. QED
  BY <1>1, <1>3, <1>4, <1>5, <1>6, QuietStep DEF FindArchives

\* Both outcomes of a BSA file.
LEMMA UnpackKeeps ==
  ASSUME InstallInv, NEW i \in Installs, UnpackBsa(i) \/ UnpackFails(i) PROVE InstallInv'
<1>1. ~ At(i, "idle") /\ ~ At(i, "gone") /\ job[i].at = "bsa" /\ UNCHANGED <<modRow, rows>>
  BY DEF UnpackBsa, UnpackFails, At
<1>2. job[i] \in Records /\ IsFiniteSet(Tree(i)) /\ Tree(i) \in SUBSET Files
  BY <1>1, Working
<1>3. \A b \in job[i].todo : Beside(b) \in SUBSET Files /\ IsFiniteSet(Beside(b))
  <2>1. TAKE b \in job[i].todo
  <2>2. Packed[b[2]] \in SUBSET Files /\ IsFiniteSet(Packed[b[2]]) /\ b \in Files
    BY <1>1, <1>2, Working, ArchivesAssumption DEF Packs, Records
  <2>3. Beside(b) \in SUBSET Files
    BY <2>2 DEF Beside, Files
  <2>4. IsFiniteSet(Beside(b))
    <3>. DEFINE to(p) == <<IF b[1] = Root THEN p[1] ELSE b[1], p[2]>>
                f == [p \in Packed[b[2]] |-> to(p)]
    <3>1. Beside(b) = {f[p] : p \in Packed[b[2]]}
      BY DEF Beside
    <3>2. f \in Surjection(Packed[b[2]], {f[p] : p \in Packed[b[2]]})
      BY DEF Surjection
    <3>. QED
      BY <2>2, <3>1, <3>2, FS_Surjection
  <2>. QED
    BY <2>3, <2>4
<1>4. \A b \in job[i].todo : \A S \in SUBSET Beside(b) :
        Tree(i) \cup S \in SUBSET Files /\ IsFiniteSet(Tree(i) \cup S)
  BY <1>2, <1>3, FS_Subset, FS_Union
<1>5. PICK b, E :
        /\ SetTree(i, E) /\ E \in SUBSET Files /\ IsFiniteSet(E)
        /\ job' = [job EXCEPT ![i] = [@ EXCEPT !.todo = job[i].todo \ {b}]]
  <2>1. CASE UnpackBsa(i)
    <3>1. PICK b \in job[i].todo \cap Tree(i) :
            /\ \/ SetTree(i, (Tree(i) \cup Beside(b)) \ {b})
               \/ SetTree(i, Tree(i) \cup Beside(b))
            /\ job' = [job EXCEPT ![i] = [@ EXCEPT !.todo = job[i].todo \ {b}]]
      BY <2>1 DEF UnpackBsa
    <3>2. Tree(i) \cup Beside(b) \in SUBSET Files
          /\ IsFiniteSet(Tree(i) \cup Beside(b))
      BY <1>4
    <3>3. (Tree(i) \cup Beside(b)) \ {b} \in SUBSET Files
          /\ IsFiniteSet((Tree(i) \cup Beside(b)) \ {b})
      BY <3>2, FS_RemoveElement
    <3>. QED
      BY <3>1, <3>2, <3>3
  <2>2. CASE UnpackFails(i)
    <3>1. PICK b \in job[i].todo :
            /\ \E S \in IF b \in Tree(i) THEN SUBSET Beside(b) ELSE {{}} :
                 SetTree(i, Tree(i) \cup S)
            /\ job' = [job EXCEPT ![i] = [@ EXCEPT !.todo = job[i].todo \ {b}]]
      BY <2>2 DEF UnpackFails
    <3>2. PICK S \in SUBSET Beside(b) : SetTree(i, Tree(i) \cup S)
      BY <3>1
    <3>. QED
      BY <1>4, <3>1, <3>2
  <2>. QED
    BY <2>1, <2>2
<1>. DEFINE q == [job[i] EXCEPT !.todo = job[i].todo \ {b}]
<1>6. /\ q \in Records /\ q.at = job[i].at /\ q.stem = job[i].stem
      /\ q.here = job[i].here /\ q.work = job[i].work /\ q.name = job[i].name
      /\ q.todo \in SUBSET job[i].todo
  BY <1>2 DEF Records
<1>7. job' = [job EXCEPT ![i] = q]
  BY <1>5
<1>. HIDE DEF q
<1>8. Packs(q)
  BY <1>1, <1>6, Working DEF Packs
<1>9. Alone(i) => ThreadInv(q, E, rows[Slug(i)])
  BY <1>1, <1>2, <1>6, Working, UnpackingKeeps
<1>. QED
  BY <1>1, <1>5, <1>6, <1>7, <1>8, <1>9, TreeStep

LEMMA ReadRootStep ==
  ASSUME InstallInv, NEW i \in Installs, ReadRoot(i) PROVE InstallInv'
<1>1. ~ At(i, "idle") /\ ~ At(i, "gone") /\ job[i].at = "bsa"
  BY DEF ReadRoot, At
<1>2. job[i] \in Records /\ Tree(i) \in SUBSET Files
  BY <1>1, Working
<1>. DEFINE files == {<<Root, n>> : n \in NamesIn(Tree(i), Root)}
            q == [job[i] EXCEPT !.at = "fold", !.subs = Subdirs(Tree(i)),
                                !.dirs = Subdirs(Tree(i)), !.todo = files]
<1>3. files \in SUBSET Files /\ Subdirs(Tree(i)) \in SUBSET Names
  BY <1>2, NamesAre DEF Files, Dirs
<1>4. /\ q \in Records /\ q.at = "fold" /\ q.stem = job[i].stem
      /\ q.subs = Subdirs(Tree(i)) /\ q.dirs = Subdirs(Tree(i)) /\ q.todo = files
      /\ q.here = job[i].here /\ q.work = job[i].work /\ q.name = job[i].name
  <2>. HIDE DEF files
  <2>. QED
    BY <1>2, <1>3 DEF Records
<1>5. job' = [job EXCEPT ![i] = q]
  BY DEF ReadRoot
<1>. HIDE DEF q
<1>6. Alone(i) => ThreadInv(q, Tree(i), rows[Slug(i)])
  BY <1>1, <1>2, <1>4, Working, ReadRootKeeps
<1>. QED
  BY <1>1, <1>4, <1>5, <1>6, QuietStep DEF ReadRoot, Packs

LEMMA FoldSubdirStep ==
  ASSUME InstallInv, NEW i \in Installs, FoldSubdir(i) PROVE InstallInv'
<1>1. ~ At(i, "idle") /\ ~ At(i, "gone")
      /\ job[i].at = "fold" /\ job[i].work = {} /\ job[i].name = None
  BY DEF FoldSubdir, Between, At
<1>2. job[i] \in Records /\ Tree(i) \in SUBSET Files
  BY <1>1, Working
<1>3. PICK d \in job[i].dirs :
        job' = [job EXCEPT ![i] = [@ EXCEPT !.dirs = job[i].dirs \ {d}, !.here = d,
                                            !.work = Renamable(NamesIn(Tree(i), d))]]
  BY DEF FoldSubdir
<1>. DEFINE work == Renamable(NamesIn(Tree(i), d))
            q == [job[i] EXCEPT !.dirs = job[i].dirs \ {d}, !.here = d, !.work = work]
<1>4. work \in SUBSET Names /\ d \in Names
  BY <1>2, NamesAre, FoldStarts DEF Records
<1>5. /\ q \in Records /\ q.at = "fold" /\ q.stem = job[i].stem
      /\ q.dirs = job[i].dirs \ {d} /\ q.here = d /\ q.work = work
      /\ q.name = None /\ q.subs = job[i].subs /\ q.todo = job[i].todo
      /\ q.clean = job[i].clean
  <2>. HIDE DEF work
  <2>. QED
    BY <1>1, <1>2, <1>4 DEF Records, Dirs
<1>6. job' = [job EXCEPT ![i] = q]
  BY <1>3
<1>. HIDE DEF q
<1>7. Alone(i) => ThreadInv(q, Tree(i), rows[Slug(i)])
  BY <1>1, <1>2, <1>5, Working, FoldSubdirKeeps
<1>. QED
  BY <1>1, <1>5, <1>6, <1>7, QuietStep DEF FoldSubdir, Packs

LEMMA FoldRootFilesStep ==
  ASSUME InstallInv, NEW i \in Installs, FoldRootFiles(i) PROVE InstallInv'
<1>1. ~ At(i, "idle") /\ ~ At(i, "gone")
      /\ job[i].at = "fold" /\ job[i].work = {} /\ job[i].name = None
      /\ job[i].dirs = {} /\ job[i].here # Root
  BY DEF FoldRootFiles, Between, At
<1>2. job[i] \in Records /\ Tree(i) \in SUBSET Files
  BY <1>1, Working
<1>. DEFINE names == {p[2] : p \in job[i].todo}
            work == Renamable(names)
            q == [job[i] EXCEPT !.here = Root, !.todo = {}, !.work = work]
<1>3. work \in SUBSET Names
  <2>1. names \in SUBSET Names
    BY <1>2 DEF Records, Files
  <2>. QED
    BY <2>1, FoldStarts
<1>4. /\ q \in Records /\ q.at = "fold" /\ q.stem = job[i].stem
      /\ q.dirs = job[i].dirs /\ q.here = Root /\ q.work = work
      /\ q.name = None /\ q.subs = job[i].subs /\ q.clean = job[i].clean
  <2>. HIDE DEF work
  <2>. QED
    BY <1>1, <1>2, <1>3 DEF Records, Dirs
<1>5. job' = [job EXCEPT ![i] = q]
  BY DEF FoldRootFiles
<1>. HIDE DEF q
<1>6. Alone(i) => ThreadInv(q, Tree(i), rows[Slug(i)])
  BY <1>1, <1>2, <1>4, Working, FoldRootFilesKeeps
<1>. QED
  BY <1>1, <1>4, <1>5, <1>6, QuietStep DEF FoldRootFiles, Packs

LEMMA FoldDirsStep ==
  ASSUME InstallInv, NEW i \in Installs, FoldDirs(i) PROVE InstallInv'
<1>1. ~ At(i, "idle") /\ ~ At(i, "gone")
      /\ job[i].at = "fold" /\ job[i].work = {} /\ job[i].name = None
      /\ job[i].dirs = {} /\ job[i].here = Root
  BY DEF FoldDirs, Between, At
<1>2. job[i] \in Records /\ Tree(i) \in SUBSET Files
  BY <1>1, Working
<1>. DEFINE work == Renamable(job[i].subs)
            q == [job[i] EXCEPT !.at = "folddirs", !.subs = {}, !.work = work]
<1>3. work \in SUBSET Names
  BY <1>2, FoldStarts DEF Records
<1>4. /\ q \in Records /\ q.at = "folddirs" /\ q.stem = job[i].stem
      /\ q.here = job[i].here /\ q.work = work /\ q.name = None /\ q.clean = job[i].clean
  <2>. HIDE DEF work
  <2>. QED
    BY <1>1, <1>2, <1>3 DEF Records
<1>5. job' = [job EXCEPT ![i] = q]
  BY DEF FoldDirs
<1>. HIDE DEF q
<1>6. Alone(i) => ThreadInv(q, Tree(i), rows[Slug(i)])
  BY <1>1, <1>2, <1>4, Working, FoldDirsKeeps
<1>. QED
  BY <1>1, <1>4, <1>5, <1>6, QuietStep DEF FoldDirs, Packs

\* What a thread that renames stands in, whoever else does.
LEMMA RenamesSomewhere ==
  ASSUME InstallInv, NEW i \in Installs, Folding(i)
  PROVE  /\ ~ At(i, "idle") /\ ~ At(i, "gone") /\ job[i].at \in {"fold", "folddirs"}
         /\ Alone(i) /\ Pending(job[i]) # {} => job[i].here # None
<1>1. ~ At(i, "idle") /\ ~ At(i, "gone") /\ job[i].at \in {"fold", "folddirs"}
  BY DEF Folding, At
<1>2. ASSUME Alone(i), Pending(job[i]) # {} PROVE job[i].here # None
  <2>1. ThreadInv(job[i], Tree(i), rows[Slug(i)])
    BY <1>1, <1>2, Working
  <2>. QED
    BY <1>1, <1>2, <2>1, NamesAssumption DEF ThreadInv, FoldingFiles, FoldingDirs, Pending
<1>. QED
  BY <1>1, <1>2

\* The files stay files, whatever is renamed.
LEMMA MovedAre ==
  ASSUME InstallInv, NEW i \in Installs, Folding(i), NEW a \in Names, NEW b \in Names,
         Moves(i, a, b)
  PROVE  Moved(i, a, b) \in SUBSET Files /\ IsFiniteSet(Moved(i, a, b))
<1>1. ~ At(i, "idle") /\ ~ At(i, "gone") /\ job[i].at \in {"fold", "folddirs"}
  BY RenamesSomewhere
<1>2. /\ job[i] \in Records /\ Tree(i) \in SUBSET Files /\ IsFiniteSet(Tree(i))
  BY <1>1, Working
<1>3. CASE At(i, "fold")
  <2>1. job[i].here \in Dirs /\ FileMoves(Tree(i), job[i].here, a, b)
        /\ Moved(i, a, b) = FileMoved(Tree(i), job[i].here, a, b)
    BY <1>2, <1>3 DEF Moves, Moved, FileMoves, Files
  <2>2. Moved(i, a, b) \in SUBSET Files
    BY <1>2, <2>1, FileMovedNames DEF FileMoves
  <2>3. IsFiniteSet(Tree(i) \ {<<job[i].here, a>>})
    BY <1>2, FS_RemoveElement
  <2>4. IsFiniteSet((Tree(i) \ {<<job[i].here, a>>}) \cup {<<job[i].here, b>>})
    BY <2>3, FS_AddElement
  <2>. QED
    BY <2>1, <2>2, <2>4 DEF FileMoved
<1>4. CASE ~ At(i, "fold")
  BY <1>2, <1>4, DirMovedNames, DirMovedCount DEF Moves, Moved, DirMoves
<1>. QED
  BY <1>3, <1>4

\* What a rename leaves of the invariant of the thread.
LEMMA MovedKeeps ==
  ASSUME NEW r \in Records, NEW D \in SUBSET Files, NEW R, ThreadInv(r, D, R),
         NEW a \in Names, NEW b \in Names, r.here # None,
         NEW q \in Records, q.at = r.at, q.subs = r.subs, q.dirs = r.dirs,
         q.here = r.here, q.todo = r.todo, q.clean => r.clean, q.work \in SUBSET Names,
         NEW E \in SUBSET Files,
         \/ r.at = "fold" /\ FileMoves(D, r.here, a, b) /\ E = FileMoved(D, r.here, a, b)
         \/ r.at = "folddirs" /\ DirMoves(D, a, b) /\ E = DirMoved(D, a, b)
  PROVE  /\ Around(q, E) = (Around(r, D) \ {a}) \cup {b}
         /\ Renaming(q, E) => ThreadInv(q, E, R)
<1>1. CASE r.at = "fold"
  <2>1. FoldingFiles(q, E) /\ Around(q, E) = (Around(r, D) \ {a}) \cup {b}
    BY <1>1, FileMoveKeeps DEF ThreadInv
  <2>. QED
    BY <1>1, <2>1 DEF ThreadInv, Unpacking, FoldingDirs, Registered
<1>2. CASE r.at = "folddirs"
  <2>1. FoldingDirs(q, E) /\ Around(q, E) = (Around(r, D) \ {a}) \cup {b}
    BY <1>2, DirMoveKeeps DEF ThreadInv
  <2>. QED
    BY <1>2, <2>1 DEF ThreadInv, Unpacking, FoldingFiles, Registered
<1>. QED
  BY <1>1, <1>2

LEMMA MoveIs ==
  ASSUME NEW i, NEW a, NEW b, Folding(i), Moves(i, a, b)
  PROVE  LET r == job[i] D == Tree(i) E == Moved(i, a, b) IN
         \/ r.at = "fold" /\ FileMoves(D, r.here, a, b) /\ E = FileMoved(D, r.here, a, b)
         \/ r.at = "folddirs" /\ DirMoves(D, a, b) /\ E = DirMoved(D, a, b)
BY DEF Folding, Moves, Moved, At

LEMMA RenameAwayStep ==
  ASSUME InstallInv, NEW i \in Installs, RenameAway(i) PROVE InstallInv'
<1>1. ~ At(i, "idle") /\ ~ At(i, "gone") /\ job[i].at \in {"fold", "folddirs"}
      /\ Folding(i) /\ job[i].name = None
  BY RenamesSomewhere DEF RenameAway
<1>2. job[i] \in Records /\ Tree(i) \in SUBSET Files
  BY <1>1, Working
<1>3. PICK n \in job[i].work :
       /\ Moves(i, n, TmpOf[n])
       /\ SetTree(i, Moved(i, n, TmpOf[n]))
       /\ job' = [job EXCEPT ![i] =
            [@ EXCEPT !.work = job[i].work \ {n}, !.name = n,
                      !.clean = job[i].clean /\ <<job[i].here, TmpOf[n]>> \notin Tree(i)]]
  BY DEF RenameAway
<1>4. n \in Names /\ TmpOf[n] \in Names
  BY <1>2, NamesAssumption DEF Records
<1>. DEFINE clean == job[i].clean /\ <<job[i].here, TmpOf[n]>> \notin Tree(i)
            q == [job[i] EXCEPT !.work = job[i].work \ {n}, !.name = n, !.clean = clean]
            E == Moved(i, n, TmpOf[n])
<1>5. clean \in BOOLEAN
  BY <1>2 DEF Records
<1>6. /\ q \in Records /\ q.at = job[i].at /\ q.stem = job[i].stem
      /\ q.work = job[i].work \ {n} /\ q.name = n /\ q.clean = clean
      /\ q.subs = job[i].subs /\ q.dirs = job[i].dirs /\ q.here = job[i].here
      /\ q.todo = job[i].todo
  <2>. HIDE DEF clean
  <2>. QED
    BY <1>2, <1>4, <1>5 DEF Records
<1>7. job' = [job EXCEPT ![i] = q]
  BY <1>3
<1>8. E \in SUBSET Files /\ IsFiniteSet(E)
  BY <1>1, <1>3, <1>4, MovedAre
<1>9. LET r == job[i] D == Tree(i) IN
      \/ r.at = "fold" /\ FileMoves(D, r.here, n, TmpOf[n]) /\ E = FileMoved(D, r.here, n, TmpOf[n])
      \/ r.at = "folddirs" /\ DirMoves(D, n, TmpOf[n]) /\ E = DirMoved(D, n, TmpOf[n])
  BY <1>1, <1>3, MoveIs
<1>. HIDE DEF q, E
<1>10. ASSUME Alone(i) PROVE ThreadInv(q, E, rows[Slug(i)])
  <2>1. ThreadInv(job[i], Tree(i), rows[Slug(i)]) /\ job[i].here # None
    BY <1>1, <1>10, Working, RenamesSomewhere DEF Pending
  <2>2. q.clean => job[i].clean /\ TmpOf[n] \notin Around(job[i], Tree(i))
    <3>1. CASE job[i].at = "fold"
      <4>1. \A m : m \in NamesIn(Tree(i), job[i].here) => <<job[i].here, m>> \in Tree(i)
        BY <1>2 DEF NamesIn, Files
      <4>. QED
        BY <1>6, <3>1, <4>1 DEF Around
    <3>2. CASE job[i].at = "folddirs"
      BY <1>6, <1>9, <3>2 DEF Around, DirMoves
    <3>. QED
      BY <1>1, <3>1, <3>2
  <2>3. /\ Around(q, E) = (Around(job[i], Tree(i)) \ {n}) \cup {TmpOf[n]}
        /\ Renaming(q, E) => ThreadInv(q, E, rows[Slug(i)])
    <3>1. (q.clean => job[i].clean) /\ q.work \in SUBSET Names
      BY <1>6, <2>2 DEF Records
    <3>. QED
      BY <1>2, <1>4, <1>6, <1>8, <1>9, <2>1, <3>1, MovedKeeps
  <2>4. Renaming(q, E)
    BY <1>1, <1>2, <1>6, <2>1, <2>2, <2>3, AwayRenames DEF ThreadInv
  <2>. QED
    BY <2>3, <2>4
<1>11. Packs(q) /\ q.at # "idle"
  BY <1>1, <1>6 DEF Packs
<1>. QED
  BY <1>1, <1>3, <1>6, <1>7, <1>8, <1>10, <1>11, TreeStep DEF RenameAway, E

LEMMA RenameBackStep ==
  ASSUME InstallInv, NEW i \in Installs, RenameBack(i) PROVE InstallInv'
<1>. DEFINE n == job[i].name
            a == TmpOf[n]
            b == LowerOf[n]
<1>1. ~ At(i, "idle") /\ ~ At(i, "gone") /\ job[i].at \in {"fold", "folddirs"}
      /\ Folding(i) /\ n # None
  BY RenamesSomewhere DEF RenameBack
<1>2. job[i] \in Records /\ Tree(i) \in SUBSET Files
  BY <1>1, Working
<1>3. n \in Names /\ a \in Names /\ b \in Names
  BY <1>1, <1>2, NamesAssumption DEF Records
<1>. DEFINE q == [job[i] EXCEPT !.name = None]
            E == Moved(i, a, b)
<1>4. Moves(i, a, b) /\ SetTree(i, E) /\ UNCHANGED <<modRow, rows>>
  BY DEF RenameBack
<1>5. /\ q \in Records /\ q.at = job[i].at /\ q.stem = job[i].stem
      /\ q.work = job[i].work /\ q.name = None /\ q.clean = job[i].clean
      /\ q.subs = job[i].subs /\ q.dirs = job[i].dirs /\ q.here = job[i].here
      /\ q.todo = job[i].todo
  BY <1>2 DEF Records
<1>6. job' = [job EXCEPT ![i] = q]
  BY DEF RenameBack
<1>7. E \in SUBSET Files /\ IsFiniteSet(E)
  BY <1>1, <1>3, <1>4, MovedAre
<1>8. LET r == job[i] D == Tree(i) IN
      \/ r.at = "fold" /\ FileMoves(D, r.here, a, b) /\ E = FileMoved(D, r.here, a, b)
      \/ r.at = "folddirs" /\ DirMoves(D, a, b) /\ E = DirMoved(D, a, b)
  BY <1>1, <1>4, MoveIs
<1>. HIDE DEF q, E
<1>9. ASSUME Alone(i) PROVE ThreadInv(q, E, rows[Slug(i)])
  <2>1. ThreadInv(job[i], Tree(i), rows[Slug(i)]) /\ job[i].here # None
    BY <1>1, <1>9, Working, RenamesSomewhere DEF Pending
  <2>2. (q.clean => job[i].clean) /\ q.work \in SUBSET Names
    BY <1>5 DEF Records
  <2>3. /\ Around(q, E) = (Around(job[i], Tree(i)) \ {a}) \cup {b}
        /\ Renaming(q, E) => ThreadInv(q, E, rows[Slug(i)])
    <3>. HIDE DEF a, b
    <3>. QED
      BY <1>2, <1>3, <1>5, <1>7, <1>8, <2>1, <2>2, MovedKeeps
  <2>4. Renaming(q, E)
    BY <1>1, <1>2, <1>5, <2>1, <2>3, BackRenames DEF ThreadInv
  <2>. QED
    BY <2>3, <2>4
<1>10. Packs(q) /\ q.at # "idle"
  BY <1>1, <1>5 DEF Packs
<1>. QED
  BY <1>1, <1>4, <1>5, <1>6, <1>7, <1>9, <1>10, TreeStep

LEMMA RenameFailsStep ==
  ASSUME InstallInv, NEW i \in Installs, RenameFails(i) PROVE InstallInv'
<1>1. ~ At(i, "idle") /\ ~ At(i, "gone") /\ job[i].at \in {"fold", "folddirs"}
  BY RenamesSomewhere DEF RenameFails
<1>2. job[i] \in Records /\ Tree(i) \in SUBSET Files
  BY <1>1, Working
<1>3. PICK q \in Records :
        /\ q.at = job[i].at /\ q.stem = job[i].stem
        /\ q.work \in SUBSET job[i].work /\ q.name = None /\ q.clean = FALSE
        /\ q.subs = job[i].subs /\ q.dirs = job[i].dirs /\ q.here = job[i].here
        /\ q.todo = job[i].todo
        /\ job' = [job EXCEPT ![i] = q]
  <2>1. CASE job[i].name # None
    <3>. DEFINE q == [job[i] EXCEPT !.name = None, !.clean = FALSE]
    <3>1. /\ q \in Records /\ q.at = job[i].at /\ q.stem = job[i].stem
          /\ q.work = job[i].work /\ q.name = None /\ q.clean = FALSE
          /\ q.subs = job[i].subs /\ q.dirs = job[i].dirs /\ q.here = job[i].here
          /\ q.todo = job[i].todo
      BY <1>2 DEF Records
    <3>2. job' = [job EXCEPT ![i] = q]
      BY <2>1 DEF RenameFails
    <3>. HIDE DEF q
    <3>. QED
      BY <3>1, <3>2
  <2>2. CASE job[i].name = None
    <3>1. PICK n \in job[i].work :
            job' = [job EXCEPT ![i] = [@ EXCEPT !.work = job[i].work \ {n}, !.clean = FALSE]]
      BY <2>2 DEF RenameFails
    <3>. DEFINE q == [job[i] EXCEPT !.work = job[i].work \ {n}, !.clean = FALSE]
    <3>2. /\ q \in Records /\ q.at = job[i].at /\ q.stem = job[i].stem
          /\ q.work = job[i].work \ {n} /\ q.name = None /\ q.clean = FALSE
          /\ q.subs = job[i].subs /\ q.dirs = job[i].dirs /\ q.here = job[i].here
          /\ q.todo = job[i].todo
      BY <1>2, <2>2 DEF Records
    <3>3. job' = [job EXCEPT ![i] = q]
      BY <3>1
    <3>. HIDE DEF q
    <3>. QED
      BY <3>2, <3>3
  <2>. QED
    BY <2>1, <2>2
<1>4. Alone(i) => ThreadInv(q, Tree(i), rows[Slug(i)])
  BY <1>1, <1>2, <1>3, Working, FailRenames
<1>5. Packs(q) /\ q.at # "idle"
  BY <1>1, <1>3 DEF Packs
<1>. QED
  BY <1>1, <1>3, <1>4, <1>5, QuietStep DEF RenameFails

LEMMA CollectFilesStep ==
  ASSUME InstallInv, NEW i \in Installs, CollectFiles(i) PROVE InstallInv'
<1>1. ~ At(i, "idle") /\ ~ At(i, "gone")
      /\ job[i].at = "folddirs" /\ job[i].work = {} /\ job[i].name = None
  BY DEF CollectFiles, At
<1>2. job[i] \in Records /\ Tree(i) \in SUBSET Files
  BY <1>1, Working
<1>a. PICK S \in SUBSET Tree(i) :
        job' = [job EXCEPT ![i] = [@ EXCEPT !.at = "rows", !.found = S,
                                            !.clean = job[i].clean /\ S = Tree(i)]]
  BY DEF CollectFiles
<1>. DEFINE clean == job[i].clean /\ S = Tree(i)
            q == [job[i] EXCEPT !.at = "rows", !.found = S, !.clean = clean]
<1>b. clean \in BOOLEAN
  BY <1>2 DEF Records
<1>c. /\ q \in Records /\ q.at = "rows" /\ q.stem = job[i].stem /\ q.found = S
      /\ q.clean = clean /\ q.name = job[i].name /\ q.work = job[i].work
  <2>. HIDE DEF clean
  <2>. QED
    BY <1>2, <1>b DEF Records
<1>3. /\ q \in Records /\ q.at = "rows" /\ q.stem = job[i].stem
      /\ q.clean => job[i].clean /\ q.found = Tree(i)
      /\ q.name \notin q.work
  BY <1>1, <1>c
<1>4. job' = [job EXCEPT ![i] = q]
  BY <1>a
<1>. HIDE DEF q
<1>5. Alone(i) => ThreadInv(q, Tree(i), rows[Slug(i)])
  BY <1>1, <1>2, <1>3, Working, CollectKeeps
<1>. QED
  BY <1>1, <1>3, <1>4, <1>5, QuietStep DEF CollectFiles, Packs

LEMMA InsertModFilesStep ==
  ASSUME InstallInv, NEW i \in Installs, InsertModFiles(i) PROVE InstallInv'
<1>1. ~ At(i, "idle") /\ ~ At(i, "gone") /\ job[i].at = "rows"
  BY DEF InsertModFiles, At
<1>2. /\ job[i] \in Records /\ Tree(i) \in SUBSET Files /\ Slug(i) \in Slugs
      /\ rows[Slug(i)] \in SUBSET Files /\ Stem(i) \in Stems /\ Stem(i) # None
      /\ Stem(i) = job[i].stem
  BY <1>1, Working
<1>. DEFINE clean == job[i].clean /\ rows[Slug(i)] = {}
            Q == IF Accepted(i) THEN rows[Slug(i)] \cup Lowered(job[i].found)
                                ELSE rows[Slug(i)]
<1>3. PICK q \in Records :
        /\ job' = [job EXCEPT ![i] = q]
        /\ q.at = "done" /\ q.stem = job[i].stem /\ q.clean = clean /\ q.name \notin q.work
  <2>1. clean \in BOOLEAN
    BY <1>2 DEF Records
  <2>2. Finish(i, "done", clean)
    BY DEF InsertModFiles
  <2>. HIDE DEF clean
  <2>. QED
    BY <1>1, <2>1, <2>2, FinishGives
<1>4. Lowered(job[i].found) \in SUBSET Files
  <2>1. \A p \in job[i].found : LowerPath(p) \in Files
    BY <1>2, NamesAssumption DEF Records, LowerPath, Files, Dirs
  <2>. QED
    BY <2>1 DEF Lowered
<1>5. Q \in SUBSET Files /\ rows' = [rows EXCEPT ![Slug(i)] = Q]
  <2>1. CASE Accepted(i)
    BY <1>2, <1>4, <2>1 DEF InsertModFiles
  <2>2. CASE ~ Accepted(i)
    <3>1. rows' = rows /\ Q = rows[Slug(i)]
      BY <2>2 DEF InsertModFiles
    <3>. QED
      BY <1>2, <3>1 DEF InstallInv, TypeOK
  <2>. QED
    BY <2>1, <2>2
<1>6. Alone(i) => ThreadInv(q, Tree(i), Q)
  <2>1. Q = IF /\ Cardinality(Lowered(job[i].found)) = Cardinality(job[i].found)
               /\ Lowered(job[i].found) \cap rows[Slug(i)] = {}
            THEN rows[Slug(i)] \cup Lowered(job[i].found) ELSE rows[Slug(i)]
    BY DEF Accepted
  <2>. HIDE DEF Q
  <2>. QED
    BY <1>1, <1>2, <1>3, <2>1, Working, RegisterKeeps
<1>. HIDE DEF Q
<1>7. /\ rows' \in [Slugs -> SUBSET Files] /\ rows'[Slug(i)] = Q
      /\ \A g \in Slugs \ {Slug(i)} : rows'[g] = rows[g]
  BY <1>2, <1>5 DEF InstallInv, TypeOK
<1>8. Leaves(Stem(i)) /\ disk' = disk
  BY <1>7 DEF InsertModFiles, InstallInv, TypeOK, Leaves, Slug, Stem
<1>9. SlugOf[Stem(i)] = Slug(i) /\ disk'[Stem(i)] = Tree(i)
  BY <1>2, <1>8 DEF Slug, Stem, Tree
<1>. QED
  BY <1>2, <1>3, <1>6, <1>7, <1>8, <1>9, StepKeeps DEF Packs

LEMMA CrashStep ==
  ASSUME InstallInv, Crash PROVE InstallInv'
<1>. DEFINE gone == [Fresh EXCEPT !.at = "gone"]
<1>1. gone \in Records /\ gone.at = "gone" /\ gone.stem = None
  BY DEF Fresh, Records, Ended
<1>2. job' = [i \in Installs |-> IF At(i, "idle") THEN job[i] ELSE gone]
  BY DEF Crash
<1>. HIDE DEF gone
<1>3. job' \in [Installs -> Records]
  BY <1>1, <1>2 DEF InstallInv, TypeOK
<1>4. ASSUME NEW i \in Installs PROVE JobInv(i)'
  BY <1>1, <1>2, <1>4 DEF InstallInv, JobInv, At, Stem, Packs
<1>. QED
  BY <1>3, <1>4 DEF Crash, InstallInv, TypeOK

\* The inductive invariant: types, finite directories, and of every install that no
\* other has come near how far its directory is in lower case.
THEOREM InstallInvHolds == Spec => []InstallInv
<1>1. Init => InstallInv
  <2>1. SUFFICES ASSUME Init PROVE InstallInv
    OBVIOUS
  <2>2. Fresh \in Records /\ Fresh.at = "idle" /\ Fresh.stem = None
    BY DEF Fresh, Records, Ended
  <2>3. TypeOK
    BY <2>1, <2>2 DEF Init, TypeOK
  <2>4. \A s \in Stems : IsFiniteSet(disk[s])
    BY <2>1, FS_EmptySet DEF Init
  <2>5. \A i \in Installs : JobInv(i)
    BY <2>1, <2>2 DEF Init, JobInv, At, Stem, Packs
  <2>. QED
    BY <2>3, <2>4, <2>5 DEF InstallInv
<1>2. InstallInv /\ [Next]_vars => InstallInv'
  <2>1. SUFFICES ASSUME InstallInv, [Next]_vars PROVE InstallInv'
    OBVIOUS
  <2>2. ASSUME NEW i \in Installs, Step(i) PROVE InstallInv'
    <3>1. ASSUME ExtractFails(i) \/ InsertFails(i) PROVE InstallInv'
      BY <2>1, <3>1, FinishKeeps DEF ExtractFails, InsertFails, At
    <3>. QED
      BY <2>1, <2>2, <3>1, ExtractFileKeeps, LookUpKeeps, InsertModKeeps,
         FindArchivesKeeps, UnpackKeeps, ReadRootStep, FoldSubdirStep, FoldRootFilesStep,
         FoldDirsStep, RenameAwayStep, RenameBackStep, RenameFailsStep, CollectFilesStep,
         InsertModFilesStep DEF Step
  <2>3. CASE UNCHANGED vars
    <3>1. \A i \in Installs : JobInv(i)' = JobInv(i)
      BY <2>3 DEF vars, JobInv, At, Stem, Alone, Tree, Slug
    <3>. QED
      BY <2>1, <2>3, <3>1 DEF vars, InstallInv, TypeOK
  <2>. QED
    BY <2>1, <2>2, <2>3, BeginKeeps, CrashStep DEF Next
<1>. QED
  BY <1>1, <1>2, PTL DEF Spec

\* install_mod_archive, for any archives, names and number of threads: an install
\* without an error, that no other has come near, leaves every name in lower case
\* that is not alike to another, and rows of exactly the files it leaves.
THEOREM InstalledIsTrue == Spec => []InstalledIsKnown
<1>1. InstallInv => InstalledIsKnown
  <2>1. SUFFICES ASSUME InstallInv PROVE InstalledIsKnown
    OBVIOUS
  <2>2. ASSUME NEW i \in Installs, At(i, "done"), job[i].clean, Alone(i)
        PROVE  /\ SettledTree(Tree(i)) /\ Tree(i) \in SUBSET Files
               /\ rows[Slug(i)] = IF Alike(Tree(i)) THEN {} ELSE Lowered(Tree(i))
    BY <2>1, <2>2, Working DEF At, ThreadInv, Registered
  <2>3. FoldedAll
    <3>1. SUFFICES ASSUME NEW i \in Installs, At(i, "done"), job[i].clean, Alone(i),
                          NEW p \in Tree(i)
          PROVE  /\ p[1] = Root \/ p[1] = LowerOf[p[1]]
                      \/ \E q \in Tree(i) : q[1] \notin {Root, p[1]}
                                           /\ LowerOf[q[1]] = LowerOf[p[1]]
                 /\ p[2] = LowerOf[p[2]]
                      \/ \E n \in NamesIn(Tree(i), p[1]) \ {p[2]} : LowerOf[n] = LowerOf[p[2]]
      BY DEF FoldedAll
    <3>2. SettledTree(Tree(i)) /\ p[1] \in Subdirs(Tree(i)) \cup {Root}
          /\ p[2] \in NamesIn(Tree(i), p[1])
      BY <2>2, <3>1 DEF Subdirs, NamesIn
    <3>3. p[1] # Root => p[1] = LowerOf[p[1]]
                      \/ \E q \in Tree(i) : q[1] \notin {Root, p[1]}
                                           /\ LowerOf[q[1]] = LowerOf[p[1]]
      BY <3>2 DEF SettledTree, Settled, Subdirs
    <3>4. p[2] = LowerOf[p[2]]
            \/ \E n \in NamesIn(Tree(i), p[1]) \ {p[2]} : LowerOf[n] = LowerOf[p[2]]
      BY <3>2 DEF SettledTree, Settled
    <3>. QED
      BY <3>3, <3>4
  <2>4. RowsAreFiles
    BY <2>2 DEF RowsAreFiles
  <2>. QED
    BY <2>1, <2>3, <2>4 DEF InstalledIsKnown, InstallInv
<1>. QED
  BY <1>1, InstallInvHolds, PTL

\* One rename in a directory without temporary names but the one it is at.
LEMMA RenameCounts ==
  ASSUME InstallInv, NEW i \in Installs, Folding(i), Alone(i), Leftovers(i) = {},
         RenameAway(i) \/ RenameBack(i)
  PROVE  Cardinality(disk'[Stem(i)]) = Cardinality(Tree(i))
<1>1. ~ At(i, "idle") /\ ~ At(i, "gone") /\ job[i].at \in {"fold", "folddirs"}
  BY RenamesSomewhere
<1>2. /\ job[i] \in Records /\ Tree(i) \in SUBSET Files /\ IsFiniteSet(Tree(i))
      /\ Stem(i) \in Stems /\ Stem(i) = job[i].stem
      /\ ThreadInv(job[i], Tree(i), rows[Slug(i)])
  BY <1>1, Working
<1>3. \A p \in Tree(i) : IsTmp(p[2]) => p[2] \in Away(i)
  BY DEF Leftovers
<1>4. PICK a \in Names, b \in Names :
        /\ Moves(i, a, b) /\ SetTree(i, Moved(i, a, b))
        /\ \A p \in Tree(i) : p[1] = job[i].here /\ p[2] = b /\ At(i, "fold") => a = b
  <2>1. CASE RenameAway(i)
    <3>1. PICK n \in job[i].work :
            Moves(i, n, TmpOf[n]) /\ SetTree(i, Moved(i, n, TmpOf[n])) /\ job[i].name = None
      BY <2>1 DEF RenameAway
    <3>2. n \in Names /\ TmpOf[n] \in Names /\ IsTmp(TmpOf[n]) /\ Away(i) = {}
      BY <1>2, <3>1, NamesAssumption DEF Records, IsTmp, Away
    <3>3. \A p \in Tree(i) : p[2] # TmpOf[n]
      BY <1>3, <3>2
    <3>. QED
      BY <3>1, <3>2, <3>3
  <2>2. CASE RenameBack(i)
    <3>. DEFINE n == job[i].name
    <3>1. Moves(i, TmpOf[n], LowerOf[n]) /\ SetTree(i, Moved(i, TmpOf[n], LowerOf[n]))
          /\ n # None
      BY <2>2 DEF RenameBack
    <3>2. n \in Names /\ TmpOf[n] \in Names /\ LowerOf[n] \in Names
          /\ LowerOf[LowerOf[n]] = LowerOf[n] /\ Away(i) = {TmpOf[n]}
      BY <1>2, <3>1, NamesAssumption DEF Records, Away
    <3>3. ASSUME NEW p \in Tree(i), p[1] = job[i].here, p[2] = LowerOf[n], At(i, "fold")
          PROVE  TmpOf[n] = LowerOf[n]
      <4>1. LowerOf[n] \in Around(job[i], Tree(i)) /\ n \in Pending(job[i])
        BY <3>1, <3>3 DEF Around, NamesIn, Pending, At
      <4>2. LowerOf[n] # n /\ (LowerOf[n] = n \/ IsTmp(LowerOf[n]))
        <5>1. job[i].here # None
          BY <1>1, <4>1, RenamesSomewhere
        <5>. QED
          BY <1>1, <1>2, <3>2, <4>1, <5>1 DEF ThreadInv, Renaming, Apart
      <4>. QED
        BY <1>3, <3>2, <3>3, <4>2
    <3>. QED
      BY <3>1, <3>2, <3>3
  <2>. QED
    BY <2>1, <2>2
<1>5. disk'[Stem(i)] = Moved(i, a, b)
  BY <1>2, <1>4 DEF SetTree, InstallInv, TypeOK
<1>6. CASE At(i, "fold")
  <2>1. <<job[i].here, a>> \in Tree(i) /\ Moved(i, a, b) = FileMoved(Tree(i), job[i].here, a, b)
    BY <1>4, <1>6 DEF Moves, Moved, FileMoves
  <2>2. <<job[i].here, b>> \notin Tree(i) \/ a = b
    BY <1>4, <1>6
  <2>. QED
    BY <1>2, <1>5, <2>1, <2>2, FileMovedCount
<1>7. CASE ~ At(i, "fold")
  BY <1>2, <1>4, <1>5, <1>7, DirMovedCount DEF Moves, Moved, DirMoves
<1>. QED
  BY <1>6, <1>7

\* Renaming to lower case never costs a file, in a directory of any size, that no
\* other thread has worked on and where no interrupted rename has left a name.
THEOREM FoldingKeepsFiles == Spec => FoldKeepsFiles
<1>1. InstallInv /\ [Next]_vars =>
        [\A i \in Installs :
           Folding(i) /\ Stem(i) = job'[i].stem /\ Alone(i) /\ Leftovers(i) = {}
             => Cardinality(disk'[Stem(i)]) = Cardinality(Tree(i))]_vars
  <2>1. SUFFICES ASSUME InstallInv, Next, NEW i \in Installs, Folding(i),
                        Stem(i) = job'[i].stem, Alone(i), Leftovers(i) = {}
        PROVE  Cardinality(disk'[Stem(i)]) = Cardinality(Tree(i))
    OBVIOUS
  <2>2. job[i].at \in {"fold", "folddirs"} /\ Stem(i) \in Stems /\ Stem(i) # None
    BY <2>1, RenamesSomewhere, Working
  <2>3. CASE disk' = disk
    BY <2>3 DEF Tree, Stem
  <2>4. ASSUME NEW j \in Installs, ExtractFile(j) \/ UnpackBsa(j) \/ UnpackFails(j)
                                    \/ RenameAway(j) \/ RenameBack(j)
        PROVE  Cardinality(disk'[Stem(i)]) = Cardinality(Tree(i))
    <3>1. CASE j = i
      <4>1. RenameAway(i) \/ RenameBack(i)
        BY <2>2, <2>4, <3>1 DEF ExtractFile, UnpackBsa, UnpackFails, At
      <4>. QED
        BY <2>1, <4>1, RenameCounts
    <3>2. CASE j # i
      <4>1. ~ At(j, "idle") /\ ~ At(j, "gone")
        BY <2>4 DEF ExtractFile, UnpackBsa, UnpackFails, RenameAway, RenameBack, Folding, At
      <4>2. Stem(j) \in Stems /\ Stem(j) # None
        BY <2>1, <4>1, Working
      <4>3. Stem(j) # Stem(i)
        BY <2>1, <3>2, <4>2 DEF Alone, Slug, Stem
      <4>4. \E E : disk' = [disk EXCEPT ![Stem(j)] = E]
        BY <2>4 DEF ExtractFile, UnpackBsa, UnpackFails, RenameAway, RenameBack, SetTree, Stem
      <4>5. disk'[Stem(i)] = disk[Stem(i)]
        BY <2>1, <2>2, <4>2, <4>3, <4>4 DEF InstallInv, TypeOK
      <4>. QED
        BY <4>5 DEF Tree, Stem
    <3>. QED
      BY <3>1, <3>2
  <2>. QED
    BY <2>1, <2>3, <2>4 DEF Next, Step, Begin, ExtractFails, LookUp, InsertMod, FindArchives,
       ReadRoot, FoldSubdir, FoldRootFiles, FoldDirs, RenameFails, CollectFiles,
       InsertModFiles, InsertFails, Crash
<1>. QED
  BY <1>1, InstallInvHolds, PTL DEF Spec, FoldKeepsFiles

(***************************************************************************)
(* Skse: one install of the script extender at a time.                     *)
(***************************************************************************)
Places == {"idle", "check", "request", "format", "extract", "move", "reg", "marker",
           "version", "clean", "sent", "lost"}
Answers == {"none", "failed", "upToDate", "installed"}
JobRecords ==
  [at : Places, latest : Versions, attempt : 0 .. MaxRetries, bring : Versions,
   todo : SUBSET SeFiles, wrote : BOOLEAN, answer : Answers]
Messages == [what : {"nothing"} \cup Answers, version : Versions, wrote : BOOLEAN]

Types ==
  /\ SeTypeOK
  /\ seJob \in [Jobs -> JobRecords] /\ told \in Messages /\ overlapped \in BOOLEAN

\* One install at a time, and while it runs there is no message.
AloneInv ==
  /\ \A i, j \in Running : i = j
  /\ Running # {} => told.what = "nothing"

\* A message that promises a version, wherever it is.
Promises(what) == what \in {"installed", "upToDate"}
Kept(v) == Holds(v) /\ marker = v

\* How far the files, the version file and the archive are with each step.
StepInv(j) ==
  LET r == seJob[j] IN
  /\ r.at \in {"request", "format", "extract", "move", "reg", "marker"} =>
       marker < server /\ r.latest <= server
  /\ r.at \in {"format", "extract"} => archive = Bad \/ archive = 0 \/ archive >= r.latest
  /\ r.at = "move" =>
       r.bring >= r.latest /\ \A f \in SeFiles \ r.todo : game[f] = r.bring
  /\ r.at \in {"reg", "marker", "version", "clean"} => Holds(r.latest)
  /\ r.at = "clean" => marker = r.latest
  /\ r.at = "sent" /\ Promises(r.answer) => Kept(r.latest)

AloneIsSafe ==
  ~ overlapped =>
    /\ AloneInv /\ MarkerIsSafe
    /\ Promises(told.what) => Kept(told.version)
    /\ \A j \in Jobs : StepInv(j)

SkseInv == Types /\ AloneIsSafe

-----------------------------------------------------------------------------
\* One install goes a step on: the others stay where they are.
OthersStay(j) == \A i \in Jobs \ {j} : seJob'[i] = seJob[i]

LEMMA AnswerGives ==
  ASSUME Types, NEW j \in Jobs, NEW what \in Answers, NEW v \in Versions, Answer(j, what, v)
  PROVE  /\ seJob' \in [Jobs -> JobRecords] /\ OthersStay(j)
         /\ seJob'[j].at = "sent" /\ seJob'[j].answer = what /\ seJob'[j].latest = v
<1>. DEFINE r == [seJob[j] EXCEPT !.at = "sent", !.answer = what, !.latest = v, !.todo = {},
                                !.attempt = 0, !.bring = 0]
<1>1. r \in JobRecords /\ r.at = "sent" /\ r.answer = what /\ r.latest = v
  <2>1. seJob[j] \in JobRecords /\ 0 \in Versions /\ 0 \in 0 .. MaxRetries
    BY SkseAssumption DEF Types, Versions
  <2>. QED
    BY <2>1 DEF JobRecords, Places
<1>2. seJob' = [seJob EXCEPT ![j] = r]
  BY DEF Answer
<1>. HIDE DEF r
<1>. QED
  BY <1>1, <1>2 DEF Types, OthersStay

LEMMA FailGives ==
  ASSUME Types, NEW j \in Jobs, Fail(j)
  PROVE  /\ seJob' \in [Jobs -> JobRecords] /\ OthersStay(j)
         /\ seJob'[j].at = "sent" /\ seJob'[j].answer = "failed"
BY AnswerGives, SkseAssumption DEF Fail, Versions, Answers

\* A step that only moves on, with what it sets besides.
LEMMA GoesOn ==
  ASSUME Types, NEW j \in Jobs, NEW r \in JobRecords, seJob' = [seJob EXCEPT ![j] = r]
  PROVE  seJob' \in [Jobs -> JobRecords] /\ OthersStay(j) /\ seJob'[j] = r
BY DEF Types, OthersStay

LEMMA RecordOf ==
  ASSUME Types, NEW j \in Jobs
  PROVE  seJob[j] \in JobRecords
BY DEF Types

\* The types of everything but the jobs.
LEMMA TypesNext ==
  ASSUME Types, seJob' \in [Jobs -> JobRecords], told' \in Messages, overlapped' \in BOOLEAN,
         server' \in 1 .. MaxVersion, prefix' \in {"none", "bare", "ready"},
         game' \in [SeFiles -> Versions \cup {Torn}], marker' \in Versions,
         archive' \in Versions \cup {Bad}, overrides' \in BOOLEAN, button' \in BOOLEAN
  PROVE  Types'
BY DEF Types, SeTypeOK, JobRecords

-----------------------------------------------------------------------------
LEMMA IdleIsTyped == Idle \in JobRecords /\ Untold \in Messages
BY SkseAssumption DEF Idle, Untold, JobRecords, Messages, Places, Answers, Versions

LEMMA StartsTyped ==
  ASSUME SeInit
  PROVE  Types
<1>1. seJob \in [Jobs -> JobRecords] /\ told \in Messages
  BY IdleIsTyped DEF SeInit
<1>2. game \in [SeFiles -> Versions \cup {Torn}] /\ 0 \in Versions /\ 1 \in 1 .. MaxVersion
  BY SkseAssumption DEF SeInit, Versions
<1>. QED
  BY <1>1, <1>2 DEF SeInit, Types, SeTypeOK, JobRecords

\* The whole of a job's step, seen from the types.
LEMMA JobStepTypes ==
  ASSUME Types, NEW j \in Jobs, JobStep(j)
  PROVE  Types' /\ OthersStay(j) /\ Quiet /\ seJob[j].at # "idle"
<1>. DEFINE r == seJob[j]
<1>0. r \in JobRecords /\ server \in Versions /\ server \in 1 .. MaxVersion /\ 0 \in Versions
  BY SkseAssumption, RecordOf DEF Types, SeTypeOK, Versions
<1>. DEFINE Good == seJob' \in [Jobs -> JobRecords] /\ OthersStay(j)
<1>1. CASE Panics(j)
  <2>1. [r EXCEPT !.at = "lost"] \in JobRecords
    BY <1>0 DEF JobRecords, Places
  <2>2. Good
    BY <1>1, <2>1, GoesOn DEF Panics
  <2>. QED
    BY <1>1, <2>2, TypesNext DEF Panics, Quiet, gameDisk, outside, Types, SeTypeOK
<1>2. CASE CheckVersion(j)
  <2>1. [r EXCEPT !.at = "request", !.latest = server] \in JobRecords
    BY <1>0 DEF JobRecords, Places
  <2>2. marker \in Versions /\ "upToDate" \in Answers
    BY DEF Types, SeTypeOK, Answers
  <2>3. Good
    BY <1>2, <2>1, <2>2, GoesOn, FailGives, AnswerGives DEF CheckVersion
  <2>. QED
    BY <1>2, <2>3, TypesNext DEF CheckVersion, Quiet, gameDisk, outside, Types, SeTypeOK
<1>3. CASE RequestFails(j)
  <2>1. r.attempt < MaxRetries => [r EXCEPT !.attempt = r.attempt + 1] \in JobRecords
    BY <1>0, SkseAssumption DEF JobRecords
  <2>2. Fail(j) \/ (r.attempt < MaxRetries /\ seJob' = [seJob EXCEPT ![j] = [r EXCEPT !.attempt = r.attempt + 1]])
    BY <1>3 DEF RequestFails
  <2>3. Good
    BY <2>1, <2>2, GoesOn, FailGives
  <2>. QED
    BY <1>3, <2>3, TypesNext DEF RequestFails, Quiet, gameDisk, outside, Types, SeTypeOK
<1>4. CASE Downloaded(j)
  <2>1. [r EXCEPT !.at = "format"] \in JobRecords
    BY <1>0 DEF JobRecords, Places
  <2>2. Good
    BY <1>4, <2>1, GoesOn DEF Downloaded
  <2>. QED
    BY <1>0, <1>4, <2>2, TypesNext DEF Downloaded, Quiet, outside, Types, SeTypeOK
<1>5. CASE CheckFormat(j)
  <2>1. [r EXCEPT !.at = "extract"] \in JobRecords
    BY <1>0 DEF JobRecords, Places
  <2>2. Good
    BY <1>5, <2>1, GoesOn, FailGives DEF CheckFormat
  <2>. QED
    BY <1>0, <1>5, <2>2, TypesNext DEF CheckFormat, Quiet, outside, Types, SeTypeOK
<1>6. CASE Extract(j)
  <2>1. archive \notin {Bad, 0} => [r EXCEPT !.at = "move", !.bring = archive, !.todo = SeFiles] \in JobRecords
    BY <1>0 DEF JobRecords, Places, Types, SeTypeOK
  <2>2. Good
    BY <1>6, <2>1, GoesOn, FailGives DEF Extract
  <2>. QED
    BY <1>6, <2>2, TypesNext DEF Extract, Quiet, gameDisk, outside, Types, SeTypeOK
<1>7. CASE MoveEntry(j)
  <2>1. PICK f \in r.todo : /\ game' = [game EXCEPT ![f] = r.bring]
                            /\ seJob' = [seJob EXCEPT ![j] = [r EXCEPT !.todo = r.todo \ {f}]]
    BY <1>7 DEF MoveEntry
  <2>2. [r EXCEPT !.todo = r.todo \ {f}] \in JobRecords /\ r.bring \in Versions
    BY <1>0 DEF JobRecords
  <2>3. Good
    BY <2>1, <2>2, GoesOn
  <2>4. game' \in [SeFiles -> Versions \cup {Torn}]
    BY <2>1, <2>2 DEF Types, SeTypeOK
  <2>. QED
    BY <1>7, <2>3, <2>4, TypesNext DEF MoveEntry, Quiet, outside, Types, SeTypeOK
<1>8. CASE MoveFails(j)
  <2>1. Good
    BY <1>8, FailGives DEF MoveFails
  <2>2. game' \in [SeFiles -> Versions \cup {Torn}]
    BY <1>8 DEF MoveFails, Types, SeTypeOK
  <2>. QED
    BY <1>8, <2>1, <2>2, TypesNext DEF MoveFails, Quiet, outside, Types, SeTypeOK
<1>9. CASE Validate(j)
  <2>1. [r EXCEPT !.at = "reg"] \in JobRecords
    BY <1>0 DEF JobRecords, Places
  <2>2. Good
    BY <1>9, <2>1, GoesOn, FailGives DEF Validate
  <2>. QED
    BY <1>9, <2>2, TypesNext DEF Validate, Quiet, gameDisk, outside, Types, SeTypeOK
<1>10. CASE WriteOverrides(j)
  <2>1. [r EXCEPT !.at = "marker"] \in JobRecords /\ [r EXCEPT !.at = "marker", !.wrote = TRUE] \in JobRecords
    BY <1>0 DEF JobRecords, Places
  <2>2. Good
    BY <1>10, <2>1, GoesOn, FailGives DEF WriteOverrides
  <2>3. overrides' \in BOOLEAN
    BY <1>10 DEF WriteOverrides, Types, SeTypeOK
  <2>. QED
    BY <1>10, <2>2, <2>3, TypesNext DEF WriteOverrides, Quiet, outside, Types, SeTypeOK
<1>11. CASE TruncateMarker(j)
  <2>1. [r EXCEPT !.at = "version"] \in JobRecords
    BY <1>0 DEF JobRecords, Places
  <2>2. Good
    BY <1>11, <2>1, GoesOn, FailGives DEF TruncateMarker
  <2>. QED
    BY <1>0, <1>11, <2>2, TypesNext DEF TruncateMarker, Quiet, outside, Types, SeTypeOK
<1>12. CASE WriteMarker(j)
  <2>1. [r EXCEPT !.at = "clean"] \in JobRecords /\ r.latest \in Versions
    BY <1>0 DEF JobRecords, Places
  <2>2. Good
    BY <1>12, <2>1, GoesOn DEF WriteMarker
  <2>. QED
    BY <1>12, <2>1, <2>2, TypesNext DEF WriteMarker, Quiet, outside, Types, SeTypeOK
<1>13. CASE CleanUp(j)
  <2>1. r.latest \in Versions /\ "installed" \in Answers
    BY <1>0 DEF JobRecords, Answers
  <2>2. Good
    BY <1>13, <2>1, AnswerGives DEF CleanUp
  <2>. QED
    BY <1>0, <1>13, <2>2, TypesNext DEF CleanUp, Quiet, outside, Types, SeTypeOK
<1>. QED
  BY <1>1, <1>2, <1>3, <1>4, <1>5, <1>6, <1>7, <1>8, <1>9, <1>10, <1>11, <1>12, <1>13 DEF JobStep

-----------------------------------------------------------------------------
\* The install that runs alone: the others are idle, before and after its step.
LEMMA AloneStep ==
  ASSUME Types, AloneIsSafe, ~ overlapped, NEW j \in Jobs, seJob[j].at # "idle",
         OthersStay(j), UNCHANGED <<told, overlapped>>,
         MarkerIsSafe', StepInv(j)'
  PROVE  AloneIsSafe'
<1>1. \A i \in Jobs \ {j} : seJob[i].at = "idle" /\ seJob'[i].at = "idle"
  BY DEF AloneIsSafe, AloneInv, Running, OthersStay
<1>2. j \in Running /\ told.what = "nothing" /\ told' = told
  BY DEF AloneIsSafe, AloneInv, Running
<1>3. AloneInv'
  BY <1>1, <1>2 DEF AloneInv, Running
<1>4. \A i \in Jobs : StepInv(i)'
  BY <1>1 DEF StepInv
<1>5. ~ Promises(told'.what)
  BY <1>2 DEF Promises
<1>. QED
  BY <1>3, <1>4, <1>5 DEF AloneIsSafe

\* A step that touches neither the files nor the version file.
LEMMA DiskStays ==
  ASSUME UNCHANGED <<game, marker, server, overlapped>>
  PROVE  /\ MarkerIsSafe => MarkerIsSafe'
         /\ \A v : Holds(v)' = Holds(v) /\ Kept(v)' = Kept(v)
BY DEF MarkerIsSafe, Holds, Kept

LEMMA FailIsSafe ==
  ASSUME Types, NEW j \in Jobs, Fail(j)
  PROVE  StepInv(j)'
BY FailGives DEF StepInv, Promises

\* What the files hold, they hold for every older release too.
LEMMA HoldsOlder ==
  ASSUME Types, NEW v \in Versions, NEW w \in Versions, w <= v, Holds(v)
  PROVE  Holds(w)
<1>1. ASSUME NEW f \in SeFiles PROVE game[f] # Torn /\ game[f] >= w
  BY <1>1, SkseAssumption DEF Types, SeTypeOK, Holds, Versions
<1>. QED
  BY <1>1 DEF Holds

LEMMA JobStepSafe ==
  ASSUME Types, AloneIsSafe, NEW j \in Jobs, JobStep(j)
  PROVE  AloneIsSafe'
<1>. DEFINE r == seJob[j]
<1>0. Types' /\ OthersStay(j) /\ Quiet /\ r.at # "idle"
  BY JobStepTypes
<1>. SUFFICES ASSUME ~ overlapped
              PROVE  AloneIsSafe'
  BY <1>0 DEF AloneIsSafe, Quiet, outside
<1>a. StepInv(j) /\ MarkerIsSafe
  BY DEF AloneIsSafe
<1>b. UNCHANGED <<told, overlapped, server>>
  BY <1>0 DEF Quiet, outside
<1>c. r \in JobRecords /\ server \in Nat /\ marker \in Nat /\ r.latest \in Nat
  BY SkseAssumption, RecordOf DEF Types, SeTypeOK, JobRecords, Versions
<1>. DEFINE Safe == MarkerIsSafe' /\ StepInv(j)'
<1>1. CASE Panics(j)
  <2>1. seJob'[j].at = "lost"
    BY <1>1 DEF Panics, Types
  <2>. QED
    BY <1>0, <1>1, <1>a, <1>b, <2>1, DiskStays, AloneStep DEF Panics, gameDisk, StepInv
<1>2. CASE CheckVersion(j)
  <2>0. MarkerIsSafe'
    BY <1>2, <1>a, <1>b, DiskStays DEF CheckVersion, gameDisk
  <2>1. CASE Fail(j)
    BY <1>0, <1>b, <2>0, <2>1, FailIsSafe, AloneStep
  <2>2. CASE marker >= server /\ Answer(j, "upToDate", marker)
    <3>1. seJob'[j].at = "sent" /\ seJob'[j].latest = marker
      BY <2>2, AnswerGives DEF Types, SeTypeOK, Answers
    <3>2. Holds(marker)
      BY <1>a, <1>c, <2>2 DEF MarkerIsSafe, Types, SeTypeOK
    <3>3. Kept(marker)'
      BY <1>2, <1>b, <3>2 DEF CheckVersion, gameDisk, Kept, Holds
    <3>4. StepInv(j)'
      BY <1>2, <1>b, <3>1, <3>3 DEF StepInv, CheckVersion, gameDisk, Kept, Holds
    <3>. QED
      BY <1>0, <1>b, <2>0, <3>4, AloneStep
  <2>3. CASE marker < server /\ seJob' = [seJob EXCEPT ![j] = [@ EXCEPT !.at = "request", !.latest = server]]
    <3>1. seJob'[j].at = "request" /\ seJob'[j].latest = server
      BY <1>c, <2>3 DEF Types, JobRecords
    <3>2. StepInv(j)'
      BY <1>2, <1>b, <1>c, <2>3, <3>1 DEF StepInv, CheckVersion, gameDisk
    <3>. QED
      BY <1>0, <1>b, <2>0, <3>2, AloneStep
  <2>. QED
    BY <1>2, <2>1, <2>2, <2>3 DEF CheckVersion
<1>3. CASE RequestFails(j)
  <2>0. MarkerIsSafe'
    BY <1>3, <1>a, <1>b, DiskStays DEF RequestFails, gameDisk
  <2>1. CASE Fail(j)
    BY <1>0, <1>b, <2>0, <2>1, FailIsSafe, AloneStep
  <2>2. CASE seJob' = [seJob EXCEPT ![j].attempt = @ + 1]
    <3>1. r.at = "request" /\ seJob'[j].at = r.at /\ seJob'[j].latest = r.latest
      BY <1>3, <1>c, <2>2 DEF RequestFails, Types, JobRecords
    <3>2. StepInv(j)'
      BY <1>3, <1>a, <1>b, <3>1 DEF StepInv, RequestFails, gameDisk
    <3>. QED
      BY <1>0, <1>b, <2>0, <3>2, AloneStep
  <2>. QED
    BY <1>3, <2>1, <2>2 DEF RequestFails
<1>4. CASE Downloaded(j)
  <2>0. MarkerIsSafe'
    BY <1>4, <1>a, <1>b, DiskStays DEF Downloaded
  <2>1. r.at = "request" /\ seJob'[j].at = "format" /\ seJob'[j].latest = r.latest
    BY <1>4, <1>c DEF Downloaded, Types, JobRecords
  <2>2. StepInv(j)'
    BY <1>4, <1>a, <1>b, <1>c, <2>1 DEF StepInv, Downloaded
  <2>. QED
    BY <1>0, <1>b, <2>0, <2>2, AloneStep
<1>5. CASE CheckFormat(j)
  <2>0. MarkerIsSafe'
    BY <1>5, <1>a, <1>b, DiskStays DEF CheckFormat
  <2>1. CASE Fail(j)
    BY <1>0, <1>b, <2>0, <2>1, FailIsSafe, AloneStep
  <2>2. CASE seJob' = [seJob EXCEPT ![j] = [@ EXCEPT !.at = "extract"]] /\ UNCHANGED archive
    <3>1. r.at = "format" /\ seJob'[j].at = "extract" /\ seJob'[j].latest = r.latest
      BY <1>5, <1>c, <2>2 DEF CheckFormat, Types, JobRecords
    <3>2. StepInv(j)'
      BY <1>5, <1>a, <1>b, <2>2, <3>1 DEF StepInv, CheckFormat
    <3>. QED
      BY <1>0, <1>b, <2>0, <3>2, AloneStep
  <2>. QED
    BY <1>5, <2>1, <2>2 DEF CheckFormat
<1>6. CASE Extract(j)
  <2>0. MarkerIsSafe'
    BY <1>6, <1>a, <1>b, DiskStays DEF Extract, gameDisk
  <2>1. CASE Fail(j)
    BY <1>0, <1>b, <2>0, <2>1, FailIsSafe, AloneStep
  <2>2. CASE /\ archive \notin {Bad, 0}
             /\ seJob' = [seJob EXCEPT ![j] = [@ EXCEPT !.at = "move", !.bring = archive, !.todo = SeFiles]]
    <3>1. r.at = "extract" /\ seJob'[j].at = "move" /\ seJob'[j].latest = r.latest
          /\ seJob'[j].bring = archive /\ seJob'[j].todo = SeFiles
      BY <1>6, <1>c, <2>2 DEF Extract, Types, JobRecords
    <3>2. StepInv(j)'
      BY <1>6, <1>a, <1>b, <2>2, <3>1 DEF StepInv, Extract, gameDisk
    <3>. QED
      BY <1>0, <1>b, <2>0, <3>2, AloneStep
  <2>. QED
    BY <1>6, <2>1, <2>2 DEF Extract
<1>7. CASE MoveEntry(j)
  <2>1. PICK f \in r.todo : /\ game' = [game EXCEPT ![f] = r.bring]
                            /\ seJob' = [seJob EXCEPT ![j].todo = @ \ {f}]
    BY <1>7 DEF MoveEntry
  <2>2. r.at = "move" /\ seJob'[j].at = "move" /\ seJob'[j].latest = r.latest
        /\ seJob'[j].bring = r.bring /\ seJob'[j].todo = r.todo \ {f}
    BY <1>7, <1>c, <2>1 DEF MoveEntry, Types, JobRecords
  <2>3. \A g \in SeFiles \ (r.todo \ {f}) : game'[g] = r.bring
    BY <1>a, <2>1, <2>2 DEF StepInv, Types, SeTypeOK
  <2>4. StepInv(j)'
    BY <1>7, <1>a, <1>b, <2>2, <2>3 DEF StepInv, MoveEntry
  <2>5. MarkerIsSafe'
    BY <1>7, <1>a, <1>b, <2>2 DEF StepInv, MarkerIsSafe, MoveEntry
  <2>. QED
    BY <1>0, <1>b, <2>4, <2>5, AloneStep
<1>8. CASE MoveFails(j)
  <2>1. MarkerIsSafe'
    BY <1>8, <1>a, <1>b DEF StepInv, MarkerIsSafe, MoveFails
  <2>. QED
    BY <1>0, <1>8, <1>b, <2>1, FailIsSafe, AloneStep DEF MoveFails
<1>9. CASE Validate(j)
  <2>0. MarkerIsSafe'
    BY <1>9, <1>a, <1>b, DiskStays DEF Validate, gameDisk
  <2>1. CASE Fail(j)
    BY <1>0, <1>b, <2>0, <2>1, FailIsSafe, AloneStep
  <2>2. CASE seJob' = [seJob EXCEPT ![j] = [@ EXCEPT !.at = "reg"]]
    <3>1. r.at = "move" /\ r.todo = {} /\ seJob'[j].at = "reg" /\ seJob'[j].latest = r.latest
      BY <1>9, <1>c, <2>2 DEF Validate, Types, JobRecords
    <3>2. Holds(r.latest)
      <4>1. r.bring \in Nat /\ r.bring >= r.latest /\ \A f \in SeFiles : game[f] = r.bring
        BY <1>a, <1>c, <3>1, SkseAssumption DEF StepInv, JobRecords, Versions
      <4>. QED
        BY <4>1, SkseAssumption DEF Holds
    <3>3. \A f \in SeFiles : game'[f] # Torn /\ game'[f] >= r.latest
      BY <1>9, <3>2 DEF Validate, gameDisk, Holds
    <3>4. StepInv(j)'
      BY <1>9, <1>a, <1>b, <3>1, <3>3 DEF StepInv, Validate, gameDisk, Holds
    <3>. QED
      BY <1>0, <1>b, <2>0, <3>4, AloneStep
  <2>. QED
    BY <1>9, <2>1, <2>2 DEF Validate
<1>10. CASE WriteOverrides(j)
  <2>0. MarkerIsSafe'
    BY <1>10, <1>a, <1>b, DiskStays DEF WriteOverrides
  <2>1. CASE Fail(j)
    BY <1>0, <1>b, <2>0, <2>1, FailIsSafe, AloneStep
  <2>2. CASE ~ Fail(j)
    <3>1. r.at = "reg" /\ seJob'[j].at = "marker" /\ seJob'[j].latest = r.latest
      BY <1>10, <1>c, <2>2 DEF WriteOverrides, Types, JobRecords
    <3>2. StepInv(j)'
      BY <1>10, <1>a, <1>b, <3>1 DEF StepInv, WriteOverrides, Holds
    <3>. QED
      BY <1>0, <1>b, <2>0, <3>2, AloneStep
  <2>. QED
    BY <2>1, <2>2
<1>11. CASE TruncateMarker(j)
  <2>0. MarkerIsSafe'
    BY <1>11 DEF TruncateMarker, MarkerIsSafe
  <2>1. CASE Fail(j)
    BY <1>0, <1>b, <2>0, <2>1, FailIsSafe, AloneStep
  <2>2. CASE seJob' = [seJob EXCEPT ![j] = [@ EXCEPT !.at = "version"]]
    <3>1. r.at = "marker" /\ seJob'[j].at = "version" /\ seJob'[j].latest = r.latest
      BY <1>11, <1>c, <2>2 DEF TruncateMarker, Types, JobRecords
    <3>2. StepInv(j)'
      BY <1>11, <1>a, <1>b, <3>1 DEF StepInv, TruncateMarker, Holds
    <3>. QED
      BY <1>0, <1>b, <2>0, <3>2, AloneStep
  <2>. QED
    BY <1>11, <2>1, <2>2 DEF TruncateMarker
<1>12. CASE WriteMarker(j)
  <2>1. r.at = "version" /\ seJob'[j].at = "clean" /\ seJob'[j].latest = r.latest
    BY <1>12, <1>c DEF WriteMarker, Types, JobRecords
  <2>2. StepInv(j)'
    BY <1>12, <1>a, <1>b, <2>1 DEF StepInv, WriteMarker, Holds
  <2>3. MarkerIsSafe'
    BY <1>12, <1>a, <1>b, <2>1 DEF StepInv, MarkerIsSafe, WriteMarker, Holds
  <2>. QED
    BY <1>0, <1>b, <2>2, <2>3, AloneStep
<1>13. CASE CleanUp(j)
  <2>1. r.at = "clean" /\ seJob'[j].at = "sent" /\ seJob'[j].latest = r.latest
    BY <1>13, <1>c, AnswerGives, SkseAssumption DEF CleanUp, Types, Answers, JobRecords
  <2>2. StepInv(j)'
    BY <1>13, <1>a, <1>b, <2>1 DEF StepInv, CleanUp, Holds, Kept
  <2>3. MarkerIsSafe'
    BY <1>13, <1>a, <1>b, DiskStays DEF CleanUp
  <2>. QED
    BY <1>0, <1>b, <2>2, <2>3, AloneStep
<1>. QED
  BY <1>1, <1>2, <1>3, <1>4, <1>5, <1>6, <1>7, <1>8, <1>9, <1>10, <1>11, <1>12, <1>13 DEF JobStep

-----------------------------------------------------------------------------
\* A click starts an install: alone, and with the last message gone, or the two
\* overlap.
LEMMA PressKeeps ==
  ASSUME Types, AloneIsSafe, NEW j \in Jobs, Press(j)
  PROVE  Types' /\ AloneIsSafe'
<1>1. [Idle EXCEPT !.at = "check"] \in JobRecords /\ [Idle EXCEPT !.at = "check"].at = "check"
  BY IdleIsTyped DEF JobRecords, Places
<1>2. seJob' \in [Jobs -> JobRecords] /\ OthersStay(j) /\ seJob'[j].at = "check"
  BY <1>1, GoesOn DEF Press
<1>3. Types'
  BY <1>2, IdleIsTyped, TypesNext DEF Press, gameDisk, Types, SeTypeOK
<1>4. ASSUME ~ overlapped' PROVE AloneIsSafe'
  <2>1. Running = {} /\ ~ overlapped
    BY <1>4 DEF Press
  <2>2. Running' = {j}
    BY <1>2, <2>1 DEF Running, OthersStay
  <2>3. told' = Untold /\ Untold.what = "nothing"
    BY DEF Press, Untold
  <2>4. AloneInv' /\ ~ Promises(told'.what)
    BY <2>2, <2>3 DEF AloneInv, Promises
  <2>5. MarkerIsSafe'
    BY <2>1, DiskStays DEF Press, gameDisk, AloneIsSafe, MarkerIsSafe, Holds
  <2>6. \A i \in Jobs : StepInv(i)'
    BY <1>2, <2>1 DEF StepInv, Running, OthersStay
  <2>. QED
    BY <2>4, <2>5, <2>6 DEF AloneIsSafe
<1>. QED
  BY <1>3, <1>4 DEF AloneIsSafe

LEMMA PollKeeps ==
  ASSUME Types, AloneIsSafe, NEW j \in Jobs, Poll(j)
  PROVE  Types' /\ AloneIsSafe'
<1>1. seJob' \in [Jobs -> JobRecords] /\ OthersStay(j) /\ seJob'[j].at = "idle"
  BY IdleIsTyped, GoesOn DEF Poll, Idle
<1>2. Result(j) \in Messages
  BY RecordOf DEF Result, Types, Messages, JobRecords
<1>3. Types'
  BY <1>1, <1>2, TypesNext DEF Poll, gameDisk, outside, Types, SeTypeOK
<1>4. ASSUME ~ overlapped PROVE AloneIsSafe'
  <2>1. \A i \in Jobs \ {j} : seJob[i].at = "idle" /\ seJob'[i].at = "idle"
    BY <1>1, <1>4 DEF AloneIsSafe, AloneInv, Running, OthersStay, Poll
  <2>2. Running' = {} /\ j \in Running
    BY <1>1, <2>1 DEF Running, Poll
  <2>3. AloneInv' /\ \A i \in Jobs : StepInv(i)'
    BY <1>1, <2>1, <2>2 DEF AloneInv, StepInv
  <2>4. MarkerIsSafe'
    BY <1>4, DiskStays DEF Poll, gameDisk, outside, AloneIsSafe
  <2>5. Promises(told'.what) => Kept(told'.version)
    <3>1. CASE seJob[j].at = "lost"
      BY <1>4, <2>2, <3>1 DEF Poll, Result, AloneIsSafe, AloneInv, Promises
    <3>2. CASE seJob[j].at = "sent"
      BY <1>4, <3>2 DEF Poll, Result, AloneIsSafe, StepInv
    <3>. QED
      BY <3>1, <3>2 DEF Poll
  <2>6. Promises(told'.what) => Kept(told.version)'
    BY <2>5 DEF Poll, gameDisk, Kept, Holds
  <2>. QED
    BY <2>3, <2>4, <2>6 DEF AloneIsSafe
<1>. QED
  BY <1>3, <1>4 DEF AloneIsSafe, Poll, outside

\* What happens beside the installs; a release only makes more version files old.
LEMMA BesideKeeps ==
  ASSUME Types, AloneIsSafe, UNCHANGED <<game, marker, archive, overrides, seJob, told, overlapped>>,
         server' \in 1 .. MaxVersion, server' >= server, prefix' \in {"none", "bare", "ready"},
         button' \in BOOLEAN
  PROVE  Types' /\ AloneIsSafe'
<1>1. Types'
  BY TypesNext DEF Types, SeTypeOK
<1>2. ASSUME ~ overlapped PROVE AloneIsSafe'
  <2>0. server \in Nat /\ server' \in Nat /\ marker \in Nat
    BY SkseAssumption DEF Types, SeTypeOK, Versions
  <2>1. AloneInv' /\ (Promises(told.what)' => Kept(told.version)')
    BY <1>2 DEF AloneIsSafe, AloneInv, Running, Promises, Kept, Holds
  <2>2. MarkerIsSafe'
    BY <1>2, <2>0 DEF AloneIsSafe, MarkerIsSafe, Holds
  <2>3. ASSUME NEW i \in Jobs PROVE StepInv(i)'
    <3>1. StepInv(i) /\ seJob[i].latest \in Nat
      BY <1>2, RecordOf, SkseAssumption DEF AloneIsSafe, JobRecords, Versions
    <3>. QED
      BY <2>0, <3>1 DEF StepInv, Holds, Kept, Promises
  <2>. QED
    BY <2>1, <2>2, <2>3 DEF AloneIsSafe
<1>. QED
  BY <1>1, <1>2 DEF AloneIsSafe

LEMMA DeliverStateKeeps ==
  ASSUME Types, AloneIsSafe, DeliverState
  PROVE  Types' /\ AloneIsSafe'
<1>1. server' \in 1 .. MaxVersion /\ server' >= server
  BY SkseAssumption DEF DeliverState, outside, Types, SeTypeOK
<1>. QED
  BY <1>1, BesideKeeps DEF DeliverState, gameDisk, outside, Types, SeTypeOK

LEMMA ReleaseKeeps ==
  ASSUME Types, AloneIsSafe, Release
  PROVE  Types' /\ AloneIsSafe'
<1>1. server' \in 1 .. MaxVersion /\ server' >= server
  BY SkseAssumption DEF Release, Types, SeTypeOK
<1>. QED
  BY <1>1, BesideKeeps DEF Release, gameDisk, Types, SeTypeOK

LEMMA MakePrefixKeeps ==
  ASSUME Types, AloneIsSafe, MakePrefix
  PROVE  Types' /\ AloneIsSafe'
<1>1. server' \in 1 .. MaxVersion /\ server' >= server
  BY SkseAssumption DEF MakePrefix, Types, SeTypeOK
<1>. QED
  BY <1>1, BesideKeeps DEF MakePrefix, gameDisk, Types, SeTypeOK

\* A stop leaves half a file only of an install that was moving entries: its
\* version file is older than the newest release.
LEMMA CrashKeeps ==
  ASSUME Types, AloneIsSafe, SeCrash
  PROVE  Types' /\ AloneIsSafe'
<1>1. PICK half \in [Jobs -> UNION {Halves(j) : j \in Jobs}] :
        /\ \A j \in Jobs : half[j] \in Halves(j)
        /\ game' = [f \in SeFiles |-> IF \E j \in Jobs : f \in half[j] THEN Torn ELSE game[f]]
  BY DEF SeCrash
<1>2. seJob' \in [Jobs -> JobRecords] /\ \A i \in Jobs : seJob'[i].at = "idle"
  BY IdleIsTyped DEF SeCrash, Idle
<1>3. game' \in [SeFiles -> Versions \cup {Torn}]
  BY <1>1 DEF Types, SeTypeOK
<1>4. Types'
  BY <1>2, <1>3, IdleIsTyped, TypesNext DEF SeCrash, Types, SeTypeOK
<1>5. ASSUME ~ overlapped PROVE AloneIsSafe'
  <2>1. AloneInv' /\ \A i \in Jobs : StepInv(i)'
    BY <1>2 DEF AloneInv, StepInv, Running
  <2>2. ~ Promises(told'.what)
    BY DEF SeCrash, Untold, Promises
  <2>3. MarkerIsSafe'
    <3>1. CASE \E j \in Jobs : seJob[j].at = "move"
      BY <1>5, <3>1 DEF AloneIsSafe, StepInv, SeCrash, MarkerIsSafe
    <3>2. CASE \A j \in Jobs : seJob[j].at # "move"
      <4>1. \A j \in Jobs : half[j] = {}
        BY <1>1, <3>2 DEF Halves
      <4>2. \A f \in SeFiles : game'[f] = game[f]
        BY <1>1, <4>1
      <4>. QED
        BY <1>5, <4>2 DEF AloneIsSafe, SeCrash, MarkerIsSafe, Holds
    <3>. QED
      BY <3>1, <3>2
  <2>. QED
    BY <2>1, <2>2, <2>3 DEF AloneIsSafe
<1>. QED
  BY <1>4, <1>5 DEF AloneIsSafe, SeCrash

-----------------------------------------------------------------------------
LEMMA StartsSafe ==
  ASSUME SeInit
  PROVE  AloneIsSafe
<1>1. \A j \in Jobs : seJob[j].at = "idle" /\ StepInv(j)
  BY DEF SeInit, Idle, StepInv
<1>2. Running = {} /\ marker = 0 /\ ~ Promises(told.what)
  BY <1>1 DEF SeInit, Running, Untold, Promises
<1>. QED
  BY <1>1, <1>2 DEF AloneIsSafe, AloneInv, MarkerIsSafe

LEMMA SkseInvariant == SeSpec => []SkseInv
<1>1. SeInit => SkseInv
  BY StartsTyped, StartsSafe DEF SkseInv
<1>2. SkseInv /\ [SeNext]_seVars => SkseInv'
  <2>. SUFFICES ASSUME Types, AloneIsSafe, [SeNext]_seVars
                PROVE  Types' /\ AloneIsSafe'
    BY DEF SkseInv
  <2>1. ASSUME NEW j \in Jobs, Press(j) \/ JobStep(j) \/ Poll(j)
        PROVE  Types' /\ AloneIsSafe'
    BY <2>1, PressKeeps, JobStepTypes, JobStepSafe, PollKeeps
  <2>2. CASE DeliverState \/ Release \/ MakePrefix \/ SeCrash
    BY <2>2, DeliverStateKeeps, ReleaseKeeps, MakePrefixKeeps, CrashKeeps
  <2>3. CASE UNCHANGED seVars
    <3>1. server' \in 1 .. MaxVersion /\ server' >= server
      BY <2>3, SkseAssumption DEF seVars, Types, SeTypeOK
    <3>. QED
      BY <2>3, <3>1, BesideKeeps DEF seVars, Types, SeTypeOK
  <2>. QED
    BY <2>1, <2>2, <2>3 DEF SeNext
<1>. QED
  BY <1>1, <1>2, PTL DEF SeSpec

\* The message that a version is installed or up to date, and the version file,
\* promise no file that is not in Data, where the button has install_skse put them,
\* or is older, for any number of releases, files, retries, clicks and threads:
\* whatever fails or stops, and unless a reload has let two installs run at a time.
\* Whether the game can use what lies in Data is not said.
THEOREM VersionsAreTrue == SeSpec => []VersionsTrue
<1>1. SkseInv => VersionsTrue
  BY DEF SkseInv, Types, AloneIsSafe, VersionsTrue, ToldIsTrue, MarkerIsSafe, Promises, Kept
<1>. QED
  BY <1>1, SkseInvariant, PTL

(***************************************************************************)
(* Settings and Search.  SettingsInv is inductive: it adds to the          *)
(* properties what they need between two steps of a handler, namely what   *)
(* is still to be saved (HandlerInv), that every copy of the settings holds *)
(* chosen values (RowsInv) and, for a build with a secret store, that no    *)
(* copy can take the key away (KeyInv).  FoundInv ties every request and    *)
(* every message on its way to the mod it was meant for (RequestsInv), and  *)
(* to the game of the last search as long as none has overtaken (PlaceInv). *)
(***************************************************************************)
Saves ==
  [why : {"nothing", "move", "clear", "theme", "path", "key", "rest"}, what : AllSettings]

\* The settings, and what a handler has still to do with them.
SettingsTypes == SettingsTypeOK /\ running \in BOOLEAN /\ todo \in Saves

HandlerInv ==
  /\ todo.why = "nothing" => todo = NoSave
  /\ ~ running => todo = NoSave /\ dialog = Unset
  /\ todo.why \in {"move", "clear"} =>
       dialog \in AllSettings /\ dialog.legacy # Unset /\ todo.what.legacy = Unset
  /\ todo.why \in {"path", "key", "rest"} => dialog # Unset /\ todo.what = dialog
  /\ todo.why = "theme" =>
       applied = todo.what.theme /\ (dialog # Unset => todo.what = dialog)

\* The other rows hold values the user has chosen, wherever they are held.
Expected(s) == s.theme \in chosen.theme /\ s.path \in chosen.path

RowsInv ==
  /\ Expected(Loaded)
  /\ todo.why # "nothing" => Expected(todo.what)
  /\ dialog # Unset => Expected(dialog)
  /\ LooksAsSaved

\* The key of these settings may be met, or the secret store has one.
Held(s) == s.legacy \in chosen.key \/ (s.legacy = Unset /\ keyring # Unset)

KeyInv ==
  /\ keyring # Unset => keyring \in chosen.key
  /\ Held(Loaded)
  /\ dialog # Unset => Held(dialog)
  /\ todo.why \notin {"nothing", "move"} => Held(todo.what)
  /\ todo.why = "key" => keyring # Unset /\ todo.what.legacy = Unset

SettingsInv == SettingsTypes /\ HandlerInv /\ RowsInv /\ KeyInv

-----------------------------------------------------------------------------
FoundMods == [id : Numbers, game : Games \cup {Unset}]
Requests ==
  [for : {"results", "files", "links", "error"}, asked : FoundMods, of : FoundMods]

Searches == [results : FoundMods, domain : Games, key : Keys \cup {Unset}, mod : FoundMods]
FoundPages == [rows : FoundMods, files : FoundMods, shown : BOOLEAN, spinner : BOOLEAN]

FoundTypes ==
  /\ search \in Searches /\ page \in FoundPages
  /\ threads \subseteq Requests /\ channel \in Seq(Requests)
  /\ crossed \in BOOLEAN /\ searches \in Numbers

\* Of the game of the last search, unless that has overtaken answers of another.
Own(mod) == crossed \/ mod.game = search.domain

\* What a request asks for has the id that was meant.
Matches(r) == r.asked.id = r.of.id /\ Own(r.asked) /\ Own(r.of)

RequestsInv ==
  /\ \A r \in threads : Matches(r)
  /\ \A i \in DOMAIN channel : Matches(channel[i])

PlaceInv ==
  /\ page.rows # NoMod => Own(page.rows)
  /\ search.mod # NoMod => Own(search.mod)

FoundInv ==
  /\ FoundTypes /\ RowsAreResults /\ FilesAreOfMod /\ RequestsInv /\ PlaceInv
  /\ QueuedIsMods

-----------------------------------------------------------------------------
\* What the file holds, or stands for, is a record of settings.
LEMMA DefaultsAreSettings ==
  Default \in AllSettings /\ NoSave \in Saves
BY DEF Default, NoSave, Saves, AllSettings, Themes, DialogThemes

LEMMA LoadedIsSettings ==
  ASSUME SettingsTypes
  PROVE  Loaded \in AllSettings /\ ApiKey \in Keys \cup {Unset}
<1>1. Loaded \in AllSettings
  BY DefaultsAreSettings DEF SettingsTypes, SettingsTypeOK, Loaded
<1>2. QED
  BY <1>1 DEF SettingsTypes, SettingsTypeOK, ApiKey, AllSettings

Choices ==
  [theme : SUBSET Themes, path : SUBSET (Paths \cup {Unset}), key : SUBSET (Keys \cup {Unset})]

\* A choice adds a value to one row.
LEMMA ThemeIsChosen ==
  ASSUME chosen \in Choices, NEW t \in Themes, Choose("theme", t)
  PROVE  /\ chosen' \in Choices /\ chosen'.theme = chosen.theme \cup {t}
         /\ chosen'.path = chosen.path /\ chosen'.key = chosen.key
BY DEF Choose, Choices

LEMMA PathIsChosen ==
  ASSUME chosen \in Choices, NEW p \in Paths \cup {Unset}, Choose("path", p)
  PROVE  /\ chosen' \in Choices /\ chosen'.path = chosen.path \cup {p}
         /\ chosen'.theme = chosen.theme /\ chosen'.key = chosen.key
BY DEF Choose, Choices

LEMMA NoKeyIsChosen ==
  ASSUME chosen \in Choices, Choose("key", Unset)
  PROVE  /\ chosen' \in Choices /\ chosen'.key = chosen.key \cup {Unset}
         /\ chosen'.theme = chosen.theme /\ chosen'.path = chosen.path
BY DEF Choose, Choices

\* What a save leaves of the choices.
LEMMA SaveSettles ==
  ASSUME SettingsTypes, Saved
  PROVE  /\ chosen' \in Choices
         /\ chosen'.theme = (IF todo.why = "theme" THEN {todo.what.theme} ELSE chosen.theme)
         /\ chosen'.path = (IF todo.why = "path" THEN {todo.what.path} ELSE chosen.path)
         /\ chosen'.key = (IF todo.why = "key" THEN {keyring} ELSE chosen.key)
<1>1. DOMAIN chosen = {"theme", "path", "key"} /\ chosen \in Choices
  BY DEF SettingsTypes, SettingsTypeOK, Choices
<1>2. todo.what \in AllSettings /\ keyring \in Keys \cup {Unset}
  BY DEF SettingsTypes, SettingsTypeOK
<1>3. /\ chosen'.theme = (IF todo.why = "theme" THEN {todo.what.theme} ELSE chosen.theme)
      /\ chosen'.path = (IF todo.why = "path" THEN {todo.what.path} ELSE chosen.path)
      /\ chosen'.key = (IF todo.why = "key" THEN {keyring} ELSE chosen.key)
      /\ chosen' = [row \in {"theme", "path", "key"} |-> chosen'[row]]
  BY <1>1 DEF Saved
<1>4. /\ chosen'.theme \subseteq Themes /\ chosen'.path \subseteq Paths \cup {Unset}
      /\ chosen'.key \subseteq Keys \cup {Unset}
  BY <1>1, <1>2, <1>3 DEF Choices, AllSettings
<1>. QED
  BY <1>3, <1>4 DEF Choices

\* One lemma per step of a handler of the dialog and of the theme page.
LEMMA StartKeeps ==
  ASSUME SettingsInv, Start
  PROVE  SettingsInv'
<1> USE DEF SettingsInv
<1>1. SettingsTypes'
  BY DefaultsAreSettings, LoadedIsSettings
    DEF Start, SettingsTypes, SettingsTypeOK, Default, AllSettings, Look
<1>2. HandlerInv'
  BY DEF Start, HandlerInv, NoSave
<1>3. RowsInv'
  BY DEF Start, RowsInv, Expected, Loaded, LooksAsSaved, Look
<1>4. KeyInv'
  BY DEF Start, KeyInv, Held, Loaded
<1>. QED BY <1>1, <1>2, <1>3, <1>4

LEMMA QuitKeeps ==
  ASSUME SettingsInv, Quit
  PROVE  SettingsInv'
<1> USE DEF SettingsInv
<1>1. SettingsTypes'
  BY DefaultsAreSettings DEF Quit, SettingsTypeOK, SettingsTypes, Saves
<1>2. HandlerInv'
  BY DEF Quit, HandlerInv, NoSave
<1>3. RowsInv'
  BY DEF Quit, RowsInv, Expected, Loaded, LooksAsSaved, NoSave
<1>4. KeyInv'
  BY DEF Quit, KeyInv, Held, Loaded, NoSave
<1>. QED BY <1>1, <1>2, <1>3, <1>4

LEMMA OpenDialogKeeps ==
  ASSUME SettingsInv, OpenDialog
  PROVE  SettingsInv'
<1> USE DEF SettingsInv
<1>1. SettingsTypes'
  BY SettingsAssumption, LoadedIsSettings
    DEF OpenDialog, User, Save, SettingsTypes, SettingsTypeOK, Saves, AllSettings
<1>2. HandlerInv'
  BY LoadedIsSettings DEF OpenDialog, User, Free, Save, HandlerInv, NoSave, AllSettings
<1>3. RowsInv'
  BY LoadedIsSettings
    DEF OpenDialog, User, Free, Save, RowsInv, Expected, Loaded, LooksAsSaved, Look,
        AllSettings
<1>4. KeyInv'
  BY LoadedIsSettings
    DEF OpenDialog, User, Free, Save, KeyInv, Held, Loaded, AllSettings, NoSave
<1>. QED BY <1>1, <1>2, <1>3, <1>4

LEMMA MoveKeyKeeps ==
  ASSUME SettingsInv, MoveKey
  PROVE  SettingsInv'
<1> USE DEF SettingsInv
<1>1. /\ dialog \in AllSettings /\ dialog.legacy # Unset /\ todo.what.legacy = Unset
      /\ todo \in Saves /\ todo.why = "move" /\ dialog # Unset
  BY FileAssumption DEF MoveKey, HandlerInv, SettingsTypes
<1>2. dialog.legacy \in Keys \cup {Unset} /\ [dialog EXCEPT !.legacy = Unset] \in AllSettings
      /\ [dialog EXCEPT !.legacy = Unset].theme = dialog.theme
      /\ [dialog EXCEPT !.legacy = Unset].path = dialog.path
  BY <1>1 DEF AllSettings
<1>. DEFINE next == [todo EXCEPT !.why = "clear"]
<1>3. next \in Saves /\ next.why = "clear" /\ next.what = todo.what
  BY <1>1 DEF Saves
<1>. HIDE DEF next
<1>4. /\ UNCHANGED <<file, themes, themeRows, running, applied, dialog, chosen, acts>>
      /\ \/ keyring' = dialog.legacy /\ todo' = next
         \/ todo' = NoSave /\ UNCHANGED keyring
  BY DEF MoveKey, next
<1>5. Loaded' = Loaded
  BY <1>4 DEF Loaded
<1>6. SettingsTypes'
  BY <1>2, <1>3, <1>4, DefaultsAreSettings DEF SettingsTypeOK, SettingsTypes, Saves
<1>7. HandlerInv'
  BY <1>1, <1>3, <1>4 DEF HandlerInv, NoSave
<1>8. RowsInv'
  <2>1. /\ Expected(Loaded) /\ Expected(todo.what) /\ Expected(dialog)
        /\ chosen' = chosen
    BY <1>1, <1>4 DEF RowsInv
  <2>2. LooksAsSaved'
    BY <1>4 DEF RowsInv, LooksAsSaved, Look
  <2>3. Expected(Loaded)'
    BY <1>5, <2>1 DEF Expected
  <2>4. todo'.why # "nothing" => Expected(todo.what)'
    BY <1>3, <1>4, <2>1 DEF Expected, NoSave
  <2>5. dialog' # Unset => Expected(dialog)'
    BY <1>2, <1>4, <2>1 DEF Expected
  <2>. QED
    BY <2>2, <2>3, <2>4, <2>5 DEF RowsInv
<1>9. KeyInv'
  BY <1>1, <1>2, <1>3, <1>4, <1>5 DEF KeyInv, Held, NoSave
<1>. QED BY <1>6, <1>7, <1>8, <1>9

LEMMA SavedKeeps ==
  ASSUME SettingsInv, Saved
  PROVE  SettingsInv'
<1> USE DEF SettingsInv
<1>1. /\ todo.what \in AllSettings /\ file' = todo.what /\ todo' = NoSave
      /\ todo.why \in {"clear", "theme", "path", "key", "rest"}
      /\ UNCHANGED <<keyring, themes, themeRows, running, applied, acts>>
  BY DEF Saved, Saving, SettingsTypes, Saves
<1>2. Loaded' = todo.what
  BY <1>1, FileAssumption DEF Loaded
<1>3. NoSave.why = "nothing" /\ NoSave \in Saves
  BY DefaultsAreSettings DEF NoSave
<1>4. /\ dialog' # Unset => dialog # Unset /\ dialog' \in AllSettings
      /\ dialog' # Unset =>
           /\ dialog'.theme = dialog.theme /\ dialog'.path = dialog.path
           /\ dialog'.legacy = IF todo.why = "clear" THEN Unset ELSE dialog.legacy
      /\ dialog' = Unset <=> dialog = Unset
  <2>1. CASE todo.why = "clear"
    <3>1. dialog \in AllSettings /\ dialog' = [dialog EXCEPT !.legacy = Unset]
      BY <2>1 DEF Saved, HandlerInv
    <3>2. dialog' \in AllSettings /\ dialog # Unset /\ dialog' # Unset
      BY <3>1, FileAssumption DEF AllSettings
    <3>. QED
      BY <2>1, <3>1, <3>2 DEF AllSettings
  <2>2. CASE todo.why # "clear"
    BY <2>2 DEF Saved, SettingsTypes, SettingsTypeOK
  <2>. QED
    BY <2>1, <2>2
<1>5. SettingsTypes'
  <2>1. chosen' \in Choices
    BY SaveSettles
  <2>. QED
    BY <1>1, <1>3, <1>4, <2>1 DEF SettingsTypes, SettingsTypeOK, Choices, Saves
<1>6. HandlerInv'
  BY <1>1, <1>3, <1>4 DEF HandlerInv
<1>7. RowsInv'
  <2>1. Expected(todo.what)
    BY <1>1 DEF RowsInv
  <2>2. dialog' # Unset /\ todo.why # "clear" => todo.what = dialog
    BY <1>1, <1>4 DEF HandlerInv
  <2>3. Expected(Loaded)'
    BY <1>2, <2>1, SaveSettles DEF Expected
  <2>4. dialog' # Unset => Expected(dialog)'
    <3>1. CASE todo.why = "clear"
      BY <1>4, <3>1, SaveSettles DEF RowsInv, Expected
    <3>2. CASE todo.why # "clear"
      BY <1>4, <2>1, <2>2, <3>2, SaveSettles DEF Expected
    <3>. QED
      BY <3>1, <3>2
  <2>5. LooksAsSaved'
    <3>1. CASE todo.why = "theme"
      BY <1>1, <3>1, SaveSettles DEF HandlerInv, LooksAsSaved
    <3>2. CASE todo.why # "theme"
      <4>1. chosen'.theme = chosen.theme
        BY <3>2, SaveSettles
      <4>. QED
        BY <1>1, <4>1 DEF RowsInv, LooksAsSaved, Look
    <3>. QED
      BY <3>1, <3>2
  <2>. QED
    BY <1>1, <1>3, <2>3, <2>4, <2>5 DEF RowsInv
<1>8. KeyInv'
  <2>1. Held(todo.what)
    BY <1>1 DEF KeyInv
  <2>2. CASE todo.why = "key"
    <3>1. keyring # Unset /\ todo.what.legacy = Unset /\ todo.what = dialog
      BY <2>2 DEF KeyInv, HandlerInv
    <3>2. chosen'.key = {keyring}
      BY <2>2, SaveSettles
    <3>3. dialog' # Unset => dialog'.legacy = Unset
      BY <1>4, <2>2, <3>1
    <3>. QED
      BY <1>1, <1>2, <1>3, <3>1, <3>2, <3>3 DEF KeyInv, Held
  <2>3. CASE todo.why # "key"
    <3>1. chosen'.key = chosen.key
      BY <2>3, SaveSettles
    <3>2. todo.why = "clear" => todo.what.legacy = Unset
      BY DEF HandlerInv
    <3>3. dialog' # Unset => Held(dialog)'
      BY <1>1, <1>4, <2>1, <3>1, <3>2 DEF KeyInv, Held
    <3>. QED
      BY <1>1, <1>2, <1>3, <2>1, <3>1, <3>3 DEF KeyInv, Held
  <2>. QED
    BY <2>2, <2>3
<1>. QED BY <1>5, <1>6, <1>7, <1>8

LEMMA SaveFailsKeeps ==
  ASSUME SettingsInv, SaveFails
  PROVE  SettingsInv'
<1> USE DEF SettingsInv
<1>1. SettingsTypes'
  BY DefaultsAreSettings DEF SaveFails, SettingsTypes, SettingsTypeOK, Saves
<1>2. HandlerInv'
  BY DEF SaveFails, Saving, HandlerInv, NoSave
<1>3. RowsInv'
  BY DEF SaveFails, RowsInv, Expected, Loaded, LooksAsSaved, Look, NoSave
<1>4. KeyInv'
  BY DEF SaveFails, KeyInv, Held, Loaded, NoSave
<1>. QED BY <1>1, <1>2, <1>3, <1>4

LEMMA CloseDialogKeeps ==
  ASSUME SettingsInv, CloseDialog
  PROVE  SettingsInv'
<1> USE DEF SettingsInv
<1>1. SettingsTypes'
  BY DEF CloseDialog, SettingsTypes, SettingsTypeOK
<1>2. HandlerInv'
  BY DEF CloseDialog, Free, HandlerInv, NoSave
<1>3. RowsInv'
  BY DEF CloseDialog, RowsInv, Expected, Loaded, LooksAsSaved, Look
<1>4. KeyInv'
  BY DEF CloseDialog, Free, KeyInv, Held, Loaded, NoSave
<1>. QED BY <1>1, <1>2, <1>3, <1>4

LEMMA ShowThemesKeeps ==
  ASSUME SettingsInv, ShowThemes
  PROVE  SettingsInv'
<1> USE DEF SettingsInv
<1>1. SettingsTypes'
  BY DEF ShowThemes, SettingsTypes, SettingsTypeOK
<1>2. HandlerInv'
  BY DEF ShowThemes, HandlerInv
<1>3. RowsInv'
  BY DEF ShowThemes, RowsInv, Expected, Loaded, LooksAsSaved, Look
<1>4. KeyInv'
  BY DEF ShowThemes, KeyInv, Held, Loaded
<1>. QED BY <1>1, <1>2, <1>3, <1>4

LEMMA ApplyThemeKeeps ==
  ASSUME SettingsInv, NEW t \in PageThemes, ApplyTheme(t)
  PROVE  SettingsInv'
<1> USE DEF SettingsInv
<1>1. /\ chosen \in Choices /\ t \in Themes /\ todo = NoSave /\ running /\ NoSave.why = "nothing"
      /\ dialog = Unset /\ applied' = t /\ Choose("theme", t)
      /\ UNCHANGED <<file, keyring, themes, themeRows, running, dialog>>
  BY DEF ApplyTheme, User, Free, NoSave, SettingsTypes, SettingsTypeOK, Choices, Themes
<1>. DEFINE new == [Loaded EXCEPT !.theme = t]
<1>2. /\ new \in AllSettings /\ new.theme = t
      /\ new.path = Loaded.path /\ new.legacy = Loaded.legacy
  BY <1>1, LoadedIsSettings DEF AllSettings
<1>3. UNCHANGED todo \/ todo' = [why |-> "theme", what |-> new]
  BY DEF ApplyTheme, Save
<1>. HIDE DEF new
<1>4. /\ chosen' \in Choices /\ chosen'.theme = chosen.theme \cup {t}
      /\ chosen'.path = chosen.path /\ chosen'.key = chosen.key
  BY <1>1, ThemeIsChosen
<1>5. Loaded' = Loaded
  BY <1>1 DEF Loaded
<1>6. SettingsTypes'
  <2>1. acts' \in 0 .. MaxActs
    BY SettingsAssumption DEF ApplyTheme, User, SettingsTypes, SettingsTypeOK
  <2>2. todo' \in Saves
    BY <1>2, <1>3 DEF SettingsTypes, Saves
  <2>. QED
    BY <1>1, <1>4, <2>1, <2>2 DEF SettingsTypes, SettingsTypeOK, Saves, Choices
<1>7. HandlerInv'
  BY <1>1, <1>2, <1>3 DEF HandlerInv
<1>8. RowsInv'
  BY <1>1, <1>2, <1>3, <1>4, <1>5 DEF RowsInv, Expected, LooksAsSaved
<1>9. KeyInv'
  BY <1>1, <1>2, <1>3, <1>4, <1>5 DEF KeyInv, Held
<1>. QED BY <1>6, <1>7, <1>8, <1>9

LEMMA DeleteThemeKeeps ==
  ASSUME SettingsInv, NEW t \in UserThemes, DeleteTheme(t)
  PROVE  SettingsInv'
<1> USE DEF SettingsInv
<1>1. /\ chosen \in Choices /\ "auto" \in Themes /\ todo = NoSave /\ running
      /\ NoSave.why = "nothing" /\ dialog = Unset /\ themes' \subseteq themes
      /\ UNCHANGED <<file, keyring, themeRows, running, dialog>>
  BY
    DEF DeleteTheme, User, Free, NoSave, SettingsTypes, SettingsTypeOK, Choices, Themes,
        DialogThemes
<1>. DEFINE new == [Loaded EXCEPT !.theme = "auto"]
<1>2. /\ new \in AllSettings /\ new.theme = "auto"
      /\ new.path = Loaded.path /\ new.legacy = Loaded.legacy
  BY <1>1, LoadedIsSettings DEF AllSettings
<1>3. \/ UNCHANGED <<todo, applied, chosen>>
      \/ /\ todo' = [why |-> "theme", what |-> new] /\ applied' = "auto"
         /\ Choose("theme", "auto")
  BY DEF DeleteTheme, Save
<1>. HIDE DEF new
<1>4. /\ chosen' \in Choices /\ chosen'.path = chosen.path /\ chosen'.key = chosen.key
      /\ \/ UNCHANGED <<todo, applied, chosen>>
         \/ /\ todo' = [why |-> "theme", what |-> new] /\ applied' = "auto"
            /\ chosen'.theme = chosen.theme \cup {"auto"}
  BY <1>1, <1>3, ThemeIsChosen
<1>5. Loaded' = Loaded
  BY <1>1 DEF Loaded
<1>6. SettingsTypes'
  <2>1. acts' \in 0 .. MaxActs
    BY SettingsAssumption DEF DeleteTheme, User, SettingsTypes, SettingsTypeOK
  <2>2. todo' \in Saves
    BY <1>2, <1>4 DEF SettingsTypes, Saves
  <2>. QED
    BY <1>1, <1>4, <2>1, <2>2 DEF SettingsTypes, SettingsTypeOK, Saves, Choices
<1>7. HandlerInv'
  BY <1>1, <1>2, <1>4 DEF HandlerInv
<1>8. RowsInv'
  <2>1. CASE UNCHANGED <<todo, applied, chosen>>
    <3>1. LooksAsSaved'
      <4>1. ASSUME applied \notin chosen.theme
            PROVE  applied' \in {Look(s) : s \in chosen.theme}'
        <5>1. PICK s \in chosen.theme : applied = Look(s)
          BY <1>1, <4>1 DEF RowsInv, LooksAsSaved
        <5>2. s \in UserThemes \ themes
          BY <4>1, <5>1 DEF Look
        <5>3. Look(s)' = Look(s)
          BY <1>1, <5>2 DEF Look
        <5>. QED
          BY <2>1, <5>1, <5>3
      <4>. QED
        BY <2>1, <4>1 DEF LooksAsSaved
    <3>. QED
      BY <1>1, <1>5, <2>1, <3>1 DEF RowsInv, Expected
  <2>2. CASE todo' = [why |-> "theme", what |-> new] /\ applied' = "auto"
             /\ chosen'.theme = chosen.theme \cup {"auto"}
    BY <1>1, <1>2, <1>4, <1>5, <2>2 DEF RowsInv, Expected, LooksAsSaved
  <2>. QED
    BY <1>4, <2>1, <2>2
<1>9. KeyInv'
  BY <1>1, <1>2, <1>4, <1>5 DEF KeyInv, Held
<1>. QED BY <1>6, <1>7, <1>8, <1>9

LEMMA ChangeThemeKeeps ==
  ASSUME SettingsInv, NEW t \in DialogThemes, ChangeTheme(t)
  PROVE  SettingsInv'
<1> USE DEF SettingsInv
<1>1. /\ chosen \in Choices /\ t \in Themes /\ dialog \in AllSettings /\ dialog # Unset /\ running
      /\ dialog' = [dialog EXCEPT !.theme = t] /\ todo' = [why |-> "theme", what |-> dialog']
      /\ applied' = t /\ Choose("theme", t)
      /\ UNCHANGED <<file, keyring, themes, themeRows, running>>
  BY DEF ChangeTheme, User, Free, Save, SettingsTypes, SettingsTypeOK, Choices, Themes
<1>2. /\ dialog' \in AllSettings /\ dialog'.theme = t
      /\ dialog'.path = dialog.path /\ dialog'.legacy = dialog.legacy
  BY <1>1 DEF AllSettings
<1>3. /\ chosen' \in Choices /\ chosen'.theme = chosen.theme \cup {t}
      /\ chosen'.path = chosen.path /\ chosen'.key = chosen.key
  BY <1>1, ThemeIsChosen
<1>4. Loaded' = Loaded
  BY <1>1 DEF Loaded
<1>5. SettingsTypes'
  <2>1. acts' \in 0 .. MaxActs
    BY SettingsAssumption DEF ChangeTheme, User, SettingsTypes, SettingsTypeOK
  <2>2. todo' \in Saves
    BY <1>1, <1>2 DEF Saves
  <2>. QED
    BY <1>1, <1>2, <1>3, <2>1, <2>2 DEF SettingsTypes, SettingsTypeOK, Saves, Choices
<1>6. HandlerInv'
  BY <1>1, <1>2 DEF HandlerInv
<1>7. RowsInv'
  BY <1>1, <1>2, <1>3, <1>4 DEF RowsInv, Expected, LooksAsSaved
<1>8. KeyInv'
  BY <1>1, <1>2, <1>3, <1>4 DEF KeyInv, Held
<1>. QED BY <1>5, <1>6, <1>7, <1>8

LEMMA ChangePathKeeps ==
  ASSUME SettingsInv, NEW p \in Paths \cup {Unset}, ChangePath(p)
  PROVE  SettingsInv'
<1> USE DEF SettingsInv
<1>1. /\ chosen \in Choices /\ dialog \in AllSettings /\ dialog # Unset /\ running
      /\ dialog' = [dialog EXCEPT !.path = p] /\ todo' = [why |-> "path", what |-> dialog']
      /\ Choose("path", p)
      /\ UNCHANGED <<file, keyring, themes, themeRows, running, applied>>
  BY DEF ChangePath, User, Free, Save, SettingsTypes, SettingsTypeOK, Choices
<1>2. /\ dialog' \in AllSettings /\ dialog'.path = p /\ dialog' # Unset
      /\ dialog'.theme = dialog.theme /\ dialog'.legacy = dialog.legacy
  BY <1>1, FileAssumption DEF AllSettings
<1>3. /\ chosen' \in Choices /\ chosen'.path = chosen.path \cup {p}
      /\ chosen'.theme = chosen.theme /\ chosen'.key = chosen.key
  BY <1>1, PathIsChosen
<1>4. Loaded' = Loaded
  BY <1>1 DEF Loaded
<1>5. SettingsTypes'
  <2>1. acts' \in 0 .. MaxActs
    BY SettingsAssumption DEF ChangePath, User, SettingsTypes, SettingsTypeOK
  <2>2. todo' \in Saves
    BY <1>1, <1>2 DEF Saves
  <2>. QED
    BY <1>1, <1>2, <1>3, <2>1, <2>2 DEF SettingsTypes, SettingsTypeOK, Saves, Choices
<1>6. HandlerInv'
  BY <1>1, <1>2 DEF HandlerInv
<1>7. RowsInv'
  BY <1>1, <1>2, <1>3, <1>4 DEF RowsInv, Expected, LooksAsSaved, Look
<1>8. KeyInv'
  BY <1>1, <1>2, <1>3, <1>4 DEF KeyInv, Held
<1>. QED BY <1>5, <1>6, <1>7, <1>8

LEMMA ApplyKeyKeeps ==
  ASSUME SettingsInv, NEW k \in Keys, ApplyKey(k)
  PROVE  SettingsInv'
<1> USE DEF SettingsInv
<1>1. /\ chosen \in Choices /\ dialog \in AllSettings /\ dialog # Unset /\ running
      /\ dialog' = [dialog EXCEPT !.legacy = Unset]
      /\ \/ /\ keyring' = k /\ todo' = [why |-> "key", what |-> dialog']
            /\ chosen' = [chosen EXCEPT !.key = {k} \cup ({Loaded.legacy} \ {Unset})]
         \/ /\ todo' = [why |-> "rest", what |-> dialog'] /\ Choose("key", Unset)
            /\ UNCHANGED keyring
      /\ UNCHANGED <<file, themes, themeRows, running, applied>>
  BY DEF ApplyKey, User, Free, Save, SettingsTypes, SettingsTypeOK, Choices
<1>2. /\ dialog' \in AllSettings /\ dialog'.legacy = Unset /\ dialog' # Unset
      /\ dialog'.theme = dialog.theme /\ dialog'.path = dialog.path
  BY <1>1, FileAssumption DEF AllSettings
<1>3. k # Unset /\ Loaded.legacy \in Keys \cup {Unset}
  BY SettingsAssumption, LoadedIsSettings DEF AllSettings
<1>4. /\ chosen' \in Choices /\ chosen'.theme = chosen.theme /\ chosen'.path = chosen.path
      /\ \/ /\ keyring' = k /\ todo' = [why |-> "key", what |-> dialog']
            /\ chosen'.key = {k} \cup ({Loaded.legacy} \ {Unset})
         \/ /\ todo' = [why |-> "rest", what |-> dialog'] /\ UNCHANGED keyring
            /\ chosen'.key = chosen.key \cup {Unset}
  <2>1. CASE Choose("key", Unset) /\ todo' = [why |-> "rest", what |-> dialog']
             /\ UNCHANGED keyring
    BY <1>1, <2>1, NoKeyIsChosen
  <2>2. CASE /\ keyring' = k /\ todo' = [why |-> "key", what |-> dialog']
             /\ chosen' = [chosen EXCEPT !.key = {k} \cup ({Loaded.legacy} \ {Unset})]
    BY <1>1, <1>3, <2>2 DEF Choices
  <2>. QED
    BY <1>1, <2>1, <2>2
<1>5. Loaded' = Loaded
  BY <1>1 DEF Loaded
<1>6. SettingsTypes'
  <2>1. acts' \in 0 .. MaxActs
    BY SettingsAssumption DEF ApplyKey, User, SettingsTypes, SettingsTypeOK
  <2>2. todo' \in Saves
    BY <1>2, <1>4 DEF Saves
  <2>. QED
    BY <1>1, <1>2, <1>4, <2>1, <2>2 DEF SettingsTypes, SettingsTypeOK, Saves, Choices
<1>7. HandlerInv'
  BY <1>1, <1>2, <1>4 DEF HandlerInv
<1>8. RowsInv'
  <2>1. todo'.what = dialog' /\ Expected(Loaded) /\ Expected(dialog)
    BY <1>1, <1>4 DEF RowsInv
  <2>2. LooksAsSaved'
    BY <1>1, <1>4 DEF RowsInv, LooksAsSaved, Look
  <2>3. Expected(Loaded)' /\ Expected(dialog)' /\ Expected(todo.what)'
    BY <1>2, <1>4, <1>5, <2>1 DEF Expected
  <2>. QED
    BY <2>2, <2>3 DEF RowsInv
<1>9. KeyInv'
  <2>1. todo'.what = dialog'
    BY <1>4
  <2>2. CASE /\ keyring' = k /\ todo' = [why |-> "key", what |-> dialog']
             /\ chosen'.key = {k} \cup ({Loaded.legacy} \ {Unset})
    <3>1. Held(Loaded)' /\ Held(dialog)'
      BY <1>2, <1>3, <1>5, <2>2 DEF Held
    <3>. QED
      BY <1>2, <1>3, <2>1, <2>2, <3>1 DEF KeyInv, Held
  <2>3. CASE /\ todo' = [why |-> "rest", what |-> dialog'] /\ UNCHANGED keyring
             /\ chosen'.key = chosen.key \cup {Unset}
    <3>1. Held(Loaded)' /\ Held(dialog)'
      BY <1>2, <1>5, <2>3 DEF KeyInv, Held
    <3>. QED
      BY <1>2, <2>1, <2>3, <3>1 DEF KeyInv, Held
  <2>. QED
    BY <1>4, <2>2, <2>3
<1>. QED BY <1>6, <1>7, <1>8, <1>9

-----------------------------------------------------------------------------
LEMMA EmptyIsFound ==
  /\ NoMod \in FoundMods /\ NoSearch \in Searches /\ EmptyPage \in FoundPages
  /\ NoSearch.mod = NoMod /\ EmptyPage.rows = NoMod /\ EmptyPage.shown = FALSE
<1>1. 0 \in Numbers
  BY SearchAssumption DEF Numbers
<1>2. (CHOOSE g \in Games : TRUE) \in Games
  BY SearchAssumption
<1>. QED
  BY <1>1, <1>2 DEF NoMod, FoundMods, NoSearch, Searches, EmptyPage, FoundPages

\* What the channel holds, when a message comes or goes.
LEMMA MessageComes ==
  ASSUME NEW s \in Seq(Requests), NEW m \in Requests,
         Matches(m), \A i \in DOMAIN s : Matches(s[i])
  PROVE  /\ Append(s, m) \in Seq(Requests)
         /\ \A i \in DOMAIN Append(s, m) : Matches(Append(s, m)[i])
<1>1. Append(s, m) \in Seq(Requests) /\ DOMAIN Append(s, m) = 1 .. Len(s) + 1
  BY AppendProperties
<1>2. ASSUME NEW i \in 1 .. Len(s) + 1 PROVE Matches(Append(s, m)[i])
  <2>1. CASE i = Len(s) + 1
    BY <2>1, AppendProperties
  <2>2. CASE i \in 1 .. Len(s)
    BY <2>2, AppendProperties
  <2>. QED
    BY <2>1, <2>2
<1>. QED
  BY <1>1, <1>2

LEMMA MessageGoes ==
  ASSUME NEW s \in Seq(Requests), s # <<>>, \A i \in DOMAIN s : Matches(s[i])
  PROVE  /\ Head(s) \in Requests /\ Matches(Head(s))
         /\ Tail(s) \in Seq(Requests)
         /\ \A i \in DOMAIN Tail(s) : Matches(Tail(s)[i])
<1>1. 1 \in DOMAIN s /\ Head(s) = s[1]
  BY EmptySeq
<1>2. Tail(s) \in Seq(Requests) /\ Len(Tail(s)) = Len(s) - 1
      /\ \A i \in 1 .. Len(Tail(s)) : Tail(s)[i] = s[i + 1]
  BY HeadTailProperties
<1>3. ASSUME NEW i \in DOMAIN Tail(s) PROVE Matches(Tail(s)[i])
  <2>1. i \in 1 .. Len(Tail(s)) /\ i + 1 \in DOMAIN s
    BY <1>2
  <2>. QED
    BY <1>2, <2>1
<1>. QED
  BY <1>1, <1>2, <1>3

\* A handler that asks for the files of a mod or for the links of a file.
LEMMA AskKeeps ==
  ASSUME FoundInv, NEW kind \in {"files", "links"}, NEW mod \in FoundMods, NEW of \in FoundMods,
         mod.id = of.id, Own(mod), Own(of), Ask(kind, mod, of),
         page' \in FoundPages, page'.rows = page.rows, page'.files = page.files,
         page'.shown => page.shown,
         UNCHANGED <<search, channel, queued, crossed, searches>>
  PROVE  FoundInv'
<1>. DEFINE r == [for |-> kind, asked |-> mod, of |-> of]
<1>1. r \in Requests /\ Matches(r) /\ threads' = threads \cup {r}
  BY DEF Requests, Matches, Ask
<1>. HIDE DEF r
<1>2. FoundTypes'
  BY <1>1 DEF FoundInv, FoundTypes
<1>3. RowsAreResults' /\ FilesAreOfMod' /\ QueuedIsMods'
  BY DEF FoundInv, RowsAreResults, FilesAreOfMod, QueuedIsMods
<1>4. RequestsInv'
  BY <1>1 DEF FoundInv, RequestsInv, Matches, Own
<1>5. PlaceInv'
  BY DEF FoundInv, PlaceInv, Own
<1>. QED
  BY <1>2, <1>3, <1>4, <1>5 DEF FoundInv

LEMMA DoSearchKeeps ==
  ASSUME SettingsTypes, FoundInv, NEW g \in Games, DoSearch(g)
  PROVE  FoundInv'
<1>1. searches' \in Numbers
  BY SearchAssumption DEF DoSearch, FoundInv, FoundTypes, Numbers
<1>2. PICK key \in {ApiKey, Loaded.legacy} \ {Unset} :
        search' = [search EXCEPT !.domain = g, !.key = key, !.mod = NoMod]
  BY DEF DoSearch
<1>3. key \in Keys \cup {Unset}
  BY <1>2, LoadedIsSettings DEF AllSettings
<1>4. /\ search' \in Searches /\ search'.mod = NoMod /\ search'.domain = g
      /\ search'.results = search.results
  BY <1>2, <1>3, EmptyIsFound DEF FoundInv, FoundTypes, Searches
<1>5. page' \in FoundPages /\ page'.rows = NoMod
  BY EmptyIsFound DEF DoSearch, FoundInv, FoundTypes, FoundPages
<1>6. PICK r \in Requests : /\ Ask("results", r.asked, r.asked)
                           /\ r.for = "results" /\ r.asked = r.of /\ r.asked.game = g
  <2>. DEFINE mod == [id |-> searches', game |-> g]
  <2>1. mod \in FoundMods /\ mod.game = g
    BY <1>1 DEF FoundMods
  <2>2. Ask("results", mod, mod)
    BY DEF DoSearch
  <2>. HIDE DEF mod
  <2>3. [for |-> "results", asked |-> mod, of |-> mod] \in Requests
    BY <2>1 DEF Requests
  <2>. QED
    BY <2>1, <2>2, <2>3
<1>7. /\ threads' = threads \cup {r} /\ UNCHANGED <<channel, queued>>
      /\ crossed' \in BOOLEAN
      /\ threads # {} \/ channel # <<>> => crossed' = (crossed \/ g # search.domain)
  <2>1. threads' = threads \cup {r}
    BY <1>6 DEF Ask, Requests
  <2>. QED
    BY <2>1 DEF DoSearch, FoundInv, FoundTypes
<1>8. FoundTypes'
  BY <1>1, <1>4, <1>5, <1>6, <1>7 DEF FoundInv, FoundTypes
<1>9. ASSUME NEW q, Matches(q), threads # {} \/ channel # <<>>
      PROVE  Matches(q)'
  BY <1>4, <1>7, <1>9 DEF Matches, Own
<1>10. Matches(r)'
  BY <1>4, <1>6 DEF Matches, Own
<1>11. RequestsInv'
  <2>1. ASSUME NEW q \in threads PROVE Matches(q)'
    BY <1>9, <2>1 DEF FoundInv, RequestsInv
  <2>2. ASSUME NEW i \in DOMAIN channel PROVE Matches(channel[i])'
    <3>1. channel # <<>>
      OBVIOUS
    <3>2. Matches(channel[i])
      BY DEF FoundInv, RequestsInv
    <3>. QED
      BY <1>4, <1>7, <3>1, <3>2 DEF Matches, Own
  <2>. QED
    BY <1>7, <1>10, <2>1, <2>2 DEF RequestsInv, Matches, Own
<1>12. RowsAreResults' /\ FilesAreOfMod' /\ PlaceInv'
  BY <1>4, <1>5 DEF RowsAreResults, FilesAreOfMod, PlaceInv
<1>13. QueuedIsMods'
  BY <1>7 DEF FoundInv, QueuedIsMods
<1>. QED
  BY <1>8, <1>11, <1>12, <1>13 DEF FoundInv

LEMMA SelectRowKeeps ==
  ASSUME FoundInv, SelectRow
  PROVE  FoundInv'
<1>1. /\ page' \in FoundPages /\ page'.rows = page.rows /\ page'.files = page.files
      /\ page'.shown = FALSE
  BY DEF SelectRow, FoundInv, FoundTypes, FoundPages
<1>. DEFINE of == search.results
            mod == InDomain(of)
<1>2. of \in FoundMods /\ mod \in FoundMods /\ mod.id = of.id /\ Own(mod)
  BY DEF FoundInv, FoundTypes, Searches, FoundMods, InDomain, Own
<1>3. Own(of)
  BY DEF SelectRow, FoundInv, RowsAreResults, PlaceInv
<1>4. Ask("files", mod, of) /\ UNCHANGED <<search, channel, queued, crossed, searches>>
  BY DEF SelectRow
<1>. HIDE DEF of, mod
<1>. QED
  BY <1>1, <1>2, <1>3, <1>4, AskKeeps

LEMMA PressDownloadKeeps ==
  ASSUME FoundInv, PressDownload
  PROVE  FoundInv'
<1>. DEFINE of == page.files
            mod == InDomain(search.mod)
<1>1. of \in FoundMods /\ mod \in FoundMods /\ mod.id = search.mod.id /\ Own(mod)
  BY DEF FoundInv, FoundTypes, Searches, FoundPages, FoundMods, InDomain, Own
<1>2. of.id = search.mod.id /\ Own(of)
  BY DEF PressDownload, FoundInv, FoundTypes, FilesAreOfMod, PlaceInv, Own
<1>3. Ask("links", mod, of) /\ UNCHANGED <<search, page, channel, queued, crossed, searches>>
  BY DEF PressDownload
<1>4. page' \in FoundPages
  BY <1>3 DEF FoundInv, FoundTypes
<1>. HIDE DEF of, mod
<1>. QED
  BY <1>1, <1>2, <1>3, <1>4, AskKeeps

LEMMA AnsweredKeeps ==
  ASSUME FoundInv, Answered
  PROVE  FoundInv'
<1>1. PICK r \in threads, ok \in BOOLEAN :
        /\ threads' = threads \ {r}
        /\ channel' = Append(channel, [r EXCEPT !.for = IF ok THEN r.for ELSE "error"])
        /\ UNCHANGED <<search, page, queued, crossed, searches>>
  BY DEF Answered
<1>2. r \in Requests /\ Matches(r)
  BY DEF FoundInv, FoundTypes, RequestsInv
<1>. DEFINE m == [r EXCEPT !.for = IF ok THEN r.for ELSE "error"]
<1>3. m \in Requests /\ Matches(m)
  BY <1>2 DEF Requests, Matches
<1>. HIDE DEF m
<1>4. channel' \in Seq(Requests) /\ \A i \in DOMAIN channel' : Matches(channel'[i])
  BY <1>1, <1>3, MessageComes DEF m, FoundInv, FoundTypes, RequestsInv
<1>5. FoundTypes'
  BY <1>1, <1>4 DEF FoundInv, FoundTypes
<1>6. RequestsInv'
  BY <1>1, <1>4 DEF FoundInv, RequestsInv, Matches, Own
<1>7. RowsAreResults' /\ FilesAreOfMod' /\ PlaceInv' /\ QueuedIsMods'
  BY <1>1 DEF FoundInv, RowsAreResults, FilesAreOfMod, PlaceInv, Own, QueuedIsMods
<1>. QED
  BY <1>5, <1>6, <1>7 DEF FoundInv

\* What every turn of the idle loop finds and leaves.
LEMMA TakeGives ==
  ASSUME FoundInv, NEW kind, Take(kind)
  PROVE  /\ Message \in Requests /\ Matches(Message) /\ Message.for = kind
         /\ channel' \in Seq(Requests) /\ UNCHANGED <<threads, crossed, searches>>
         /\ \A r \in threads' : Matches(r)
         /\ \A i \in DOMAIN channel' : Matches(channel'[i])
<1>1. Message \in Requests /\ Matches(Message)
  BY MessageGoes DEF FoundInv, FoundTypes, RequestsInv, Take, Message
<1>2. channel' \in Seq(Requests) /\ \A i \in DOMAIN channel' : Matches(channel'[i])
  BY MessageGoes DEF FoundInv, FoundTypes, RequestsInv, Take
<1>. QED
  BY <1>1, <1>2 DEF Take, FoundInv, RequestsInv

LEMMA HandleKeeps ==
  ASSUME FoundInv, Handle
  PROVE  FoundInv'
<1>. DEFINE mod == Message.asked
            of == Message.of
<1>0. \/ ShowResults \/ ShowFiles \/ Enqueue \/ ShowError
  BY DEF Handle
<1>1. /\ mod \in FoundMods /\ of \in FoundMods /\ mod.id = of.id /\ Own(mod) /\ Own(of)
      /\ channel' \in Seq(Requests) /\ UNCHANGED <<threads, crossed, searches>>
      /\ \A r \in threads' : Matches(r)
      /\ \A i \in DOMAIN channel' : Matches(channel'[i])
  <2>1. PICK kind \in {"results", "files", "links", "error"} : Take(kind)
    BY <1>0 DEF ShowResults, ShowFiles, Enqueue, ShowError
  <2>2. Message \in Requests /\ Matches(Message)
    BY <2>1, TakeGives
  <2>3. mod \in FoundMods /\ of \in FoundMods /\ mod.id = of.id /\ Own(mod) /\ Own(of)
    BY <2>2 DEF Requests, Matches
  <2>. QED
    BY <2>1, <2>3, TakeGives
<1>2. search'.domain = search.domain => RequestsInv'
  BY <1>1 DEF RequestsInv, Matches, Own
<1>3. CASE ShowResults
  <2>1. /\ page' = [page EXCEPT !.rows = mod, !.spinner = FALSE]
        /\ search' = [search EXCEPT !.results = mod] /\ UNCHANGED queued
    BY <1>3 DEF ShowResults
  <2>. HIDE DEF mod, of
  <2>2. /\ search' \in Searches /\ search'.results = mod /\ search'.mod = search.mod
        /\ search'.domain = search.domain
    BY <1>1, <2>1 DEF FoundInv, FoundTypes, Searches
  <2>3. /\ page' \in FoundPages /\ page'.rows = mod
        /\ page'.files = page.files /\ page'.shown = page.shown
    BY <1>1, <2>1 DEF FoundInv, FoundTypes, FoundPages
  <2>4. FoundTypes' /\ RequestsInv'
    BY <1>1, <1>2, <2>2, <2>3 DEF FoundInv, FoundTypes
  <2>5. RowsAreResults' /\ FilesAreOfMod' /\ PlaceInv' /\ QueuedIsMods'
    BY <1>1, <2>1, <2>2, <2>3
      DEF FoundInv, RowsAreResults, FilesAreOfMod, PlaceInv, Own, QueuedIsMods
  <2>. QED
    BY <2>4, <2>5 DEF FoundInv
<1>4. CASE ShowFiles
  <2>1. /\ \E some \in BOOLEAN : page' = [page EXCEPT !.files = mod, !.shown = some]
        /\ search' = [search EXCEPT !.mod = of] /\ UNCHANGED queued
    BY <1>4 DEF ShowFiles
  <2>. HIDE DEF mod, of
  <2>2. /\ search' \in Searches /\ search'.mod = of /\ search'.results = search.results
        /\ search'.domain = search.domain
    BY <1>1, <2>1 DEF FoundInv, FoundTypes, Searches
  <2>3. page' \in FoundPages /\ page'.files = mod /\ page'.rows = page.rows
    BY <1>1, <2>1 DEF FoundInv, FoundTypes, FoundPages
  <2>4. FoundTypes' /\ RequestsInv'
    BY <1>1, <1>2, <2>2, <2>3 DEF FoundInv, FoundTypes
  <2>5. ~ crossed => mod = of
    BY <1>1 DEF Own, FoundMods
  <2>6. RowsAreResults' /\ FilesAreOfMod' /\ PlaceInv' /\ QueuedIsMods'
    BY <1>1, <2>1, <2>2, <2>3, <2>5
      DEF FoundInv, RowsAreResults, FilesAreOfMod, PlaceInv, Own, QueuedIsMods
  <2>. QED
    BY <2>4, <2>6 DEF FoundInv
<1>5. CASE Enqueue
  <2>1. /\ UNCHANGED <<search, page>>
        /\ \/ UNCHANGED queued
           \/ queued' = queued \cup {[link |-> mod, file |-> of, name |-> search.mod,
                                      dir |-> Loaded.path, alone |-> ~ crossed]}
    BY <1>5 DEF Enqueue
  <2>. HIDE DEF mod, of
  <2>2. ~ crossed => mod = of
    BY <1>1 DEF Own, FoundMods
  <2>3. QueuedIsMods'
    <3>1. ASSUME NEW q \in queued'
          PROVE  q.link.id = q.file.id /\ (q.alone => q.link = q.file)
      <4>1. CASE q \in queued
        BY <4>1 DEF FoundInv, QueuedIsMods
      <4>2. CASE q = [link |-> mod, file |-> of, name |-> search.mod, dir |-> Loaded.path,
                      alone |-> ~ crossed]
        BY <1>1, <2>2, <4>2
      <4>. QED
        BY <2>1, <4>1, <4>2
    <3>. QED
      BY <3>1 DEF QueuedIsMods
  <2>4. FoundTypes' /\ RequestsInv'
    BY <1>1, <1>2, <2>1 DEF FoundInv, FoundTypes
  <2>5. RowsAreResults' /\ FilesAreOfMod' /\ PlaceInv'
    BY <1>1, <2>1 DEF FoundInv, RowsAreResults, FilesAreOfMod, PlaceInv, Own
  <2>. QED
    BY <2>3, <2>4, <2>5 DEF FoundInv
<1>6. CASE ShowError
  <2>1. /\ page' \in FoundPages /\ page'.rows = page.rows
        /\ page'.files = page.files /\ page'.shown = page.shown
        /\ UNCHANGED <<search, queued>>
    BY <1>6 DEF ShowError, FoundInv, FoundTypes, FoundPages
  <2>2. FoundTypes' /\ RequestsInv'
    BY <1>1, <1>2, <2>1 DEF FoundInv, FoundTypes
  <2>3. RowsAreResults' /\ FilesAreOfMod' /\ PlaceInv' /\ QueuedIsMods'
    BY <1>1, <2>1
      DEF FoundInv, RowsAreResults, FilesAreOfMod, PlaceInv, Own, QueuedIsMods
  <2>. QED
    BY <2>2, <2>3 DEF FoundInv
<1>. QED
  BY <1>0, <1>3, <1>4, <1>5, <1>6

LEMMA EndKeeps ==
  ASSUME FoundInv, EndsWithProgram
  PROVE  FoundInv'
<1>1. <<>> \in Seq(Requests) /\ DOMAIN <<>> = {}
  OBVIOUS
<1>2. search' = NoSearch /\ page' = EmptyPage /\ threads' = {} /\ channel' = <<>>
      /\ crossed' = FALSE /\ UNCHANGED <<queued, searches>>
  BY DEF EndsWithProgram
<1>3. FoundTypes'
  BY <1>1, <1>2, EmptyIsFound DEF FoundInv, FoundTypes
<1>4. RequestsInv'
  BY <1>1, <1>2 DEF RequestsInv
<1>5. RowsAreResults' /\ FilesAreOfMod' /\ PlaceInv' /\ QueuedIsMods'
  BY <1>2, EmptyIsFound DEF FoundInv, RowsAreResults, FilesAreOfMod, PlaceInv, QueuedIsMods
<1>. QED
  BY <1>3, <1>4, <1>5 DEF FoundInv

LEMMA FoundUnchanged ==
  ASSUME FoundInv, UNCHANGED found
  PROVE  FoundInv'
BY
  DEF FoundInv, FoundTypes, RowsAreResults, FilesAreOfMod, RequestsInv, Matches, Own, PlaceInv,
      QueuedIsMods, found

LEMMA SettingsUnchanged ==
  ASSUME SettingsInv, UNCHANGED settings, acts' \in 0 .. MaxActs
  PROVE  SettingsInv'
<1>1. SettingsTypes' /\ HandlerInv'
  BY DEF SettingsInv, SettingsTypes, SettingsTypeOK, HandlerInv, settings
<1>2. RowsInv'
  BY DEF SettingsInv, RowsInv, Expected, Loaded, LooksAsSaved, Look, settings
<1>3. KeyInv'
  BY DEF SettingsInv, KeyInv, Held, Loaded, settings
<1>. QED
  BY <1>1, <1>2, <1>3 DEF SettingsInv

LEMMA SettingsKeeps ==
  ASSUME SettingsInv, SettingsNext
  PROVE  SettingsInv'
BY StartKeeps, QuitKeeps, OpenDialogKeeps, MoveKeyKeeps, SavedKeeps, SaveFailsKeeps,
   CloseDialogKeeps, ShowThemesKeeps,
   ApplyThemeKeeps, DeleteThemeKeeps, ChangeThemeKeeps, ChangePathKeeps, ApplyKeyKeeps
   DEF SettingsNext

-----------------------------------------------------------------------------
\* The first start of this version, with the file of an earlier one or none.
LEMMA SettingsStart == SearchInit => SettingsInv
<1> SUFFICES ASSUME SearchInit PROVE SettingsInv
  OBVIOUS
<1>1. /\ "auto" \in Themes /\ OldKey \in Keys \cup {Unset} /\ 0 \in 0 .. MaxActs
      /\ Default.theme = "auto" /\ Default.path = Unset /\ Default.legacy = Unset
      /\ NoSave.why = "nothing" /\ NoSave \in Saves
  BY SettingsAssumption, DefaultsAreSettings DEF Themes, DialogThemes, Default, NoSave
<1>. DEFINE old == [Default EXCEPT !.legacy = OldKey]
<1>2. /\ old \in AllSettings /\ old.theme = "auto" /\ old.path = Unset /\ old.legacy = OldKey
      /\ old # Absent /\ old # Broken
  BY <1>1, DefaultsAreSettings, FileAssumption DEF AllSettings
<1>3. /\ file \in {Absent, Broken, old} /\ keyring = Unset
      /\ themes = UserThemes /\ themeRows = {} /\ running = FALSE
      /\ applied = "auto" /\ dialog = Unset /\ todo = NoSave /\ acts = 0
      /\ chosen = [theme |-> {"auto"}, path |-> {Unset},
                   key |-> {IF file \in {Absent, Broken} THEN Unset ELSE OldKey}]
  BY DEF SearchInit, SettingsInit
<1>. HIDE DEF old
<1>4. /\ Loaded.theme = "auto" /\ Loaded.path = Unset
      /\ Loaded.legacy = IF file \in {Absent, Broken} THEN Unset ELSE OldKey
  BY <1>1, <1>2, <1>3 DEF Loaded
<1>5. chosen \in Choices
  BY <1>1, <1>3 DEF Choices
<1>6. SettingsTypes
  BY <1>1, <1>2, <1>3, <1>5 DEF SettingsTypes, SettingsTypeOK, Choices, Saves
<1>7. HandlerInv
  BY <1>1, <1>3 DEF HandlerInv
<1>8. RowsInv
  BY <1>1, <1>3, <1>4 DEF RowsInv, Expected, LooksAsSaved
<1>9. KeyInv
  BY <1>1, <1>3, <1>4 DEF KeyInv, Held
<1>. QED
  BY <1>6, <1>7, <1>8, <1>9 DEF SettingsInv

LEMMA FoundStart == SearchInit => FoundInv
<1> SUFFICES ASSUME SearchInit PROVE FoundInv
  OBVIOUS
<1>1. <<>> \in Seq(Requests) /\ DOMAIN <<>> = {} /\ 0 \in Numbers
  BY SearchAssumption DEF Numbers
<1>2. FoundTypes
  BY <1>1, EmptyIsFound DEF SearchInit, FoundTypes
<1>3. RequestsInv
  BY <1>1 DEF SearchInit, RequestsInv
<1>4. RowsAreResults /\ FilesAreOfMod /\ PlaceInv /\ QueuedIsMods
  BY EmptyIsFound DEF SearchInit, RowsAreResults, FilesAreOfMod, PlaceInv, QueuedIsMods
<1>. QED
  BY <1>2, <1>3, <1>4 DEF FoundInv

LEMMA ActKeeps ==
  ASSUME SettingsInv, FoundInv, [SearchNext]_searchVars
  PROVE  SettingsInv' /\ FoundInv'
<1>1. acts \in 0 .. MaxActs
  BY DEF SettingsInv, SettingsTypes, SettingsTypeOK
<1>2. CASE SettingsNext /\ running' /\ UNCHANGED found
  BY <1>2, SettingsKeeps, FoundUnchanged
<1>3. CASE SettingsNext /\ ~ running' /\ EndsWithProgram
  BY <1>3, SettingsKeeps, EndKeeps
<1>4. ASSUME NEW g \in Games, DoSearch(g)
      PROVE  SettingsInv' /\ FoundInv'
  <2>1. UNCHANGED settings /\ acts' \in 0 .. MaxActs
    BY <1>1, <1>4, SettingsAssumption DEF DoSearch, User
  <2>. QED
    BY <1>4, <2>1, SettingsUnchanged, DoSearchKeeps DEF SettingsInv
<1>5. CASE SelectRow
  <2>1. UNCHANGED settings /\ acts' \in 0 .. MaxActs
    BY <1>1, <1>5, SettingsAssumption DEF SelectRow, User
  <2>. QED
    BY <1>5, <2>1, SettingsUnchanged, SelectRowKeeps
<1>6. CASE PressDownload
  <2>1. UNCHANGED settings /\ acts' \in 0 .. MaxActs
    BY <1>1, <1>6, SettingsAssumption DEF PressDownload, User
  <2>. QED
    BY <1>6, <2>1, SettingsUnchanged, PressDownloadKeeps
<1>7. CASE Answered
  <2>1. UNCHANGED settings /\ acts' = acts
    BY <1>7 DEF Answered, Still
  <2>. QED
    BY <1>1, <1>7, <2>1, SettingsUnchanged, AnsweredKeeps
<1>8. CASE Handle
  <2>1. UNCHANGED settings /\ acts' = acts
    BY <1>8 DEF Handle, ShowResults, ShowFiles, Enqueue, ShowError, Take, Still
  <2>. QED
    BY <1>1, <1>8, <2>1, SettingsUnchanged, HandleKeeps
<1>9. CASE UNCHANGED searchVars
  <2>1. UNCHANGED settings /\ acts' = acts /\ UNCHANGED found
    BY <1>9 DEF searchVars
  <2>. QED
    BY <1>1, <2>1, SettingsUnchanged, FoundUnchanged
<1>. QED
  BY <1>2, <1>3, <1>4, <1>5, <1>6, <1>7, <1>8, <1>9 DEF SearchNext

LEMMA SearchInvariant == SearchSpec => [](SettingsInv /\ FoundInv)
<1>1. SearchInit => SettingsInv /\ FoundInv
  BY SettingsStart, FoundStart
<1>2. SettingsInv /\ FoundInv /\ [SearchNext]_searchVars => (SettingsInv /\ FoundInv)'
  BY ActKeeps
<1>. QED
  BY <1>1, <1>2, PTL DEF SearchSpec

\* Whatever the user does, in the dialog and on the theme page, and wherever a save
\* fails or the program stops: no save undoes a row that another has saved
\* (AppSettings::save of every caller writes the whole file), so that the file holds
\* the value chosen last or, if that was not saved, one chosen since the last save
\* of the row; and the window looks like a theme so chosen, also when a row of the
\* theme page has outlived its theme.  Nor is the key lost, at no step of the move of
\* the legacy key (migrate_key_from_toml): what the program uses is the key given
\* last, or an older one that the file still holds because it was not saved.
THEOREM SettingsAreKept == SearchSpec => []SettingsKept
<1>1. SettingsInv => KeyIsUsers
  BY DEF SettingsInv, KeyInv, Held, KeyIsUsers, ApiKey
<1>2. SettingsInv => SettingsKept
  BY <1>1 DEF SettingsInv, SettingsTypes, RowsInv, Expected, SettingsKept, OthersKept
<1>. QED
  BY <1>2, SearchInvariant, PTL

\* However the answers of the request threads are ordered: the rows are those
\* they are looked up in, the file rows belong to the mod whose id their buttons
\* send, and the link that is queued was asked for with that id; and as long as no
\* search in another game has overtaken answers, to the mod of that game.
THEOREM AnswersAreMatched == SearchSpec => []AnswersMatch
<1>1. SettingsInv /\ FoundInv => AnswersMatch
  BY
    DEF SettingsInv, SettingsTypes, FoundInv, FoundTypes, Searches, FoundPages, FoundMods,
        AnswersMatch, SearchTypeOK
<1>. QED
  BY <1>1, SearchInvariant, PTL

=============================================================================
