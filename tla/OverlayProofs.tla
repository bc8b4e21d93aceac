---------------------------- MODULE OverlayProofs ----------------------------
(***************************************************************************)
(* Proofs about Conflicts and Overlay for any list of mods, any set of     *)
(* paths and any size of the chunks.                                       *)
(*                                                                         *)
(* Two facts carry everything about the conflict map: the scan has found,  *)
(* of the places it has come by, the first that has a path (ScanInv), and  *)
(* the file of that place is never touched (WinnersStay), because the      *)
(* queue of the pruning holds losers of the current entry only (QueueInv). *)
(*                                                                         *)
(* The stack shows what one mount would show because the chunks cut the    *)
(* list into intervals in its order (Cut), the mount of a chunk that has   *)
(* the winner of a path shows it and one before it shows nothing there     *)
(* (ChunkShows), and pruning never touches a winner (CInv).                *)
(***************************************************************************)
EXTENDS Overlay, WellFoundedInduction, TLAPS

(***************************************************************************)
(* The conflict map and the pruning (Conflicts).                           *)
(***************************************************************************)

IsFirst(k, K) == k \in K /\ \A j \in K : k <= j

\* The places the scan has come by at which a mod has path p.
Seen(p) == {k \in Providers(rows, p) : k < next}

\* The winner of a path is the first mod seen, the losers are the other ones.
ScanInv ==
  \A p \in Paths :
    /\ \/ winner[p] = None /\ Seen(p) = {}
       \/ \E k \in Seen(p) : IsFirst(k, Seen(p)) /\ winner[p] = Order[k]
    /\ \A k \in Seen(p) : Order[k] = winner[p] \/ Order[k] \in LosersOf(p)
    /\ \A m \in LosersOf(p) : m # winner[p] /\ \E k \in Seen(p) : m = Order[k]

\* The first mod that has a path in the database has its file.
WinnersStay ==
  \A p \in Paths : \A k \in Places :
    IsFirst(k, Providers(rows, p)) => p \in disk[Order[k]]

\* Nothing is in a mod's directory that is not in the database.
DiskInRows == \A m \in Mods : disk[m] \subseteq rows[m]

\* What is still to be done for the current entry concerns its losers; a file is
\* removed only when its backup is whole.
QueueInv ==
  /\ queue # <<>> => at = "prune" /\ entry \in Paths
  /\ \A n \in DOMAIN queue : queue[n] \in LosersOf(entry)
  /\ copied => queue # <<>> /\ entry \in backup[Head(queue)] \ torn[Head(queue)]

\* The entries that are done have no loser with a file, unless it was reported.
DoneInv ==
  at \in {"prune", "pruned"} =>
    \A p \in Contested \ left : \A m \in LosersOf(p) :
      p \in disk[m] =>
        \/ <<m, p>> \in errors
        \/ at = "prune" /\ p = entry /\ \E n \in DOMAIN queue : queue[n] = m

Scanned == at # "scan" => next = Len(Order) + 1
Drained == at = "pruned" => left = {} /\ queue = <<>>

CInv ==
  /\ ConflictsTypeOK
  /\ ScanInv /\ Scanned /\ WinnersStay /\ DiskInRows
  /\ NothingLost
  /\ QueueInv /\ DoneInv /\ Drained

-----------------------------------------------------------------------------
Elements(s) == {s[n] : n \in DOMAIN s}

\* Appending to a sequence adds one element to those it has.
LEMMA AppendElements ==
  ASSUME NEW S, NEW s \in Seq(S), NEW e \in S
  PROVE  Elements(Append(s, e)) = Elements(s) \cup {e}
<1> DEFINE t == Append(s, e)
<1>1. DOMAIN s = 1 .. Len(s) /\ DOMAIN t = 1 .. Len(s) + 1 /\ Len(s) \in Nat
  OBVIOUS
<1>2. \A n \in DOMAIN s : t[n] = s[n]
  OBVIOUS
<1>3. t[Len(s) + 1] = e
  OBVIOUS
<1> HIDE DEF t
<1>4. \A n \in DOMAIN t : t[n] \in {s[i] : i \in DOMAIN s} \cup {e}
  BY <1>1, <1>2, <1>3
<1>5. \A n \in DOMAIN s : \E i \in DOMAIN t : t[i] = s[n]
  BY <1>1, <1>2
<1>6. \E i \in DOMAIN t : t[i] = e
  BY <1>1, <1>3
<1>7. {t[n] : n \in DOMAIN t} = {s[n] : n \in DOMAIN s} \cup {e}
  BY <1>4, <1>5, <1>6
<1>8. QED
  BY <1>7 DEF t, Elements

\* The rest of a sequence has no element that the sequence has not.
LEMMA TailElements ==
  ASSUME NEW S, NEW s \in Seq(S), s # <<>>
  PROVE  /\ Head(s) \in S /\ Tail(s) \in Seq(S)
         /\ 1 \in DOMAIN s /\ Head(s) = s[1]
         /\ \A n \in DOMAIN Tail(s) : n + 1 \in DOMAIN s /\ Tail(s)[n] = s[n + 1]
         /\ \A n \in DOMAIN s : n = 1 \/ (n - 1 \in DOMAIN Tail(s) /\ Tail(s)[n - 1] = s[n])
  OBVIOUS

\* A place is a mod's only place.
LEMMA OnePlace ==
  ASSUME NEW j \in Places, NEW k \in Places, Order[j] = Order[k]
  PROVE  j = k
  BY OrderAssumption DEF Places

LEMMA PlacesAreMods ==
  /\ Len(Order) \in Nat
  /\ \A k \in Places : k \in Nat /\ Order[k] \in Mods /\ Order[k] # None
  BY OrderAssumption DEF Places

\* The least place of a set is the one First chooses.
LEMMA FirstIs ==
  ASSUME NEW K, K \subseteq Places, NEW k, IsFirst(k, K)
  PROVE  First(K) = k
<1>1. \A i \in K : i \in Nat
  BY PlacesAreMods
<1>2. First(K) \in K /\ \A j \in K : First(K) <= j
  BY DEF First, IsFirst
<1>3. QED
  BY <1>1, <1>2 DEF IsFirst

LEMMA EmptyElements ==
  ASSUME NEW S, NEW s \in Seq(S)
  PROVE  s # <<>> <=> Elements(s) # {}
<1>1. CASE s = <<>>
  <2>1. DOMAIN s = {}
    BY <1>1
  <2>2. QED
    BY <1>1, <2>1 DEF Elements
<1>2. CASE s # <<>>
  <2>1. 1 \in DOMAIN s
    BY <1>2, TailElements
  <2>2. QED
    BY <1>2, <2>1 DEF Elements
<1>3. QED
  BY <1>1, <1>2

LEMMA PairAdded ==
  ASSUME NEW m \in Mods, NEW p \in Paths, NEW E \in SUBSET (Mods \X Paths)
  PROVE  E \cup {<<m, p>>} \in SUBSET (Mods \X Paths)
OBVIOUS

LEMMA FileAdded ==
  ASSUME NEW m \in Mods, NEW p \in Paths, NEW d \in [Mods -> SUBSET Paths]
  PROVE  [d EXCEPT ![m] = @ \cup {p}] \in [Mods -> SUBSET Paths]
OBVIOUS

-----------------------------------------------------------------------------
LEMMA CInit == ConflictsInit => CInv
<1> SUFFICES ASSUME ConflictsInit PROVE CInv
  OBVIOUS
<1> USE DEF ConflictsInit
<1>1. ConflictsTypeOK
  <2>1. <<>> \in Seq(Mods)
    OBVIOUS
  <2>2. losers \in [Paths -> Seq(Mods)]
    BY <2>1
  <2>3. next \in 1 .. (Len(Order) + 1)
    BY PlacesAreMods
  <2>4. QED
    BY <2>1, <2>2, <2>3 DEF ConflictsTypeOK
<1>2. ScanInv
  <2>1. \A p \in Paths : Seen(p) = {}
    BY PlacesAreMods DEF Seen, Providers, Places
  <2>2. \A p \in Paths : LosersOf(p) = {}
    BY DEF LosersOf
  <2>3. QED
    BY <2>1, <2>2 DEF ScanInv
<1>3. WinnersStay /\ DiskInRows /\ NothingLost
  BY DEF WinnersStay, DiskInRows, NothingLost, IsFirst, Providers
<1>4. QED
  BY <1>1, <1>2, <1>3 DEF CInv, Scanned, QueueInv, DoneInv, Drained

\* One mod of the list: the scan stays exact.
LEMMA ScanModKeeps ==
  ASSUME CInv, ScanMod
  PROVE  CInv'
<1> USE DEF CInv
<1> DEFINE m == Order[next]
<1>1. next \in Places /\ next \in Nat /\ m \in Mods /\ m # None /\ at = "scan"
  BY PlacesAreMods DEF ScanMod, ConflictsTypeOK, Places
<1>2. \A p \in Paths : losers[p] \in Seq(Mods)
  BY DEF ConflictsTypeOK
<1>3. /\ UNCHANGED <<rows, disk, backup, torn, at, left, entry, queue, copied, errors>>
      /\ next' = next + 1 /\ winner' = Claim(m)
      /\ \A p \in Paths : losers'[p] = IF p \in rows[m] /\ winner[p] # None
                                         THEN Append(losers[p], m) ELSE losers[p]
      /\ losers' = [p \in Paths |-> losers'[p]]
  BY DEF ScanMod, diskVars, pruneVars
<1>4. \A p \in Paths : winner'[p] = IF p \in rows[m] /\ winner[p] = None
                                      THEN m ELSE winner[p]
  BY <1>3 DEF Claim
<1>5. ASSUME NEW p \in Paths
      PROVE  LosersOf(p)' = IF p \in rows[m] /\ winner[p] # None
                              THEN LosersOf(p) \cup {m} ELSE LosersOf(p)
  <2>1. CASE p \in rows[m] /\ winner[p] # None
    <3>1. losers'[p] = Append(losers[p], m)
      BY <1>3, <2>1
    <3>2. losers[p] \in Seq(Mods) /\ m \in Mods
      BY <1>1, <1>2
    <3> HIDE DEF m
    <3>3. Elements(Append(losers[p], m)) = Elements(losers[p]) \cup {m}
      BY <3>2, AppendElements
    <3>4. QED
      BY <2>1, <3>1, <3>3 DEF LosersOf, Elements
  <2>2. CASE ~ (p \in rows[m] /\ winner[p] # None)
    <3>1. losers'[p] = losers[p]
      BY <1>3, <2>2
    <3>2. QED
      BY <2>2, <3>1 DEF LosersOf
  <2>3. QED
    BY <2>1, <2>2
<1>6. ASSUME NEW p \in Paths
      PROVE  Seen(p)' = IF p \in rows[m] THEN Seen(p) \cup {next} ELSE Seen(p)
  <2>1. \A k \in Places : k < next + 1 <=> k < next \/ k = next
    BY <1>1, PlacesAreMods
  <2>2. Seen(p)' = {k \in Places : p \in rows[Order[k]] /\ k < next + 1}
    BY <1>3 DEF Seen, Providers
  <2>3. Seen(p) = {k \in Places : p \in rows[Order[k]] /\ k < next}
    BY DEF Seen, Providers
  <2> HIDE DEF Seen
  <2>4. QED
    BY <1>1, <2>1, <2>2, <2>3
<1>7. ConflictsTypeOK'
  <2>1. winner' \in [Paths -> Mods \cup {None}]
    BY <1>1, <1>3 DEF Claim, ConflictsTypeOK
  <2>2. ASSUME NEW p \in Paths PROVE losers'[p] \in Seq(Mods)
    <3>1. losers[p] \in Seq(Mods) /\ m \in Mods
      BY <1>1, <1>2
    <3> HIDE DEF m
    <3>2. Append(losers[p], m) \in Seq(Mods)
      BY <3>1
    <3>3. QED
      BY <1>3, <3>1, <3>2 DEF m
  <2>3. losers' \in [Paths -> Seq(Mods)]
    BY <1>3, <2>2
  <2>4. next' \in 1 .. (Len(Order) + 1)
    BY <1>1, <1>3, PlacesAreMods DEF Places
  <2>5. QED
    BY <1>3, <2>1, <2>3, <2>4 DEF ConflictsTypeOK
<1>8. ScanInv'
  <2> SUFFICES ASSUME NEW p \in Paths
      PROVE /\ \/ winner'[p] = None /\ Seen(p)' = {}
               \/ \E k \in Seen(p)' : IsFirst(k, Seen(p)') /\ winner'[p] = Order[k]
            /\ \A k \in Seen(p)' : Order[k] = winner'[p] \/ Order[k] \in LosersOf(p)'
            /\ \A x \in LosersOf(p)' : x # winner'[p] /\ \E k \in Seen(p)' : x = Order[k]
    BY DEF ScanInv, IsFirst
  <2>1. \A k \in Seen(p) : k \in Places /\ k \in Nat /\ k < next
    BY PlacesAreMods DEF Seen, Providers
  <2>2. \A k \in Seen(p) : Order[k] # m
    BY <1>1, <2>1, OnePlace
  <2>3. /\ \/ winner[p] = None /\ Seen(p) = {}
           \/ \E k \in Seen(p) : IsFirst(k, Seen(p)) /\ winner[p] = Order[k]
        /\ \A k \in Seen(p) : Order[k] = winner[p] \/ Order[k] \in LosersOf(p)
        /\ \A x \in LosersOf(p) : x # winner[p] /\ \E k \in Seen(p) : x = Order[k]
    BY DEF ScanInv
  <2> HIDE DEF Seen, LosersOf, m
  <2>4. CASE p \notin rows[m]
    BY <1>4, <1>5, <1>6, <2>3, <2>4
  <2>5. CASE p \in rows[m] /\ winner[p] = None
    <3>1. Seen(p)' = {next} /\ winner'[p] = m /\ LosersOf(p)' = LosersOf(p)
      BY <1>1, <1>4, <1>5, <1>6, <2>1, <2>3, <2>5, PlacesAreMods
    <3>2. LosersOf(p) = {}
      BY <2>1, <2>3, <2>5, PlacesAreMods
    <3>3. IsFirst(next, {next})
      BY <1>1 DEF IsFirst
    <3>4. QED
      BY <3>1, <3>2, <3>3 DEF m
  <2>6. CASE p \in rows[m] /\ winner[p] # None
    <3>1. /\ Seen(p)' = Seen(p) \cup {next} /\ winner'[p] = winner[p]
          /\ LosersOf(p)' = LosersOf(p) \cup {m}
      BY <1>4, <1>5, <1>6, <2>6
    <3>2. PICK k \in Seen(p) : IsFirst(k, Seen(p)) /\ winner[p] = Order[k]
      BY <2>3, <2>6
    <3>3. IsFirst(k, Seen(p) \cup {next})
      BY <1>1, <2>1, <3>2 DEF IsFirst
    <3>4. winner[p] # m
      BY <2>2, <3>2
    <3>5. QED
      BY <2>3, <3>1, <3>2, <3>3, <3>4 DEF m
  <2>7. QED
    BY <2>4, <2>5, <2>6
<1>9. WinnersStay' /\ DiskInRows' /\ NothingLost'
  BY <1>3 DEF WinnersStay, DiskInRows, NothingLost, IsFirst, Providers
<1>10. QueueInv'
  BY <1>1, <1>3 DEF QueueInv
<1>11. QED
  BY <1>1, <1>3, <1>7, <1>8, <1>9, <1>10 DEF Scanned, DoneInv, Drained

\* What a step that leaves the rows and the scan, or the files, alone keeps.
LEMMA SameScan ==
  ASSUME ScanInv, UNCHANGED <<rows, scanVars>>
  PROVE  ScanInv'
  BY DEF ScanInv, scanVars, Seen, Providers, LosersOf, IsFirst

LEMMA SameFiles ==
  ASSUME WinnersStay, DiskInRows, NothingLost, UNCHANGED diskVars
  PROVE  WinnersStay' /\ DiskInRows' /\ NothingLost'
<1>1. WinnersStay'
  BY DEF WinnersStay, diskVars, Providers, IsFirst
<1>2. DiskInRows' /\ NothingLost'
  BY DEF DiskInRows, NothingLost, diskVars
<1>3. QED
  BY <1>1, <1>2

\* The end of the scan, the start of the pruning and a restart change no file.
LEMMA ScanDoneKeeps ==
  ASSUME CInv, ScanDone
  PROVE  CInv'
<1>1. /\ UNCHANGED <<diskVars, scanVars, pruneVars>> /\ at' = "scanned"
      /\ at = "scan" /\ next > Len(Order)
  BY DEF ScanDone
<1>2. next = Len(Order) + 1
  BY <1>1, PlacesAreMods DEF CInv, ConflictsTypeOK
<1>3. ScanInv' /\ WinnersStay' /\ DiskInRows' /\ NothingLost'
  BY <1>1, SameScan, SameFiles DEF CInv, diskVars
<1>4. ConflictsTypeOK'
  BY <1>1 DEF CInv, ConflictsTypeOK, diskVars, scanVars, pruneVars
<1>5. Scanned' /\ QueueInv' /\ DoneInv' /\ Drained'
  BY <1>1, <1>2 DEF CInv, Scanned, QueueInv, DoneInv, Drained, scanVars, pruneVars
<1>6. QED
  BY <1>3, <1>4, <1>5 DEF CInv

LEMMA StartPruneKeeps ==
  ASSUME CInv, StartPrune
  PROVE  CInv'
<1>1. /\ UNCHANGED <<diskVars, scanVars>> /\ at' = "prune" /\ at = "scanned"
      /\ left' = Contested
      /\ entry' = None /\ queue' = <<>> /\ copied' = FALSE /\ errors' = {}
  BY DEF StartPrune
<1>2. ConflictsTypeOK'
  <2>1. <<>> \in Seq(Mods) /\ Contested \subseteq Paths
    BY DEF Contested
  <2>2. QED
    BY <1>1, <2>1 DEF CInv, ConflictsTypeOK, diskVars, scanVars
<1>3. ScanInv' /\ WinnersStay' /\ DiskInRows' /\ NothingLost'
  BY <1>1, SameScan, SameFiles DEF CInv, diskVars
<1>4. Scanned' /\ QueueInv' /\ Drained'
  BY <1>1 DEF CInv, Scanned, QueueInv, Drained, scanVars
<1>5. DoneInv'
  BY <1>1 DEF DoneInv, Contested, scanVars
<1>6. QED
  BY <1>2, <1>3, <1>4, <1>5 DEF CInv

LEMMA RestartKeeps ==
  ASSUME CInv, Restart
  PROVE  CInv'
<1>1. /\ UNCHANGED diskVars /\ at' = "scan" /\ next' = 1
      /\ winner' = [p \in Paths |-> None] /\ losers' = [p \in Paths |-> <<>>]
      /\ left' = {} /\ entry' = None /\ queue' = <<>> /\ copied' = FALSE /\ errors' = {}
  BY DEF Restart
<1>2. ConflictsTypeOK'
  <2>1. <<>> \in Seq(Mods)
    OBVIOUS
  <2>2. losers' \in [Paths -> Seq(Mods)]
    BY <1>1, <2>1
  <2>3. next' \in 1 .. (Len(Order) + 1)
    BY <1>1, PlacesAreMods
  <2>4. QED
    BY <1>1, <2>1, <2>2, <2>3 DEF CInv, ConflictsTypeOK, diskVars
<1>3. ScanInv'
  <2>1. \A p \in Paths : Seen(p)' = {}
    BY <1>1, PlacesAreMods DEF Seen, Providers, Places
  <2>2. \A p \in Paths : LosersOf(p)' = {}
    BY <1>1 DEF LosersOf
  <2>3. QED
    BY <1>1, <2>1, <2>2 DEF ScanInv
<1>4. WinnersStay' /\ DiskInRows' /\ NothingLost'
  BY <1>1, SameFiles DEF CInv
<1>5. QED
  BY <1>1, <1>2, <1>3, <1>4 DEF CInv, Scanned, QueueInv, DoneInv, Drained

\* The steps of the pruning leave the rows and what the scan has found alone.
LEMMA PruneKeepsScan ==
  ASSUME CInv, PruneStep
  PROVE  UNCHANGED <<rows, scanVars>> /\ at = "prune" /\ at' # "scan" /\ ScanInv' /\ Scanned'
<1>1. UNCHANGED <<rows, scanVars>> /\ at = "prune" /\ at' # "scan"
  BY DEF CInv, QueueInv, PruneStep, NextEntry, SkipMissing, CopyLoser, CopyFails,
     RemoveLoser, RemoveFails, PruneDone, diskVars, scanVars
<1>2. QED
  BY <1>1, SameScan DEF CInv, Scanned, scanVars

\* The head of the queue is a loser of the entry, and so not its winner.
LEMMA HeadIsLoser ==
  ASSUME CInv, queue # <<>>
  PROVE  /\ entry \in Paths /\ Loser \in Mods /\ Loser \in LosersOf(entry)
         /\ Tail(queue) \in Seq(Mods)
         /\ \A n \in DOMAIN Tail(queue) : Tail(queue)[n] \in LosersOf(entry)
         /\ \A k \in Places : IsFirst(k, Providers(rows, entry)) => Order[k] # Loser
<1>1. queue \in Seq(Mods) /\ entry \in Paths /\ at = "prune"
  BY DEF CInv, ConflictsTypeOK, QueueInv
<1>2. \A n \in DOMAIN queue : queue[n] \in LosersOf(entry)
  BY DEF CInv, QueueInv
<1>3. /\ Loser \in Mods /\ Loser \in LosersOf(entry) /\ Tail(queue) \in Seq(Mods)
      /\ \A n \in DOMAIN Tail(queue) : Tail(queue)[n] \in LosersOf(entry)
  BY <1>1, <1>2, TailElements DEF Loser
<1>4. Seen(entry) = Providers(rows, entry)
  <2>1. next = Len(Order) + 1
    BY <1>1 DEF CInv, Scanned
  <2>2. QED
    BY <2>1, PlacesAreMods DEF Seen, Providers, Places
<1>5. ASSUME NEW k \in Places, IsFirst(k, Providers(rows, entry))
      PROVE  Order[k] # Loser
  <2>1. k \in Seen(entry)
    BY <1>4, <1>5 DEF IsFirst
  <2>2. PICK j \in Seen(entry) : IsFirst(j, Seen(entry)) /\ winner[entry] = Order[j]
    BY <1>1, <2>1 DEF CInv, ScanInv
  <2>3. j \in Places /\ j = k
    BY <1>4, <1>5, <2>1, <2>2, PlacesAreMods DEF IsFirst, Providers
  <2>4. Loser # winner[entry]
    BY <1>1, <1>3 DEF CInv, ScanInv
  <2>5. QED
    BY <2>2, <2>3, <2>4
<1>6. QED
  BY <1>1, <1>3, <1>5

\* A step that neither adds to the queue nor takes from the entries to come, and
\* never gives a file back: what is done stays done.
LEMMA DoneStays ==
  ASSUME CInv, at = "prune", at' = "prune", UNCHANGED <<scanVars, left, entry>>,
         queue # <<>>, queue' = Tail(queue), errors \subseteq errors',
         \A m \in Mods : disk'[m] \subseteq disk[m],
         \/ entry \notin disk'[Loser]
         \/ <<Loser, entry>> \in errors'
  PROVE  DoneInv'
<1> SUFFICES ASSUME NEW p \in Contested \ left, NEW m \in LosersOf(p), p \in disk'[m]
             PROVE  \/ <<m, p>> \in errors'
                    \/ p = entry /\ \E n \in DOMAIN queue' : queue'[n] = m
  BY DEF DoneInv, scanVars, Contested, LosersOf
<1>1. m \in Mods /\ queue \in Seq(Mods)
  BY DEF CInv, ConflictsTypeOK, LosersOf, Contested
<1>2. p \in disk[m]
  BY <1>1
<1>3. <<m, p>> \in errors \/ (p = entry /\ \E n \in DOMAIN queue : queue[n] = m)
  BY <1>2 DEF CInv, DoneInv
<1>4. CASE <<m, p>> \in errors
  BY <1>4
<1>5. CASE p = entry /\ \E n \in DOMAIN queue : queue[n] = m
  <2>1. PICK n \in DOMAIN queue : queue[n] = m
    BY <1>5
  <2>2. CASE n = 1
    BY <1>1, <1>5, <2>1, <2>2, TailElements DEF Loser
  <2>3. CASE n # 1
    BY <1>1, <1>5, <2>1, <2>3, TailElements
  <2>4. QED
    BY <2>2, <2>3
<1>6. QED
  BY <1>3, <1>4, <1>5

-----------------------------------------------------------------------------
LEMMA NextEntryKeeps ==
  ASSUME CInv, NextEntry
  PROVE  CInv'
<1>1. PICK p \in left : entry' = p /\ queue' = losers[p] /\ left' = left \ {p}
  BY DEF NextEntry
<1>2. /\ UNCHANGED <<diskVars, at, scanVars, copied, errors>>
      /\ at = "prune" /\ queue = <<>> /\ copied = FALSE
  BY DEF NextEntry, CInv, QueueInv, ConflictsTypeOK
<1>3. p \in Paths /\ losers[p] \in Seq(Mods)
  BY DEF CInv, ConflictsTypeOK
<1>4. ConflictsTypeOK'
  BY <1>1, <1>2, <1>3 DEF CInv, ConflictsTypeOK, diskVars, scanVars
<1>5. ScanInv' /\ Scanned' /\ WinnersStay' /\ DiskInRows' /\ NothingLost' /\ Drained'
  BY <1>2, SameScan, SameFiles DEF CInv, Scanned, Drained, diskVars, scanVars
<1>6. QueueInv'
  BY <1>1, <1>2, <1>3 DEF QueueInv, LosersOf, scanVars
<1>7. DoneInv'
  <2> SUFFICES ASSUME NEW q \in Contested \ (left \ {p}), NEW m \in LosersOf(q),
                      q \in disk[m]
               PROVE  \/ <<m, q>> \in errors
                      \/ q = p /\ \E n \in DOMAIN losers[p] : losers[p][n] = m
    BY <1>1, <1>2 DEF DoneInv, Contested, LosersOf, diskVars, scanVars
  <2>1. CASE q = p
    BY <2>1 DEF LosersOf
  <2>2. CASE q # p
    <3>1. <<m, q>> \in errors \/ \E n \in DOMAIN queue : queue[n] = m
      BY <1>2, <2>2 DEF CInv, DoneInv
    <3>2. QED
      BY <1>2, <3>1
  <2>3. QED
    BY <2>1, <2>2
<1>8. QED
  BY <1>4, <1>5, <1>6, <1>7 DEF CInv

LEMMA SkipMissingKeeps ==
  ASSUME CInv, SkipMissing
  PROVE  CInv'
<1>1. /\ UNCHANGED <<diskVars, at, scanVars, left, entry, errors>>
      /\ at = "prune" /\ queue # <<>> /\ entry \notin disk[Loser]
      /\ queue' = Tail(queue) /\ copied' = FALSE
  BY DEF SkipMissing, NextLoser
<1>2. ConflictsTypeOK'
  BY <1>1, HeadIsLoser DEF CInv, ConflictsTypeOK, diskVars, scanVars
<1>3. ScanInv' /\ Scanned' /\ WinnersStay' /\ DiskInRows' /\ NothingLost' /\ Drained'
  BY <1>1, SameScan, SameFiles DEF CInv, Scanned, Drained, diskVars, scanVars
<1>4. QueueInv'
  BY <1>1, HeadIsLoser DEF QueueInv, LosersOf, scanVars
<1>5. DoneInv'
  BY <1>1, DoneStays DEF diskVars
<1>6. QED
  BY <1>2, <1>3, <1>4, <1>5 DEF CInv

LEMMA CopyLoserKeeps ==
  ASSUME CInv, CopyLoser
  PROVE  CInv'
<1>1. /\ UNCHANGED <<rows, disk, at, scanVars, left, entry, queue, errors>>
      /\ at = "prune" /\ queue # <<>> /\ copied' = TRUE
      /\ backup' = [backup EXCEPT ![Loser] = @ \cup {entry}]
      /\ torn' = [torn EXCEPT ![Loser] = @ \ {entry}]
  BY DEF CopyLoser
<1>2. entry \in Paths /\ Loser \in Mods
  BY <1>1, HeadIsLoser
<1>3. ConflictsTypeOK'
  BY <1>1, <1>2 DEF CInv, ConflictsTypeOK, scanVars
<1>4. ScanInv' /\ Scanned' /\ Drained'
  BY <1>1, SameScan DEF CInv, Scanned, Drained, scanVars
<1>5. WinnersStay' /\ DiskInRows'
  BY <1>1 DEF CInv, WinnersStay, DiskInRows, Providers, IsFirst
<1>6. NothingLost'
  BY <1>1, <1>2 DEF CInv, NothingLost, ConflictsTypeOK
<1>7. QueueInv'
  BY <1>1, <1>2 DEF CInv, QueueInv, LosersOf, scanVars, Loser, ConflictsTypeOK
<1>8. DoneInv'
  BY <1>1 DEF CInv, DoneInv, Contested, LosersOf, scanVars
<1>9. QED
  BY <1>3, <1>4, <1>5, <1>6, <1>7, <1>8 DEF CInv

\* A copy that fails may tear the backup, but then the mod still has its file.
LEMMA CopyFailsKeeps ==
  ASSUME CInv, CopyFails
  PROVE  CInv'
<1>1. /\ UNCHANGED <<rows, disk, at, scanVars, left, entry>>
      /\ at = "prune" /\ queue # <<>> /\ entry \in disk[Loser]
      /\ queue' = Tail(queue) /\ copied' = FALSE
      /\ errors' = errors \cup {<<Loser, entry>>}
  BY DEF CopyFails, NextLoser, Failed
<1>2. \/ UNCHANGED <<backup, torn>>
      \/ /\ backup' = [backup EXCEPT ![Loser] = @ \cup {entry}]
         /\ torn' = [torn EXCEPT ![Loser] = @ \cup {entry}]
  BY DEF CopyFails
<1>3. entry \in Paths /\ Loser \in Mods /\ Tail(queue) \in Seq(Mods)
  BY <1>1, HeadIsLoser
<1>4. ConflictsTypeOK'
  <2>1. errors' \in SUBSET (Mods \X Paths)
    BY <1>1, <1>3, PairAdded DEF CInv, ConflictsTypeOK
  <2>2. queue' \in Seq(Mods) /\ copied' \in BOOLEAN
    BY <1>1, <1>3
  <2>3. backup' \in [Mods -> SUBSET Paths] /\ torn' \in [Mods -> SUBSET Paths]
    <3>1. backup \in [Mods -> SUBSET Paths] /\ torn \in [Mods -> SUBSET Paths]
      BY DEF CInv, ConflictsTypeOK
    <3>2. /\ [backup EXCEPT ![Loser] = @ \cup {entry}] \in [Mods -> SUBSET Paths]
          /\ [torn EXCEPT ![Loser] = @ \cup {entry}] \in [Mods -> SUBSET Paths]
      BY <1>3, <3>1, FileAdded
    <3>3. QED
      BY <1>2, <3>1, <3>2
  <2>4. QED
    BY <1>1, <2>1, <2>2, <2>3 DEF CInv, ConflictsTypeOK, scanVars
<1>5. ScanInv' /\ Scanned' /\ Drained'
  BY <1>1, SameScan DEF CInv, Scanned, Drained, scanVars
<1>6. WinnersStay' /\ DiskInRows'
  BY <1>1 DEF CInv, WinnersStay, DiskInRows, Providers, IsFirst
<1>7. NothingLost'
  BY <1>1, <1>2, <1>3 DEF CInv, NothingLost, ConflictsTypeOK
<1>8. QueueInv'
  BY <1>1, HeadIsLoser DEF QueueInv, LosersOf, scanVars
<1>9. DoneInv'
  BY <1>1, DoneStays
<1>10. QED
  BY <1>4, <1>5, <1>6, <1>7, <1>8, <1>9 DEF CInv

\* The file that goes is not its path's winner, and its backup is whole.
LEMMA RemoveLoserKeeps ==
  ASSUME CInv, RemoveLoser
  PROVE  CInv'
<1>1. /\ UNCHANGED <<rows, backup, torn, at, scanVars, left, entry, errors>>
      /\ at = "prune" /\ copied /\ queue # <<>>
      /\ disk' = [disk EXCEPT ![Loser] = @ \ {entry}]
      /\ queue' = Tail(queue) /\ copied' = FALSE
  BY DEF RemoveLoser, NextLoser, CInv, QueueInv
<1>2. entry \in Paths /\ Loser \in Mods /\ Tail(queue) \in Seq(Mods)
  BY <1>1, HeadIsLoser
<1>3. \A m \in Mods : disk'[m] = IF m = Loser THEN disk[m] \ {entry} ELSE disk[m]
  BY <1>1, <1>2 DEF CInv, ConflictsTypeOK
<1>4. ConflictsTypeOK'
  BY <1>1, <1>2 DEF CInv, ConflictsTypeOK, scanVars
<1>5. ScanInv' /\ Scanned' /\ Drained'
  BY <1>1, SameScan DEF CInv, Scanned, Drained, scanVars
<1>6. WinnersStay'
  <2> SUFFICES ASSUME NEW p \in Paths, NEW k \in Places, IsFirst(k, Providers(rows, p))
               PROVE  p \in disk'[Order[k]]
    BY <1>1 DEF WinnersStay, IsFirst, Providers
  <2>1. p \in disk[Order[k]] /\ Order[k] \in Mods
    BY PlacesAreMods DEF CInv, WinnersStay
  <2>2. p = entry => Order[k] # Loser
    BY <1>1, HeadIsLoser
  <2>3. QED
    BY <1>3, <2>1, <2>2
<1>7. DiskInRows'
  BY <1>1, <1>3 DEF CInv, DiskInRows
<1>8. NothingLost'
  <2>1. entry \in backup[Loser] \ torn[Loser]
    BY <1>1 DEF CInv, QueueInv, Loser
  <2>2. QED
    BY <1>1, <1>3, <2>1 DEF CInv, NothingLost
<1>9. QueueInv'
  BY <1>1, HeadIsLoser DEF QueueInv, LosersOf, scanVars
<1>10. DoneInv'
  <2>1. entry \notin disk'[Loser] /\ \A m \in Mods : disk'[m] \subseteq disk[m]
    BY <1>2, <1>3
  <2>2. QED
    BY <1>1, <2>1, DoneStays
<1>11. QED
  BY <1>4, <1>5, <1>6, <1>7, <1>8, <1>9, <1>10 DEF CInv

LEMMA RemoveFailsKeeps ==
  ASSUME CInv, RemoveFails
  PROVE  CInv'
<1>1. /\ UNCHANGED <<diskVars, at, scanVars, left, entry>>
      /\ at = "prune" /\ queue # <<>>
      /\ queue' = Tail(queue) /\ copied' = FALSE
      /\ errors' = errors \cup {<<Loser, entry>>}
  BY DEF RemoveFails, NextLoser, Failed, CInv, QueueInv
<1>2. entry \in Paths /\ Loser \in Mods /\ Tail(queue) \in Seq(Mods)
  BY <1>1, HeadIsLoser
<1>3. ConflictsTypeOK'
  <2>1. errors' \in SUBSET (Mods \X Paths)
    BY <1>1, <1>2, PairAdded DEF CInv, ConflictsTypeOK
  <2>2. queue' \in Seq(Mods) /\ copied' \in BOOLEAN
    BY <1>1, <1>2
  <2>3. QED
    BY <1>1, <2>1, <2>2 DEF CInv, ConflictsTypeOK, diskVars, scanVars
<1>4. ScanInv' /\ Scanned' /\ WinnersStay' /\ DiskInRows' /\ NothingLost' /\ Drained'
  BY <1>1, SameScan, SameFiles DEF CInv, Scanned, Drained, diskVars, scanVars
<1>5. QueueInv'
  BY <1>1, HeadIsLoser DEF QueueInv, LosersOf, scanVars
<1>6. DoneInv'
  BY <1>1, DoneStays DEF diskVars
<1>7. QED
  BY <1>3, <1>4, <1>5, <1>6 DEF CInv

LEMMA PruneDoneKeeps ==
  ASSUME CInv, PruneDone
  PROVE  CInv'
<1>1. /\ UNCHANGED <<diskVars, scanVars, pruneVars>>
      /\ at = "prune" /\ at' = "pruned" /\ queue = <<>> /\ left = {}
  BY DEF PruneDone
<1>2. ConflictsTypeOK'
  BY <1>1 DEF CInv, ConflictsTypeOK, diskVars, scanVars, pruneVars
<1>3. ScanInv' /\ Scanned' /\ WinnersStay' /\ DiskInRows' /\ NothingLost'
  BY <1>1, SameScan, SameFiles DEF CInv, Scanned, diskVars, scanVars
<1>4. QueueInv' /\ Drained'
  BY <1>1 DEF CInv, QueueInv, Drained, LosersOf, scanVars, pruneVars, diskVars
<1>5. DoneInv'
  BY <1>1 DEF CInv, DoneInv, Contested, LosersOf, diskVars, scanVars, pruneVars
<1>6. QED
  BY <1>2, <1>3, <1>4, <1>5 DEF CInv

\* The invariant is inductive.
LEMMA CInvStep ==
  ASSUME CInv, [ConflictsNext]_conflictVars
  PROVE  CInv'
<1>1. CASE ScanMod
  BY <1>1, ScanModKeeps
<1>2. CASE ScanDone
  BY <1>2, ScanDoneKeeps
<1>3. CASE StartPrune
  BY <1>3, StartPruneKeeps
<1>4. CASE PruneStep
  BY <1>4, NextEntryKeeps, SkipMissingKeeps, CopyLoserKeeps, CopyFailsKeeps,
     RemoveLoserKeeps, RemoveFailsKeeps, PruneDoneKeeps DEF PruneStep
<1>5. CASE Restart
  BY <1>5, RestartKeeps
<1>6. CASE UNCHANGED conflictVars
  <2>1. UNCHANGED <<rows, diskVars, scanVars, pruneVars, at>>
    BY <1>6 DEF conflictVars, diskVars, scanVars, pruneVars
  <2>2. ScanInv' /\ WinnersStay' /\ DiskInRows' /\ NothingLost'
    BY <2>1, SameScan, SameFiles DEF CInv
  <2>3. ConflictsTypeOK'
    BY <2>1 DEF CInv, ConflictsTypeOK, diskVars, scanVars, pruneVars
  <2>4. Scanned' /\ QueueInv' /\ DoneInv' /\ Drained'
    BY <2>1 DEF CInv, Scanned, QueueInv, DoneInv, Drained, Contested, LosersOf,
       diskVars, scanVars, pruneVars
  <2>5. QED
    BY <2>2, <2>3, <2>4 DEF CInv
<1>7. QED
  BY <1>1, <1>2, <1>3, <1>4, <1>5, <1>6 DEF ConflictsNext

-----------------------------------------------------------------------------
\* What the mount shows at a path is what its first provider has, and that is the
\* winner of the conflict map.
LEMMA WinnerShown ==
  ASSUME CInv, at # "scan", NEW p \in Paths
  PROVE  /\ winner[p] = Shown(disk, p)
         /\ Seen(p) = Providers(rows, p)
         /\ Providers(rows, p) # {} =>
              /\ IsFirst(First(Providers(rows, p)), Providers(rows, p))
              /\ winner[p] = Order[First(Providers(rows, p))]
<1>1. Seen(p) = Providers(rows, p)
  BY PlacesAreMods DEF CInv, Scanned, Seen, Providers, Places
<1>2. Providers(disk, p) \subseteq Providers(rows, p)
  BY PlacesAreMods DEF CInv, DiskInRows, Providers
<1>3. CASE Providers(rows, p) = {}
  <2>1. winner[p] = None
    BY <1>1, <1>3 DEF CInv, ScanInv
  <2>2. QED
    BY <1>1, <1>2, <1>3, <2>1 DEF Shown
<1>4. CASE Providers(rows, p) # {}
  <2>1. PICK k \in Seen(p) : IsFirst(k, Seen(p)) /\ winner[p] = Order[k]
    BY <1>1, <1>4 DEF CInv, ScanInv
  <2>2. k \in Places /\ IsFirst(k, Providers(rows, p))
    BY <1>1, <2>1 DEF Providers
  <2>3. p \in disk[Order[k]]
    BY <2>2 DEF CInv, WinnersStay
  <2>4. IsFirst(k, Providers(disk, p))
    BY <1>2, <2>2, <2>3 DEF IsFirst, Providers
  <2>5. First(Providers(rows, p)) = k
    BY <2>2, FirstIs DEF Providers
  <2>6. First(Providers(disk, p)) = k /\ Providers(disk, p) # {}
    BY <2>4, FirstIs DEF Providers, IsFirst
  <2>7. QED
    BY <1>1, <2>1, <2>2, <2>5, <2>6 DEF Shown
<1>5. QED
  BY <1>3, <1>4

\* A mod hides another one's file exactly when it wins a contested path, and is
\* hidden exactly when it loses one.
LEMMA RolesFollow ==
  ASSUME CInv, at # "scan", NEW k \in Places
  PROVE  /\ Hides(k) <=> Wins(Order[k]) # {}
         /\ Hidden(k) <=> Losses(Order[k]) # {}
<1> DEFINE m == Order[k]
<1>1. m \in Mods /\ rows[m] \subseteq Paths /\ k \in Nat
  BY PlacesAreMods DEF CInv, ConflictsTypeOK
<1>2. ASSUME NEW p \in Paths
      PROVE  /\ p \in Contested <=> LosersOf(p) # {}
             /\ \A j \in Providers(rows, p) : Order[j] = winner[p] \/ Order[j] \in LosersOf(p)
             /\ \A x \in LosersOf(p) : x # winner[p] /\ \E j \in Providers(rows, p) : x = Order[j]
             /\ p \in rows[m] <=> k \in Providers(rows, p)
  <2>1. losers[p] \in Seq(Mods)
    BY DEF CInv, ConflictsTypeOK
  <2>2. p \in Contested <=> LosersOf(p) # {}
    BY <2>1, EmptyElements DEF Contested, LosersOf, Elements
  <2>3. Seen(p) = Providers(rows, p)
    BY WinnerShown
  <2>4. p \in rows[m] <=> k \in Providers(rows, p)
    BY DEF Providers
  <2>5. QED
    BY <2>2, <2>3, <2>4 DEF CInv, ScanInv
<1>3. ASSUME NEW p \in Paths, k \in Providers(rows, p)
      PROVE  /\ First(Providers(rows, p)) = k <=> winner[p] = m
             /\ First(Providers(rows, p)) # k <=> m \in LosersOf(p)
  <2>1. /\ First(Providers(rows, p)) \in Places
        /\ winner[p] = Order[First(Providers(rows, p))]
    BY <1>3, WinnerShown DEF IsFirst, Providers
  <2>2. First(Providers(rows, p)) = k <=> winner[p] = m
    BY <2>1, OnePlace
  <2>3. QED
    BY <1>2, <1>3, <2>2
<1>4. ASSUME NEW p \in Paths, winner[p] = m, Providers(rows, p) # {}
      PROVE  k \in Providers(rows, p)
  <2>1. /\ First(Providers(rows, p)) \in Providers(rows, p)
        /\ First(Providers(rows, p)) \in Places
        /\ m = Order[First(Providers(rows, p))]
    BY <1>4, WinnerShown DEF IsFirst, Providers
  <2>2. QED
    BY <2>1, OnePlace
<1>5. ASSUME NEW p \in Paths, k \in Providers(rows, p), First(Providers(rows, p)) = k
      PROVE  Providers(rows, p) # {k} <=> p \in Contested
  <2>1. \A j \in Providers(rows, p) : j \in Places
    BY DEF Providers
  <2>2. ASSUME NEW j \in Providers(rows, p), j # k
        PROVE  Order[j] \in LosersOf(p)
    <3>1. Order[j] # m
      BY <2>1, <2>2, OnePlace
    <3>2. QED
      BY <1>2, <1>3, <1>5, <3>1
  <2>3. ASSUME NEW x \in LosersOf(p)
        PROVE  \E j \in Providers(rows, p) : j # k
    BY <1>2, <1>3, <1>5
  <2>4. QED
    BY <1>2, <1>5, <2>2, <2>3
<1>6. Hides(k) <=> \E p \in Paths : p \in Contested /\ winner[p] = m
  <2>1. ASSUME NEW p \in Paths, p \in Contested, winner[p] = m
        PROVE  p \in rows[m] /\ First(Providers(rows, p)) = k /\ Providers(rows, p) # {k}
    <3>1. Providers(rows, p) # {}
      BY <1>2, <2>1
    <3>2. QED
      BY <1>2, <1>3, <1>4, <1>5, <2>1, <3>1
  <2>2. QED
    BY <1>1, <1>2, <1>3, <1>5, <2>1 DEF Hides
<1>7. Hidden(k) <=> \E p \in Paths : m \in LosersOf(p)
  <2>1. ASSUME NEW p \in Paths, m \in LosersOf(p)
        PROVE  k \in Providers(rows, p)
    <3>1. PICK j \in Providers(rows, p) : m = Order[j]
      BY <1>2, <2>1
    <3>2. j = k
      BY <3>1, OnePlace DEF Providers
    <3>3. QED
      BY <3>1, <3>2
  <2>2. QED
    BY <1>1, <1>2, <1>3, <2>1 DEF Hidden
<1>8. Wins(m) # {} <=> \E p \in Paths : p \in Contested /\ winner[p] = m
  BY DEF Wins, Contested
<1>9. Losses(m) # {} <=> \E p \in Paths : m \in LosersOf(p)
  <2>1. \A p \in Paths : m \in LosersOf(p) => p \in Contested
    BY <1>2
  <2>2. QED
    BY <2>1 DEF Losses, Contested
<1>10. QED
  BY <1>6, <1>7, <1>8, <1>9

-----------------------------------------------------------------------------
LEMMA CInvMeans ==
  ASSUME CInv
  PROVE  MapIsTrue /\ PruneIsSafe
<1>1. WinnerIsShown
  BY WinnerShown DEF WinnerIsShown
<1>2. RolesTrue
  <2> SUFFICES ASSUME at # "scan", NEW k \in Places
               PROVE  /\ Hides(k) <=> RoleOf(Order[k]) \in {"Winner", "Both"}
                      /\ Hidden(k) <=> RoleOf(Order[k]) \in {"Loser", "Both"}
    BY DEF RolesTrue
  <2>1. QED
    BY RolesFollow DEF RoleOf
<1>3. LosersPruned
  BY DEF CInv, DoneInv, Drained, LosersPruned
<1>4. QED
  BY <1>1, <1>2, <1>3 DEF CInv, MapIsTrue, PruneIsSafe

\* The inductive invariant of the scan and the pruning holds for every list of
\* mods, every set of paths and every row in the database.
THEOREM ConflictsInvHolds == ConflictsSpec => []CInv
<1>1. ConflictsInit => CInv
  BY CInit
<1>2. CInv /\ [ConflictsNext]_conflictVars => CInv'
  BY CInvStep
<1>3. QED
  BY <1>1, <1>2, PTL DEF ConflictsSpec

\* detect and the roles tell what the mount will show, before, while and after
\* prune_losers moves files away and wherever it stops.
THEOREM MapCorrect == ConflictsSpec => []MapIsTrue
<1>1. CInv => MapIsTrue
  BY CInvMeans
<1>2. QED
  BY <1>1, ConflictsInvHolds, PTL

\* prune_losers loses no file, and leaves none of a loser without an error.
THEOREM PruneCorrect == ConflictsSpec => []PruneIsSafe
<1>1. CInv => PruneIsSafe
  BY CInvMeans
<1>2. QED
  BY <1>1, ConflictsInvHolds, PTL

(***************************************************************************)
(* The stack of mounts (Overlay), under which the scan and the pruning run. *)
(***************************************************************************)

\* The winner of a path is at place k, by the rows of the database.
WinsAt(p, k) == k \in Places /\ IsFirst(k, Providers(rows, p))
Nobody(p) == Providers(rows, p) = {}

\* The n-th directory of the final mount is that of chunk n.
InOrder ==
  /\ merges \in Seq(Nat) /\ Len(merges) <= ChunkCount
  /\ \A i \in DOMAIN merges : merges[i] = i
  /\ stage = "idle" => merges = <<>>
  /\ stage = "mount" => Len(merges) < ChunkCount

ViewTypeOK == view \in [Chunks \cup {Final} -> [Paths -> Mods \cup {None}]]

ChunkShows ==
  \A c \in DOMAIN merges : \A p \in Paths :
    /\ \A k \in PlacesOf(c) : WinsAt(p, k) => view[c][p] = Order[k]
    /\ Providers(rows, p) \cap PlacesOf(c) = {} => view[c][p] = None

FinalShows ==
  stage = "up" => \A p \in Paths :
    /\ \A k \in Places : WinsAt(p, k) => view[Final][p] = Order[k]
    /\ Nobody(p) => view[Final][p] = None

ViewInv == InOrder /\ ViewTypeOK /\ ChunkShows /\ FinalShows

\* Every mount has a handle, is the final one or has refused to go.
Known(c) ==
  \/ c \in stuck
  \/ stage = "up" /\ c = Final
  \/ \E i \in DOMAIN handles : handles[i] = c

HandlesOK ==
  /\ handles \in Seq(Nat)
  /\ \A i \in DOMAIN handles :
       handles[i] \in Chunks \cap mounted /\ handles[i] \notin stuck /\ handles[i] <= Len(merges)
  /\ \A i, j \in DOMAIN handles : handles[i] = handles[j] => i = j

MountInv ==
  /\ stage \in {"idle", "mount", "chunks", "up", "cleanup", "failed", "abandoned",
                "down", "off"}
  /\ tempDirs \subseteq Chunks
  /\ mounted \subseteq Chunks \cup {Final} /\ stuck \subseteq mounted
  /\ stage \in {"idle", "mount", "chunks", "up"} => stuck = {}
  /\ stage = "up" => Final \in mounted
  /\ stage \in {"failed", "off"} => handles = <<>>
  /\ stage # "abandoned" => \A c \in mounted : Known(c)
  /\ HandlesOK

-----------------------------------------------------------------------------
\* A chunk is an interval of the list, the chunks follow one another, and every
\* place is in one.
LEMMA DivBounds ==
  ASSUME NEW a \in Nat, NEW S \in Nat \ {0}
  PROVE  a \div S \in Nat /\ S * (a \div S) <= a /\ a < S * (a \div S) + S
OBVIOUS

LEMMA MulLeq ==
  ASSUME NEW a \in Nat, NEW b \in Nat, NEW S \in Nat \ {0}, a <= b
  PROVE  a * S <= b * S
OBVIOUS

LEMMA MulLess ==
  ASSUME NEW a \in Nat, NEW b \in Nat, NEW S \in Nat \ {0}, S * a < S * b
  PROVE  a < b
OBVIOUS

LEMMA CountIsNat == ChunkCount \in Nat /\ Chunks \subseteq Nat \ {0} /\ Final \notin Chunks
<1>1. Len(Order) + ChunkSize - 1 \in Nat
  BY OrderAssumption, ChunkAssumption
<1>2. ChunkCount \in Nat
  BY <1>1, ChunkAssumption, DivBounds DEF ChunkCount
<1>3. QED
  BY <1>2 DEF Chunks, Final

LEMMA SomeChunk == 0 < ChunkCount
<1> DEFINE n == Len(Order)
           S == ChunkSize
<1>1. n \in Nat /\ S \in Nat \ {0} /\ n > S /\ n + S - 1 \in Nat
  BY OrderAssumption, ChunkAssumption
<1>2. n + S - 1 < S * ChunkCount + S /\ S * ChunkCount \in Nat /\ ChunkCount \in Nat
  BY <1>1, DivBounds, CountIsNat DEF ChunkCount
<1>3. S * 0 = 0 /\ S * 0 < S * ChunkCount
  BY <1>1, <1>2
<1>4. QED
  BY <1>1, <1>2, <1>3, MulLess

LEMMA EarlierChunkFirst ==
  ASSUME NEW c \in Chunks, NEW d \in Chunks, c < d,
         NEW j \in PlacesOf(c), NEW k \in PlacesOf(d)
  PROVE  j < k
<1>1. c \in Nat /\ d - 1 \in Nat /\ c <= d - 1 /\ ChunkSize \in Nat \ {0}
  BY CountIsNat, ChunkAssumption
<1>2. c * ChunkSize <= (d - 1) * ChunkSize
  BY <1>1, MulLeq
<1>3. /\ j \in Nat /\ k \in Nat /\ j <= c * ChunkSize /\ (d - 1) * ChunkSize < k
      /\ c * ChunkSize \in Nat /\ (d - 1) * ChunkSize \in Nat
  BY <1>1, PlacesAreMods DEF PlacesOf
<1>4. QED
  BY <1>2, <1>3

LEMMA Cut ==
  ASSUME NEW k \in Places
  PROVE  \E c \in Chunks : k \in PlacesOf(c)
<1> DEFINE S == ChunkSize
           n == Len(Order)
           q == (k - 1) \div S
<1>1. S \in Nat \ {0} /\ n \in Nat /\ k - 1 \in Nat /\ k \in Nat /\ k <= n /\ n + S - 1 \in Nat
  BY ChunkAssumption, OrderAssumption DEF Places
<1>2. q \in Nat /\ S * q <= k - 1 /\ k - 1 < S * q + S
  BY <1>1, DivBounds
<1>3. ChunkCount \in Nat /\ n + S - 1 < S * ChunkCount + S
  BY <1>1, DivBounds DEF ChunkCount
<1> HIDE DEF q
<1>4. S * q \in Nat /\ S * ChunkCount \in Nat
  BY <1>1, <1>2, <1>3
<1>5. S * q < S * ChunkCount
  BY <1>1, <1>2, <1>3, <1>4
<1>6. q < ChunkCount
  BY <1>1, <1>2, <1>3, <1>5, MulLess
<1>7. q + 1 \in Chunks
  BY <1>2, <1>3, <1>6 DEF Chunks
<1>8. q * S = S * q /\ (q + 1) * S = S * q + S /\ (q + 1) - 1 = q
  BY <1>1, <1>2
<1>9. k \in PlacesOf(q + 1)
  BY <1>1, <1>2, <1>4, <1>8 DEF PlacesOf
<1>10. QED
  BY <1>7, <1>9

\* A set of places has a first one.
LEMMA HasFirst ==
  ASSUME NEW K, K \subseteq Places, K # {}
  PROVE  \E k \in K : IsFirst(k, K)
<1>1. K \subseteq Nat
  BY PlacesAreMods
<1>2. PICK k \in K : \A j \in K : ~(<<j, k>> \in OpToRel(<, Nat))
  BY <1>1, NatLessThanWellFounded, WFMin
<1>3. \A j \in K : k <= j
  <2> TAKE j \in K
  <2>1. j \in Nat /\ k \in Nat
    BY <1>1
  <2>2. ~(j < k)
    BY <1>2, <2>1 DEF OpToRel
  <2>3. QED
    BY <2>1, <2>2
<1>4. QED
  BY <1>3 DEF IsFirst

\* Unless nobody has a path some place wins it.
LEMMA SomeoneWins ==
  ASSUME NEW p \in Paths, ~Nobody(p)
  PROVE  \E k \in Places : WinsAt(p, k)
<1>1. Providers(rows, p) # {} /\ Providers(rows, p) \subseteq Places
  BY DEF Nobody, Providers
<1>2. QED
  BY <1>1, HasFirst DEF WinsAt

LEMMA OneWinner ==
  ASSUME NEW p, NEW j, NEW k, WinsAt(p, j), WinsAt(p, k)
  PROVE  j = k
BY PlacesAreMods DEF WinsAt, IsFirst

-----------------------------------------------------------------------------
\* What a mount of chunk c shows now.
LEMMA ChunkViewIs ==
  ASSUME CInv, NEW c \in Chunks, NEW p \in Paths
  PROVE  /\ ChunkView(c)[p] \in Mods \cup {None}
         /\ \A k \in PlacesOf(c) : WinsAt(p, k) => ChunkView(c)[p] = Order[k]
         /\ Providers(rows, p) \cap PlacesOf(c) = {} => ChunkView(c)[p] = None
<1> DEFINE K == Providers(disk, p) \cap PlacesOf(c)
<1>1. ChunkView(c)[p] = IF K = {} THEN None ELSE Order[First(K)]
  BY DEF ChunkView
<1>2. Providers(disk, p) \subseteq Providers(rows, p)
  BY PlacesAreMods DEF Providers, CInv, DiskInRows
<1>3. ASSUME NEW k \in PlacesOf(c), WinsAt(p, k)
      PROVE  ChunkView(c)[p] = Order[k]
  <2>1. k \in Places /\ IsFirst(k, Providers(rows, p)) /\ p \in disk[Order[k]]
    BY <1>3 DEF CInv, WinnersStay, WinsAt
  <2>2. IsFirst(k, K) /\ K \subseteq Places
    BY <1>2, <1>3, <2>1 DEF IsFirst, Providers
  <2>3. First(K) = k /\ K # {}
    BY <2>2, FirstIs DEF IsFirst
  <2>4. QED
    BY <1>1, <2>3
<1>4. Providers(rows, p) \cap PlacesOf(c) = {} => ChunkView(c)[p] = None
  BY <1>1, <1>2
<1>5. ChunkView(c)[p] \in Mods \cup {None}
  <2>1. CASE K = {}
    BY <1>1, <2>1
  <2>2. CASE K # {}
    <3>1. K \subseteq Places
      BY DEF Providers
    <3>2. PICK k \in K : IsFirst(k, K)
      BY <2>2, <3>1, HasFirst
    <3>3. First(K) = k /\ k \in Places
      BY <3>1, <3>2, FirstIs
    <3>4. QED
      BY <1>1, <2>2, <3>3, PlacesAreMods
  <2>3. QED
    BY <2>1, <2>2
<1>6. QED
  BY <1>3, <1>4, <1>5

\* What a mount of all the chunks shows, once all are there.
LEMMA FinalViewIs ==
  ASSUME CInv, ViewInv, Len(merges) = ChunkCount, NEW p \in Paths
  PROVE  /\ FinalView[p] \in Mods \cup {None}
         /\ \A k \in Places : WinsAt(p, k) => FinalView[p] = Order[k]
         /\ Nobody(p) => FinalView[p] = None
<1> DEFINE K == {i \in DOMAIN merges : view[merges[i]][p] # None}
<1>1. FinalView[p] = IF K = {} THEN None ELSE view[merges[First(K)]][p]
  BY DEF FinalView
<1>2. /\ DOMAIN merges = Chunks /\ \A i \in Chunks : merges[i] = i
      /\ \A c \in Chunks : view[c][p] \in Mods \cup {None}
  BY DEF ViewInv, InOrder, ViewTypeOK, Chunks
<1>3. K = {i \in Chunks : view[i][p] # None}
  BY <1>2
<1>4. ASSUME NEW k \in Places, WinsAt(p, k)
      PROVE  FinalView[p] = Order[k] /\ Order[k] \in Mods
  <2>1. PICK c \in Chunks : k \in PlacesOf(c)
    BY Cut
  <2>2. view[c][p] = Order[k] /\ Order[k] \in Mods /\ Order[k] # None
    BY <1>2, <1>4, <2>1, PlacesAreMods DEF ViewInv, ChunkShows
  <2>3. ASSUME NEW i \in K, i < c
        PROVE  FALSE
    <3>1. i \in Chunks /\ view[i][p] # None
      BY <1>3, <2>3
    <3>2. PICK j \in Providers(rows, p) : j \in PlacesOf(i)
      BY <1>2, <3>1 DEF ViewInv, ChunkShows
    <3>3. j < k
      BY <2>1, <2>3, <3>1, <3>2, EarlierChunkFirst
    <3>4. k <= j
      BY <1>4, <3>2 DEF WinsAt, IsFirst
    <3>5. j \in Nat /\ k \in Nat
      BY <1>4, <3>2, PlacesAreMods DEF Providers
    <3>6. QED
      BY <3>3, <3>4, <3>5
  <2>4. c \in K /\ c \in Nat /\ \A i \in K : i \in Nat
    BY <1>3, <2>2, CountIsNat
  <2>5. \A i \in K : c <= i
    BY <2>3, <2>4
  <2>6. First(K) \in K /\ First(K) <= c
    BY <2>4, <2>5 DEF First
  <2>7. First(K) = c
    BY <2>4, <2>5, <2>6
  <2>8. QED
    BY <1>1, <1>2, <2>2, <2>4, <2>7
<1>5. ASSUME Nobody(p)
      PROVE  FinalView[p] = None
  <2>1. \A c \in Chunks : view[c][p] = None
    BY <1>2, <1>5 DEF ViewInv, ChunkShows, Nobody
  <2>2. QED
    BY <1>1, <1>3, <2>1
<1>6. FinalView[p] \in Mods \cup {None}
  BY <1>4, <1>5, SomeoneWins
<1>7. QED
  BY <1>4, <1>5, <1>6
-----------------------------------------------------------------------------
\* The stack's steps leave the database and the disk alone and those of the scan
\* and the pruning leave the stack alone; none changes the rows.
LEMMA StepSplits ==
  ASSUME [Next]_<<conflictVars, stackVars>>
  PROVE  \/ StackStep /\ UNCHANGED conflictVars
         \/ [ConflictsNext]_conflictVars /\ UNCHANGED stackVars
BY DEF Next, ConflictsNext

LEMMA RowsStay ==
  ASSUME CInv, [ConflictsNext]_conflictVars
  PROVE  UNCHANGED rows
<1>1. CASE PruneStep
  BY <1>1, PruneKeepsScan
<1>2. CASE ~PruneStep
  BY <1>2 DEF ConflictsNext, conflictVars, ScanMod, ScanDone, StartPrune, Restart, diskVars
<1>3. QED
  BY <1>1, <1>2

LEMMA ViewInit == Init => ViewInv
<1> SUFFICES ASSUME Init PROVE ViewInv
  OBVIOUS
<1>1. stage = "idle" /\ merges = <<>> /\ Len(merges) = 0 /\ DOMAIN merges = {}
  BY DEF Init
<1>2. InOrder
  BY <1>1, CountIsNat DEF InOrder
<1>3. ViewTypeOK
  BY DEF Init, ViewTypeOK, NoView
<1>4. QED
  BY <1>1, <1>2, <1>3 DEF ViewInv, ChunkShows, FinalShows

\* Nothing but a mount changes what is shown.
LEMMA ViewStays ==
  ASSUME ViewInv, UNCHANGED <<rows, merges, view>>, stage' \notin {"idle", "mount", "up"}
  PROVE  ViewInv'
BY DEF ViewInv, InOrder, ViewTypeOK, ChunkShows, FinalShows, WinsAt, Nobody, Providers, IsFirst

LEMMA MountChunkKeeps ==
  ASSUME CInv, ViewInv, MountChunk, UNCHANGED conflictVars
  PROVE  ViewInv'
<1> DEFINE c == Len(merges) + 1
<1>1. /\ stage = "mount" /\ stage' = "chunks"
      /\ view' = [view EXCEPT ![c] = ChunkView(c)]
      /\ merges' = Append(merges, c)
      /\ UNCHANGED rows
  BY DEF MountChunk, conflictVars
<1>2. /\ merges \in Seq(Nat) /\ Len(merges) \in Nat /\ Len(merges) < ChunkCount
      /\ c \in Chunks /\ DOMAIN merges = 1..Len(merges)
  BY <1>1, CountIsNat DEF ViewInv, InOrder, Chunks
<1>3. /\ merges' \in Seq(Nat) /\ Len(merges') = c /\ DOMAIN merges' = 1..c
      /\ \A i \in DOMAIN merges' : merges'[i] = IF i = c THEN c ELSE merges[i]
  BY <1>1, <1>2
<1>4. InOrder'
  BY <1>1, <1>2, <1>3, CountIsNat DEF ViewInv, InOrder
<1>5. ChunkView(c) \in [Paths -> Mods \cup {None}]
  BY <1>2, ChunkViewIs DEF ChunkView
<1>6. ViewTypeOK' /\ view'[c] = ChunkView(c) /\ \A d \in DOMAIN merges : view'[d] = view[d]
  <2> HIDE DEF c
  <2>1. view \in [Chunks \cup {Final} -> [Paths -> Mods \cup {None}]]
    BY DEF ViewInv, ViewTypeOK
  <2>2. \A d \in DOMAIN merges : d # c /\ d \in Chunks
    BY <1>2, CountIsNat DEF c, Chunks
  <2>3. QED
    BY <1>1, <1>2, <1>5, <2>1, <2>2 DEF ViewTypeOK
<1>7. ChunkShows'
  <2> SUFFICES ASSUME NEW d \in DOMAIN merges', NEW p \in Paths
               PROVE  /\ \A k \in PlacesOf(d) : WinsAt(p, k) => view'[d][p] = Order[k]
                      /\ Providers(rows, p) \cap PlacesOf(d) = {} => view'[d][p] = None
    BY <1>1 DEF ChunkShows, WinsAt, Providers, IsFirst
  <2>1. CASE d = c
    BY <1>2, <1>6, <2>1, ChunkViewIs
  <2>2. CASE d # c
    <3>1. d \in DOMAIN merges
      BY <1>2, <1>3, <2>2
    <3>2. QED
      BY <1>6, <3>1 DEF ViewInv, ChunkShows
  <2>3. QED
    BY <2>1, <2>2
<1>8. FinalShows'
  BY <1>1 DEF FinalShows
<1>9. QED
  BY <1>4, <1>6, <1>7, <1>8 DEF ViewInv

LEMMA MountFinalKeeps ==
  ASSUME CInv, ViewInv, MountFinal, UNCHANGED conflictVars
  PROVE  ViewInv'
<1>1. /\ stage' = "up" /\ Len(merges) = ChunkCount
      /\ view' = [view EXCEPT ![Final] = FinalView]
      /\ UNCHANGED <<rows, merges>>
  BY DEF MountFinal, conflictVars
<1>2. FinalView \in [Paths -> Mods \cup {None}]
  BY <1>1, FinalViewIs DEF FinalView
<1>3. InOrder'
  BY <1>1 DEF ViewInv, InOrder
<1>4. view \in [Chunks \cup {Final} -> [Paths -> Mods \cup {None}]]
  BY DEF ViewInv, ViewTypeOK
<1>5. ViewTypeOK' /\ view'[Final] = FinalView /\ \A d \in Chunks : view'[d] = view[d]
  BY <1>1, <1>2, <1>4, CountIsNat DEF ViewTypeOK
<1>6. DOMAIN merges = Chunks
  BY <1>1 DEF ViewInv, InOrder, Chunks
<1>7. ChunkShows'
  BY <1>1, <1>5, <1>6 DEF ViewInv, ChunkShows, WinsAt, Providers, IsFirst
<1>8. FinalShows'
  BY <1>1, <1>5, FinalViewIs DEF FinalShows, WinsAt, Nobody, Providers, IsFirst
<1>9. QED
  BY <1>3, <1>5, <1>7, <1>8 DEF ViewInv

LEMMA ViewStep ==
  ASSUME CInv, ViewInv, [Next]_<<conflictVars, stackVars>>
  PROVE  ViewInv'
<1>1. CASE [ConflictsNext]_conflictVars /\ UNCHANGED stackVars
  <2>1. UNCHANGED <<rows, stage, merges, view>>
    BY <1>1, RowsStay DEF stackVars
  <2>2. QED
    BY <2>1 DEF ViewInv, InOrder, ViewTypeOK, ChunkShows, FinalShows, WinsAt, Nobody,
                Providers, IsFirst
<1>2. CASE StackStep /\ UNCHANGED conflictVars
  <2>1. UNCHANGED rows
    BY <1>2 DEF conflictVars
  <2>2. CASE MakeTempDir
    <3>1. UNCHANGED <<merges, view>> /\ stage' = "mount" /\ Len(merges) < ChunkCount
      BY <2>2, SomeChunk DEF MakeTempDir, ViewInv, InOrder
    <3>2. QED
      BY <2>1, <3>1 DEF ViewInv, InOrder, ViewTypeOK, ChunkShows, FinalShows, WinsAt,
                        Nobody, Providers, IsFirst
  <2>3. CASE TempDirFails
    BY <2>1, <2>3, ViewStays DEF TempDirFails
  <2>4. CASE MountChunk
    BY <1>2, <2>4, MountChunkKeeps
  <2>5. CASE MountFinal
    BY <1>2, <2>5, MountFinalKeeps
  <2>6. CASE MountFails
    BY <2>1, <2>6, ViewStays DEF MountFails
  <2>7. CASE CleanUp
    BY <2>1, <2>7, ViewStays DEF CleanUp
  <2>8. CASE UnmountFinal
    BY <2>1, <2>8, ViewStays DEF UnmountFinal
  <2>9. CASE UnmountChunk
    BY <2>1, <2>9, ViewStays DEF UnmountChunk
  <2>10. QED
    BY <1>2, <2>2, <2>3, <2>4, <2>5, <2>6, <2>7, <2>8, <2>9 DEF StackStep
<1>3. QED
  BY <1>1, <1>2, StepSplits

\* A stack that is up shows what one mount of the whole list would show now.
LEMMA ViewMeans ==
  ASSUME CInv, ViewInv
  PROVE  StackShowsFlat
<1> SUFFICES ASSUME stage = "up", NEW p \in Paths
             PROVE  view[Final][p] = Shown(disk, p)
  BY DEF StackShowsFlat
<1>1. Providers(disk, p) \subseteq Providers(rows, p)
  BY PlacesAreMods DEF Providers, CInv, DiskInRows
<1>2. CASE Nobody(p)
  <2>1. view[Final][p] = None
    BY <1>2 DEF ViewInv, FinalShows
  <2>2. QED
    BY <1>1, <1>2, <2>1 DEF Nobody, Shown
<1>3. CASE ~Nobody(p)
  <2>1. PICK k \in Places : WinsAt(p, k)
    BY <1>3, SomeoneWins
  <2>2. view[Final][p] = Order[k]
    BY <2>1 DEF ViewInv, FinalShows
  <2>3. p \in disk[Order[k]]
    BY <2>1 DEF CInv, WinnersStay, WinsAt
  <2>4. IsFirst(k, Providers(disk, p)) /\ Providers(disk, p) \subseteq Places
    BY <1>1, <2>1, <2>3 DEF WinsAt, IsFirst, Providers
  <2>5. First(Providers(disk, p)) = k /\ Providers(disk, p) # {}
    BY <2>4, FirstIs DEF IsFirst
  <2>6. QED
    BY <2>2, <2>5 DEF Shown
<1>4. QED
  BY <1>2, <1>3

-----------------------------------------------------------------------------
LEMMA MountInit == Init => MountInv
BY DEF Init, MountInv, HandlesOK, Known

\* Without its first or its last one, the handles are as good as before and
\* lack nothing but that one.
Without(hs, c) ==
  /\ hs \in Seq(Nat)
  /\ \A n \in DOMAIN hs : hs[n] # c /\ \E i \in DOMAIN handles : hs[n] = handles[i]
  /\ \A i \in DOMAIN handles : handles[i] = c \/ \E n \in DOMAIN hs : hs[n] = handles[i]
  /\ \A i, j \in DOMAIN hs : hs[i] = hs[j] => i = j

LEMMA TailIsWithout ==
  ASSUME HandlesOK, handles # <<>>
  PROVE  Without(Tail(handles), Head(handles)) /\ \E i \in DOMAIN handles : Head(handles) = handles[i]
<1>1. handles \in Seq(Nat)
  BY DEF HandlesOK
<1>2. /\ Tail(handles) \in Seq(Nat) /\ 1 \in DOMAIN handles /\ Head(handles) = handles[1]
      /\ \A n \in DOMAIN Tail(handles) : n \in Nat \ {0} /\ n + 1 \in DOMAIN handles
                                       /\ Tail(handles)[n] = handles[n + 1]
      /\ \A n \in DOMAIN handles : n = 1 \/ (n - 1 \in DOMAIN Tail(handles)
                                          /\ Tail(handles)[n - 1] = handles[n])
  BY <1>1, TailElements
<1>3. \A n \in DOMAIN Tail(handles) : n + 1 # 1
  BY <1>2
<1>4. \A i, j \in DOMAIN Tail(handles) : i + 1 = j + 1 => i = j
  BY <1>2
<1>5. \A n \in DOMAIN Tail(handles) : Tail(handles)[n] # handles[1]
  BY <1>2, <1>3 DEF HandlesOK
<1>6. \A i, j \in DOMAIN Tail(handles) : Tail(handles)[i] = Tail(handles)[j] => i = j
  BY <1>2, <1>4 DEF HandlesOK
<1> HIDE DEF HandlesOK
<1>7. QED
  BY <1>2, <1>5, <1>6 DEF Without

LEMMA FrontIsWithout ==
  ASSUME HandlesOK, handles # <<>>
  PROVE  Without(Front(handles), Last(handles)) /\ \E i \in DOMAIN handles : Last(handles) = handles[i]
<1> DEFINE n == Len(handles)
           hs == Front(handles)
<1>1. handles \in Seq(Nat) /\ n \in Nat \ {0} /\ DOMAIN handles = 1..n
  BY DEF HandlesOK
<1>2. hs \in Seq(Nat) /\ DOMAIN hs = 1..(n - 1) /\ \A i \in 1..(n - 1) : hs[i] = handles[i]
  BY <1>1 DEF Front
<1>3. Last(handles) = handles[n] /\ n \in DOMAIN handles
  BY <1>1 DEF Last
<1> HIDE DEF hs, n
<1>4. \A i \in 1..(n - 1) : i \in DOMAIN handles /\ i # n
  BY <1>1
<1>5. \A i \in DOMAIN handles : i = n \/ i \in 1..(n - 1)
  BY <1>1
<1>6. \A i, j \in DOMAIN handles : handles[i] = handles[j] => i = j
  BY DEF HandlesOK
<1>7. Without(hs, handles[n])
  BY <1>2, <1>3, <1>4, <1>5, <1>6 DEF Without
<1>8. QED
  BY <1>3, <1>7 DEF hs, n

\* Taking a mount down with its handle leaves everything accounted for.
LEMMA TakeDownKeeps ==
  ASSUME MountInv, NEW hs, NEW c, Without(hs, c), \E i \in DOMAIN handles : c = handles[i],
         handles' = hs, TakeDown(c), stage \in {"cleanup", "down"}, stage' = stage,
         UNCHANGED <<tempDirs, merges>>
  PROVE  MountInv'
<1>1. c \in Chunks \cap mounted /\ c \notin stuck
  BY DEF MountInv, HandlesOK
<1>2. \/ mounted' = mounted \ {c} /\ stuck' = stuck
      \/ stuck' = stuck \cup {c} /\ mounted' = mounted
  BY DEF TakeDown
<1>3. HandlesOK'
  <2>1. \A n \in DOMAIN hs : hs[n] \in Chunks \cap mounted /\ hs[n] \notin stuck
                             /\ hs[n] <= Len(merges) /\ hs[n] # c
    BY DEF MountInv, HandlesOK, Without
  <2>2. QED
    BY <1>2, <2>1 DEF HandlesOK, Without
<1>4. \A d \in mounted' : Known(d)'
  <2> TAKE d \in mounted'
  <2>1. d \in mounted /\ stage # "up"
    BY <1>2
  <2>2. d \in stuck \/ \E i \in DOMAIN handles : handles[i] = d
    BY <2>1 DEF MountInv, Known
  <2>3. CASE d \in stuck
    BY <1>2, <2>3 DEF Known
  <2>4. CASE d = c
    BY <1>2, <2>4 DEF Known
  <2>5. CASE d # c /\ \E i \in DOMAIN handles : handles[i] = d
    BY <2>5 DEF Known, Without
  <2>6. QED
    BY <2>2, <2>3, <2>4, <2>5
<1>5. QED
  BY <1>1, <1>2, <1>3, <1>4 DEF MountInv

LEMMA MountStep ==
  ASSUME ViewInv, MountInv, [Next]_<<conflictVars, stackVars>>
  PROVE  MountInv'
<1>1. CASE UNCHANGED stackVars
  BY <1>1 DEF stackVars, MountInv, HandlesOK, Known
<1>2. CASE MakeTempDir
  <2>1. Len(merges) + 1 \in Chunks
    BY <1>2, SomeChunk, CountIsNat DEF MakeTempDir, ViewInv, InOrder, Chunks
  <2>2. QED
    BY <1>2, <2>1 DEF MakeTempDir, MountInv, HandlesOK, Known
<1>3. CASE TempDirFails
  BY <1>3 DEF TempDirFails, MountInv, HandlesOK
<1>4. CASE MountChunk
  <2> DEFINE c == Len(merges) + 1
  <2>1. /\ stage = "mount" /\ stage' = "chunks" /\ mounted' = mounted \cup {c}
        /\ handles' = Append(handles, c) /\ merges' = Append(merges, c)
        /\ UNCHANGED <<tempDirs, stuck>>
    BY <1>4 DEF MountChunk
  <2>2. c \in Chunks /\ c \in Nat /\ Len(merges) \in Nat /\ Len(merges') = c
    BY <2>1, CountIsNat DEF ViewInv, InOrder, Chunks
  <2>3. handles \in Seq(Nat) /\ DOMAIN handles = 1..Len(handles) /\ Len(handles) \in Nat /\ stuck = {}
    BY <2>1 DEF MountInv, HandlesOK
  <2>4. /\ handles' \in Seq(Nat) /\ DOMAIN handles' = 1..(Len(handles) + 1)
        /\ handles'[Len(handles) + 1] = c /\ \A i \in DOMAIN handles : handles'[i] = handles[i]
    BY <2>1, <2>2, <2>3
  <2>5. \A i \in DOMAIN handles' : i = Len(handles) + 1 \/ i \in DOMAIN handles
    BY <2>3, <2>4
  <2> HIDE DEF c
  <2>6. \A i \in DOMAIN handles : handles[i] # c /\ handles[i] <= c /\ handles[i] \in Chunks \cap mounted
    BY <2>2, <2>3, CountIsNat DEF MountInv, HandlesOK, c
  <2>7. HandlesOK'
    BY <2>1, <2>2, <2>3, <2>4, <2>5, <2>6 DEF MountInv, HandlesOK
  <2>8. \A d \in mounted' : Known(d)'
    <3>1. Len(handles) + 1 \in DOMAIN handles' /\ \A i \in DOMAIN handles : i \in DOMAIN handles'
      BY <2>3, <2>4
    <3>2. \A d \in mounted : \E i \in DOMAIN handles : handles[i] = d
      BY <2>1, <2>3 DEF MountInv, Known
    <3>3. QED
      BY <2>1, <2>4, <3>1, <3>2 DEF Known
  <2>9. QED
    BY <2>1, <2>2, <2>3, <2>7, <2>8 DEF MountInv
<1>5. CASE MountFinal
  BY <1>5, CountIsNat DEF MountFinal, MountInv, HandlesOK, Known
<1>6. CASE MountFails
  BY <1>6 DEF MountFails, MountInv, HandlesOK, Known
<1>7. CASE CleanUp
  <2>1. CASE handles = <<>>
    BY <1>7, <2>1 DEF CleanUp, MountInv, HandlesOK, Known
  <2>2. CASE handles # <<>>
    BY <1>7, <2>2, TailIsWithout, TakeDownKeeps DEF CleanUp, MountInv
  <2>3. QED
    BY <2>1, <2>2
<1>8. CASE UnmountFinal
  <2>1. /\ stage = "up" /\ stage' = "down" /\ TakeDown(Final) /\ stuck = {}
        /\ UNCHANGED <<handles, merges, tempDirs>> /\ Final \in mounted
    BY <1>8 DEF UnmountFinal, MountInv
  <2>2. \/ mounted' = mounted \ {Final} /\ stuck' = stuck
        \/ stuck' = stuck \cup {Final} /\ mounted' = mounted
    BY <2>1 DEF TakeDown
  <2>3. HandlesOK'
    BY <2>1, <2>2, CountIsNat DEF MountInv, HandlesOK
  <2>4. \A d \in mounted' : Known(d)'
    BY <2>1, <2>2 DEF MountInv, Known
  <2>5. QED
    BY <2>1, <2>2, <2>3, <2>4 DEF MountInv
<1>9. CASE UnmountChunk
  <2>1. CASE handles = <<>>
    BY <1>9, <2>1 DEF UnmountChunk, MountInv, HandlesOK, Known
  <2>2. CASE handles # <<>>
    BY <1>9, <2>2, FrontIsWithout, TakeDownKeeps DEF UnmountChunk, MountInv
  <2>3. QED
    BY <2>1, <2>2
<1>10. QED
  BY <1>1, <1>2, <1>3, <1>4, <1>5, <1>6, <1>7, <1>8, <1>9, StepSplits DEF StackStep

LEMMA MountMeans ==
  ASSUME ConflictsTypeOK, ViewInv, MountInv
  PROVE  MountsKnown
<1>1. Range(handles) \subseteq Chunks
  BY DEF MountInv, HandlesOK, Range
<1>2. Range(merges) \subseteq Chunks
  <2>1. DOMAIN merges = 1..Len(merges) /\ Len(merges) \in Nat
    BY DEF ViewInv, InOrder
  <2>2. \A i \in DOMAIN merges : merges[i] \in Chunks
    BY <2>1, CountIsNat DEF ViewInv, InOrder, Chunks
  <2>3. QED
    BY <2>2 DEF Range
<1>3. TypeOK
  BY <1>1, <1>2 DEF TypeOK, MountInv, ViewInv, ViewTypeOK
<1>4. OnlyStuckRemain
  <2> SUFFICES ASSUME stage \in {"failed", "off"}
               PROVE  mounted = stuck
    BY DEF OnlyStuckRemain
  <2>1. handles = <<>> /\ stuck \subseteq mounted /\ \A c \in mounted : Known(c)
    BY DEF MountInv
  <2>2. DOMAIN handles = {}
    BY <2>1
  <2>3. \A c \in mounted : c \in stuck
    BY <2>1, <2>2 DEF Known
  <2>4. QED
    BY <2>1, <2>3
<1>5. QED
  BY <1>3, <1>4 DEF MountsKnown

-----------------------------------------------------------------------------
\* The scan and the pruning behave under the stack as they do alone.
THEOREM StackImplementsConflicts == Spec => ConflictsSpec
<1>1. Init => ConflictsInit
  BY DEF Init
<1>2. [Next]_<<conflictVars, stackVars>> => [ConflictsNext]_conflictVars
  BY StepSplits
<1>3. QED
  BY <1>1, <1>2, PTL DEF Spec, ConflictsSpec

\* The conflict map and the roles tell what the mount shows while a stack of
\* mounts is built, used and taken down.
THEOREM StackMapCorrect == Spec => []MapIsTrue
BY StackImplementsConflicts, MapCorrect, PTL

\* ... and pruning loses no file and takes all it says.
THEOREM StackPruneCorrect == Spec => []PruneIsSafe
BY StackImplementsConflicts, PruneCorrect, PTL

\* A stacked mount shows what one mount of the whole list would show, for every
\* list, every size of the chunks and every pruning under the mount.
THEOREM StackCorrect == Spec => []StackShowsFlat
<1>1. Spec => []CInv
  BY StackImplementsConflicts, ConflictsInvHolds, PTL
<1>2. Init => ViewInv
  BY ViewInit
<1>3. CInv /\ ViewInv /\ [Next]_<<conflictVars, stackVars>> => ViewInv'
  BY ViewStep
<1>4. CInv /\ ViewInv => StackShowsFlat
  BY ViewMeans
<1>5. QED
  BY <1>1, <1>2, <1>3, <1>4, PTL DEF Spec

\* The stack knows all its mounts: what a failed mount_stacked or an unmount
\* leaves behind has refused to be unmounted.
THEOREM StackMountsKnown == Spec => []MountsKnown
<1>1. Spec => []CInv
  BY StackImplementsConflicts, ConflictsInvHolds, PTL
<1>2. Init => ViewInv /\ MountInv
  BY ViewInit, MountInit
<1>3. CInv /\ ViewInv /\ MountInv /\ [Next]_<<conflictVars, stackVars>>
        => ViewInv' /\ MountInv'
  BY ViewStep, MountStep
<1>4. CInv /\ ViewInv /\ MountInv => MountsKnown
  BY MountMeans DEF CInv
<1>5. QED
  BY <1>1, <1>2, <1>3, <1>4, PTL DEF Spec
=============================================================================
