--------------------------- MODULE DownloadProofs ---------------------------
(***************************************************************************)
(* Proofs about the download queue and the page over it, for any number of *)
(* jobs, threads, chunks and reloads.                                      *)
(*                                                                         *)
(* Three invariants: what every step keeps, the cancel button included     *)
(* (QueueInv); what one attempt at a job leaves to the next when nobody    *)
(* cancels (JobsInv); and which thread may touch which inode (FilesInv).   *)
(***************************************************************************)
EXTENDS DownloadsPage, SequenceTheorems, TLAPS

Thread == [at     : {"unused", "start", "request", "create", "stream", "rename",
                     "report", "gone"},
           job    : Jobs \cup {None},
           file   : Inodes,
           done   : 0 .. Chunks,
           result : Terminal]

Message == [job : Jobs, status : Statuses]
Write == [job : Jobs, status : {"Queued"} \cup Terminal]

\* A thread that has not created its file has written nothing, and its result
\* is still the initial one.
EarlyAt == {"unused", "start", "request", "create"}
Early(w) == worker[w].at \in EarlyAt

\* A thread that runs or ran has a job; one that streams has a file and room.
WorkersSane ==
  \A w \in Workers :
    /\ worker[w].at # "unused" => worker[w].job \in Jobs
    /\ Early(w) => worker[w].done = 0 /\ worker[w].result = "Failed"
    /\ worker[w].at = "stream" => worker[w].done < Chunks

\* The file is at dest before anybody can say so.
CompleteIsTrue ==
  \A j \in Jobs : dest[DestOf[j]] = None =>
    /\ "Complete" \notin {status[j], row[j]}
    /\ \A i \in DOMAIN chan : chan[i] # [job |-> j, status |-> "Complete"]
    /\ [job |-> j, status |-> "Complete"] \notin DOMAIN writes
    /\ \A w \in Workers : worker[w].job = j => worker[w].result # "Complete"

QueueInv == TypeOK /\ WorkersSane /\ CompleteIsTrue

\* Nothing is cancelled; a job that has a worker or a message on its way is
\* unfinished; its last message comes when its worker is gone.
JobsInv ==
  /\ \A j \in Jobs : status[j] # "Cancelled" /\ (status[j] # "absent" => j \in drawn)
  /\ \A w \in Workers : Live(w) => status[worker[w].job] \in {"Queued", "InProgress"}
  /\ \A v, w \in Workers : Live(v) /\ Live(w) /\ worker[v].job = worker[w].job => v = w
  /\ \A i \in DOMAIN chan :
       /\ chan[i].status # "Cancelled"
       /\ status[chan[i].job] \in {"Queued", "InProgress"}
       /\ chan[i].status \in Terminal =>
            /\ \A w \in Workers : Live(w) => worker[w].job # chan[i].job
            /\ \A k \in DOMAIN chan : i < k => chan[k].job # chan[i].job

Writing(w) == worker[w].at \in {"stream", "rename"}

\* An inode has the name of a thread that created a file; each is at one path;
\* what is at dest is whole; a thread that writes has its own temporary file
\* open, and what is in it is its own.
FilesInv ==
  /\ \A t \in Tmps : tmp[t] # None => worker[tmp[t]].at \notin EarlyAt
  /\ \A d \in Dests : dest[d] # None =>
       /\ worker[dest[d]].at \notin EarlyAt
       /\ \E j \in Jobs : DestOf[j] = d /\ data[dest[d]] = Body(j, Chunks)
  /\ \A t, u \in Tmps : tmp[t] # None /\ tmp[t] = tmp[u] => t = u
  /\ \A t \in Tmps, d \in Dests : tmp[t] # None => tmp[t] # dest[d]
  /\ \A w \in Workers : Writing(w) =>
       /\ worker[w].file # None
       /\ worker[w].file = tmp[TmpOf[worker[w].job]]
       /\ data[worker[w].file] = Body(worker[w].job, worker[w].done)
       /\ worker[w].at = "rename" => worker[w].done = Chunks

\* No two downloads that run write to one temporary file.
OneWorkerPerTmp ==
  \A v, w \in Workers :
    Live(v) /\ Live(w) /\ TmpOf[worker[v].job] = TmpOf[worker[w].job] => v = w

(***************************************************************************)
(* Bags and channels.                                                      *)
(***************************************************************************)

LEMMA AddToBag == \A B, x : BagToSet(BagAdd(B, x)) = BagToSet(B) \cup {x}
BY DEF BagToSet, BagAdd

LEMMA RemoveFromBag == \A B, x : BagToSet(BagRemove(B, x)) \subseteq BagToSet(B)
BY DEF BagToSet, BagRemove

LEMMA NothingInBag == BagToSet(EmptyBag) = {}
BY DEF BagToSet, EmptyBag, SetToBag

\* A message goes to the end of the channel.
LEMMA SendAppends ==
  ASSUME chan \in Seq(Message), NEW j \in Jobs, NEW s \in Statuses, Send(j, s)
  PROVE  /\ chan' \in Seq(Message)
         /\ Len(chan) \in Nat /\ DOMAIN chan = 1 .. Len(chan)
         /\ DOMAIN chan' = 1 .. (Len(chan) + 1)
         /\ \A i \in DOMAIN chan : chan'[i] = chan[i]
         /\ chan'[Len(chan) + 1] = [job |-> j, status |-> s]
<1>1. [job |-> j, status |-> s] \in Message
  BY DEF Message
<1>2. QED
  BY <1>1 DEF Send

\* The idle loop takes the first message.
LEMMA TailShifts ==
  ASSUME chan \in Seq(Message), chan # << >>
  PROVE  /\ Tail(chan) \in Seq(Message)
         /\ Len(chan) \in Nat \ {0} /\ DOMAIN chan = 1 .. Len(chan)
         /\ DOMAIN Tail(chan) = 1 .. (Len(chan) - 1)
         /\ \A i \in DOMAIN Tail(chan) : i + 1 \in DOMAIN chan /\ Tail(chan)[i] = chan[i + 1]
         /\ Head(chan) = chan[1] /\ 1 \in DOMAIN chan
         /\ Head(chan) \in Message
<1>1. Len(chan) \in Nat \ {0} /\ DOMAIN chan = 1 .. Len(chan)
  BY EmptySeq
<1>2. /\ Tail(chan) \in Seq(Message) /\ Len(Tail(chan)) = Len(chan) - 1
      /\ \A i \in 1 .. Len(Tail(chan)) : Tail(chan)[i] = chan[i + 1]
  BY HeadTailProperties
<1>3. Head(chan) = chan[1] /\ Head(chan) \in Message
  BY HeadTailProperties
<1>4. DOMAIN Tail(chan) = 1 .. (Len(chan) - 1)
  BY <1>2
<1>5. QED
  BY <1>1, <1>2, <1>3, <1>4

LEMMA PathsOfJobs == \A j \in Jobs : DestOf[j] \in Dests /\ TmpOf[j] \in Tmps
BY DEF Dests, Tmps

\* A body is a list of chunks; none of it is the same for every job; with one
\* chunk more it is one longer.
LEMMA Bodies ==
  /\ \A j \in Jobs \cup {None}, n \in Nat : Body(j, n) \in [1 .. Chunks -> Jobs \cup {None}]
  /\ \A j \in Jobs \cup {None} : Body(j, 0) = Body(None, 0)
BY DEF Body

LEMMA OneChunkMore ==
  ASSUME NEW j \in Jobs, NEW m \in Nat, m + 1 \in 1 .. Chunks
  PROVE  [Body(j, m) EXCEPT ![m + 1] = j] = Body(j, m + 1)
<1>1. \A c \in 1 .. Chunks : c <= m + 1 <=> c <= m \/ c = m + 1
  BY DownloadAssumption
<1>2. QED
  BY <1>1 DEF Body

\* What the parts of TypeOK say of the channel and the threads.
LEMMA Types ==
  TypeOK <=>
    /\ status \in [Jobs -> Statuses \cup {"absent"}]
    /\ drawn \subseteq Jobs
    /\ chan \in Seq(Message)
    /\ draining \in BOOLEAN
    /\ worker \in [Workers -> Thread]
    /\ tmp \in [Tmps -> Inodes] /\ dest \in [Dests -> Inodes]
    /\ data \in [Workers -> [1 .. Chunks -> Jobs \cup {None}]]
    /\ row \in [Jobs -> {"none", "Queued"} \cup Terminal]
    /\ BagToSet(writes) \subseteq Write
BY DEF TypeOK, Message, Thread, Write

LEMMA Messages ==
  ASSUME TypeOK
  PROVE  /\ chan \in Seq(Message)
         /\ \A i \in DOMAIN chan : /\ chan[i] \in Message
                                  /\ chan[i].job \in Jobs /\ chan[i].status \in Statuses
<1>1. chan \in Seq(Message)
  BY Types
<1>2. \A i \in DOMAIN chan : chan[i] \in Message
  BY <1>1
<1>3. QED
  BY <1>1, <1>2 DEF Message

\* A free thread takes the job.
LEMMA SpawnStarts ==
  ASSUME worker \in [Workers -> Thread], NEW j \in Jobs, Spawn(j)
  PROVE  \E w \in Workers :
           /\ worker[w].at = "unused"
           /\ worker' \in [Workers -> Thread]
           /\ worker'[w].at = "start" /\ worker'[w].job = j
           /\ worker'[w].done = worker[w].done /\ worker'[w].result = worker[w].result
           /\ \A v \in Workers : v # w => worker'[v] = worker[v]
<1>1. PICK w \in Workers :
        /\ worker[w].at = "unused"
        /\ worker' = [worker EXCEPT ![w].at = "start", ![w].job = j]
  BY DEF Spawn
<1>2. [worker[w] EXCEPT !.at = "start", !.job = j] \in Thread
  BY DEF Thread
<1>3. worker'[w].at = "start" /\ worker'[w].job = j
      /\ worker'[w].done = worker[w].done /\ worker'[w].result = worker[w].result
  BY <1>1
<1>4. QED
  BY <1>1, <1>2, <1>3

(***************************************************************************)
(* Each step keeps QueueInv.                                               *)
(***************************************************************************)

\* A new attempt at a job that has just been queued, by enqueue or retry.
LEMMA AttemptKeepsQueue ==
  ASSUME QueueInv, NEW j \in Jobs,
         Send(j, "Queued"), Spawn(j),
         status' = [status EXCEPT ![j] = "Queued"],
         drawn' \subseteq Jobs,
         writes' = writes \/ writes' = BagAdd(writes, [job |-> j, status |-> "Queued"]),
         UNCHANGED <<draining, fileVars, row>>
  PROVE  QueueInv'
<1> USE DEF QueueInv
<1>1. PICK w \in Workers :
        /\ worker[w].at = "unused"
        /\ worker' \in [Workers -> Thread]
        /\ worker'[w].at = "start" /\ worker'[w].job = j
        /\ worker'[w].done = worker[w].done /\ worker'[w].result = worker[w].result
        /\ \A v \in Workers : v # w => worker'[v] = worker[v]
  BY SpawnStarts, Types
<1>2. "Queued" \in Statuses
  BY DEF Statuses
<1>3. /\ chan' \in Seq(Message)
      /\ \A i \in DOMAIN chan' : \/ i \in DOMAIN chan /\ chan'[i] = chan[i]
                                 \/ chan'[i] = [job |-> j, status |-> "Queued"]
  BY <1>2, SendAppends, Types
<1>4. BagToSet(writes') \subseteq BagToSet(writes) \cup {[job |-> j, status |-> "Queued"]}
  BY AddToBag
<1>5. TypeOK'
  <2>1. [job |-> j, status |-> "Queued"] \in Write
    BY DEF Write
  <2>2. status' \in [Jobs -> Statuses \cup {"absent"}]
    BY <1>2, Types
  <2>3. QED
    BY <1>1, <1>3, <1>4, <2>1, <2>2, Types DEF fileVars, TypeOK, Thread, Message, Write
<1>6. WorkersSane'
  BY <1>1 DEF WorkersSane, Early, EarlyAt
<1>7. CompleteIsTrue'
  <2> SUFFICES ASSUME NEW k \in Jobs, dest[DestOf[k]] = None
               PROVE  /\ "Complete" \notin {status'[k], row'[k]}
                      /\ \A i \in DOMAIN chan' : chan'[i] # [job |-> k, status |-> "Complete"]
                      /\ [job |-> k, status |-> "Complete"] \notin DOMAIN writes'
                      /\ \A v \in Workers : worker'[v].job = k => worker'[v].result # "Complete"
    BY DEF CompleteIsTrue, fileVars
  <2>1. "Complete" \notin {status'[k], row'[k]}
    BY Types DEF CompleteIsTrue
  <2>2. \A i \in DOMAIN chan' : chan'[i] # [job |-> k, status |-> "Complete"]
    BY <1>3 DEF CompleteIsTrue
  <2>3. [job |-> k, status |-> "Complete"] \notin DOMAIN writes'
    BY <1>4 DEF CompleteIsTrue, BagToSet
  <2>4. \A v \in Workers : worker'[v].job = k => worker'[v].result # "Complete"
    BY <1>1 DEF CompleteIsTrue, WorkersSane, Early, EarlyAt
  <2>5. QED
    BY <2>1, <2>2, <2>3, <2>4
<1>8. QED
  BY <1>5, <1>6, <1>7

LEMMA DrainKeepsQueue ==
  ASSUME QueueInv, ApplyProgress
  PROVE  QueueInv'
<1> USE DEF QueueInv
<1> DEFINE m == Head(chan)
<1>1. /\ m \in Message /\ m = chan[1] /\ 1 \in DOMAIN chan
      /\ chan' \in Seq(Message)
      /\ \A i \in DOMAIN chan' : \E k \in DOMAIN chan : chan'[i] = chan[k]
  BY TailShifts, Types DEF ApplyProgress
<1>2. /\ m.job \in Jobs /\ m.status \in Statuses
      /\ m = [job |-> m.job, status |-> m.status]
  BY <1>1 DEF Message
<1>3. \A k \in Jobs : status'[k] = status[k] \/ m = [job |-> k, status |-> status'[k]]
  BY <1>2, Types DEF ApplyProgress
<1>4. status' \in [Jobs -> Statuses \cup {"absent"}]
  BY <1>2, Types DEF ApplyProgress
<1>5. \/ BagToSet(writes') = BagToSet(writes)
      \/ m.status \in Terminal /\ BagToSet(writes') = BagToSet(writes) \cup {m}
  BY AddToBag DEF ApplyProgress
<1>6. TypeOK'
  <2>1. BagToSet(writes') \subseteq Write
    <3>1. m.status \in Terminal => m \in Write
      BY <1>2 DEF Write
    <3>2. BagToSet(writes) \subseteq Write
      BY Types
    <3>3. QED
      BY <1>5, <3>1, <3>2
  <2>2. draining' \in BOOLEAN
    BY DEF ApplyProgress
  <2>3. UNCHANGED <<drawn, worker, tmp, dest, data, row>>
    BY DEF ApplyProgress, fileVars
  <2>4. QED
    BY <1>1, <1>4, <2>1, <2>2, <2>3, Types DEF TypeOK, Thread, Message, Write
<1>7. WorkersSane'
  BY DEF WorkersSane, ApplyProgress, Early, EarlyAt
<1>8. CompleteIsTrue'
  <2> SUFFICES ASSUME NEW k \in Jobs, dest[DestOf[k]] = None
               PROVE  /\ "Complete" \notin {status'[k], row'[k]}
                      /\ \A i \in DOMAIN chan' : chan'[i] # [job |-> k, status |-> "Complete"]
                      /\ [job |-> k, status |-> "Complete"] \notin DOMAIN writes'
                      /\ \A w \in Workers : worker'[w].job = k => worker'[w].result # "Complete"
    BY DEF CompleteIsTrue, fileVars, ApplyProgress
  <2>1. m # [job |-> k, status |-> "Complete"]
    BY <1>1 DEF CompleteIsTrue
  <2>2. "Complete" \notin {status'[k], row'[k]}
    BY <1>3, <2>1 DEF CompleteIsTrue, ApplyProgress
  <2>3. \A i \in DOMAIN chan' : chan'[i] # [job |-> k, status |-> "Complete"]
    BY <1>1 DEF CompleteIsTrue
  <2>4. [job |-> k, status |-> "Complete"] \notin DOMAIN writes'
    BY <1>5, <2>1 DEF CompleteIsTrue, BagToSet
  <2>5. \A w \in Workers : worker'[w].job = k => worker'[w].result # "Complete"
    BY DEF CompleteIsTrue, ApplyProgress
  <2>6. QED
    BY <2>2, <2>3, <2>4, <2>5
<1>9. QED
  BY <1>6, <1>7, <1>8

\* The buttons that start nothing.
LEMMA ButtonsKeepQueue ==
  ASSUME QueueInv,
         ClearCompleted \/ \E j \in Jobs : RemoveCompleted(j) \/ Cancel(j)
  PROVE  QueueInv'
<1> USE DEF QueueInv
<1>1. UNCHANGED <<drawn, draining, chan, worker, fileVars, row, writes>>
  BY DEF ClearCompleted, RemoveCompleted, Cancel
<1>2. status' \in [Jobs -> Statuses \cup {"absent"}]
  BY Types DEF ClearCompleted, RemoveCompleted, Cancel, Statuses
<1>3. \A k \in Jobs : status'[k] = "Complete" => status[k] = "Complete"
  BY Types DEF ClearCompleted, RemoveCompleted, Cancel
<1>4. QED
  BY <1>1, <1>2, <1>3 DEF TypeOK, WorkersSane, Early, EarlyAt, CompleteIsTrue, fileVars

LEMMA WriteKeepsQueue ==
  ASSUME QueueInv, RunWrite
  PROVE  QueueInv'
<1> USE DEF QueueInv
<1>1. PICK x \in BagToSet(writes) :
        /\ writes' = BagRemove(writes, x)
        /\ row' = IF x.status = "Queued" \/ row[x.job] # "none"
                  THEN [row EXCEPT ![x.job] = x.status] ELSE row
  BY DEF RunWrite
<1>2. UNCHANGED <<status, drawn, draining, chan, worker, tmp, dest, data>>
  BY DEF RunWrite, queueVars, fileVars
<1>3. x \in Write /\ x.job \in Jobs /\ x = [job |-> x.job, status |-> x.status]
  BY Types DEF Write
<1>4. row' \in [Jobs -> {"none", "Queued"} \cup Terminal]
  BY <1>1, <1>3, Types DEF Write
<1>5. BagToSet(writes') \subseteq BagToSet(writes)
  BY <1>1, RemoveFromBag
<1>6. TypeOK'
  BY <1>2, <1>4, <1>5, Types DEF TypeOK
<1>7. WorkersSane'
  BY <1>2 DEF WorkersSane, Early, EarlyAt
<1>8. \A k \in Jobs : row'[k] = row[k] \/ x = [job |-> k, status |-> row'[k]]
  BY <1>1, <1>3, Types
<1>9. CompleteIsTrue'
  BY <1>2, <1>5, <1>8 DEF CompleteIsTrue, BagToSet
<1>10. QED
  BY <1>6, <1>7, <1>9

\* The end of the process leaves of each thread what it had done.
LEMMA RestartEnds ==
  ASSUME worker \in [Workers -> Thread], Restart
  PROVE  /\ worker' \in [Workers -> Thread]
         /\ \A w \in Workers :
              /\ worker'[w].job = worker[w].job
              /\ worker'[w].done = worker[w].done
              /\ worker'[w].result = worker[w].result
              /\ worker'[w].at = IF worker[w].at = "unused" THEN "unused" ELSE "gone"
<1> DEFINE end(w) == IF worker[w].at = "unused" THEN worker[w]
                     ELSE [worker[w] EXCEPT !.at = "gone"]
<1>1. worker' = [w \in Workers |-> end(w)]
  BY DEF Restart
<1>2. \A t \in Thread : /\ [t EXCEPT !.at = "gone"] \in Thread
                       /\ [t EXCEPT !.at = "gone"].at = "gone"
                       /\ [t EXCEPT !.at = "gone"].job = t.job
                       /\ [t EXCEPT !.at = "gone"].done = t.done
                       /\ [t EXCEPT !.at = "gone"].result = t.result
  BY DEF Thread
<1>3. \A w \in Workers : worker[w] \in Thread
  OBVIOUS
<1>4. \A w \in Workers : /\ end(w) \in Thread
                         /\ end(w).job = worker[w].job
                         /\ end(w).done = worker[w].done
                         /\ end(w).result = worker[w].result
                         /\ end(w).at = IF worker[w].at = "unused" THEN "unused" ELSE "gone"
  BY <1>2, <1>3
<1>5. \A w \in Workers : /\ worker'[w].job = worker[w].job
                         /\ worker'[w].done = worker[w].done
                         /\ worker'[w].result = worker[w].result
                         /\ worker'[w].at = IF worker[w].at = "unused" THEN "unused" ELSE "gone"
  BY <1>1, <1>4
<1>6. worker' \in [Workers -> Thread]
  BY <1>1, <1>4
<1>7. QED
  BY <1>5, <1>6

LEMMA RestartKeepsQueue ==
  ASSUME QueueInv, Restart
  PROVE  QueueInv'
<1> USE DEF QueueInv
<1>1. /\ worker' \in [Workers -> Thread]
      /\ \A w \in Workers :
           /\ worker'[w].job = worker[w].job
           /\ worker'[w].done = worker[w].done
           /\ worker'[w].result = worker[w].result
           /\ worker'[w].at = IF worker[w].at = "unused" THEN "unused" ELSE "gone"
  BY RestartEnds, Types
<1>2. TypeOK'
  <2>1. /\ status' \in [Jobs -> Statuses \cup {"absent"}]
        /\ chan' = << >> /\ draining' \in BOOLEAN /\ BagToSet(writes') = {}
        /\ UNCHANGED <<drawn, tmp, dest, data, row>>
    BY NothingInBag DEF Restart, fileVars
  <2>2. chan' \in Seq(Message)
    BY <2>1
  <2>3. QED
    BY <1>1, <2>1, <2>2, Types DEF TypeOK, Thread, Message
<1>3. WorkersSane'
  BY <1>1 DEF WorkersSane, Early, EarlyAt
<1>4. CompleteIsTrue'
  <2>1. /\ DOMAIN writes' = {} /\ DOMAIN chan' = {}
        /\ \A j \in Jobs : status'[j] = "absent"
        /\ UNCHANGED <<dest, row>>
    BY NothingInBag DEF Restart, BagToSet, fileVars
  <2>2. QED
    BY <1>1, <2>1 DEF CompleteIsTrue
<1>5. QED
  BY <1>2, <1>3, <1>4

\* What a thread that goes on takes along.
LEMMA MovesTo ==
  ASSUME worker \in [Workers -> Thread], NEW w \in Workers, NEW from,
         NEW to \in {"request", "create", "report", "gone"}, Moves(w, from, to)
  PROVE  /\ worker' \in [Workers -> Thread]
         /\ worker'[w].at = to /\ worker'[w].job = worker[w].job
         /\ worker'[w].file = worker[w].file /\ worker'[w].done = worker[w].done
         /\ worker'[w].result = worker[w].result
         /\ \A v \in Workers : v # w => worker'[v] = worker[v]
<1>1. worker' = [worker EXCEPT ![w].at = to]
  BY DEF Moves
<1>2. [worker[w] EXCEPT !.at = to] \in Thread
  BY DEF Thread
<1>3. worker'[w] = [worker[w] EXCEPT !.at = to]
  BY <1>1
<1>4. QED
  BY <1>1, <1>2, <1>3 DEF Thread

LEMMA CreateOpens ==
  ASSUME TypeOK, WorkersSane, NEW w \in Workers, CreateTmp(w)
  PROVE  \E t \in Tmps, i \in Workers :
           /\ t = TmpOf[worker[w].job] /\ i = IF tmp[t] = None THEN w ELSE tmp[t]
           /\ worker[w].at = "create"
           /\ worker' \in [Workers -> Thread]
           /\ worker'[w].at = "stream" /\ worker'[w].job = worker[w].job
           /\ worker'[w].file = i /\ worker'[w].done = worker[w].done
           /\ worker'[w].result = worker[w].result
           /\ \A v \in Workers : v # w => worker'[v] = worker[v]
           /\ tmp' = [tmp EXCEPT ![t] = i]
           /\ data' = [data EXCEPT ![i] = Body(None, 0)]
<1> DEFINE t == TmpOf[worker[w].job]
           i == IF tmp[t] = None THEN w ELSE tmp[t]
<1>1. worker[w].at = "create" /\ worker[w].job \in Jobs
  BY DEF CreateTmp, WorkersSane
<1>2. t \in Tmps
  BY <1>1, PathsOfJobs
<1>3. i \in Workers
  BY <1>2, Types DEF Inodes
<1>4. worker' = [worker EXCEPT ![w].at = "stream", ![w].file = i]
  BY DEF CreateTmp
<1>5. /\ tmp' = [tmp EXCEPT ![t] = i] /\ data' = [data EXCEPT ![i] = Body(None, 0)]
  BY DEF CreateTmp
<1> HIDE DEF i, t
<1>6. worker[w] \in Thread
  BY Types
<1>7. [worker[w] EXCEPT !.at = "stream", !.file = i] \in Thread
  BY <1>3, <1>6 DEF Thread, Inodes
<1>8. worker'[w] = [worker[w] EXCEPT !.at = "stream", !.file = i]
  BY <1>4, Types
<1>9. worker' \in [Workers -> Thread]
  BY <1>4, <1>7, Types
<1>10. /\ worker'[w].at = "stream" /\ worker'[w].job = worker[w].job
       /\ worker'[w].file = i /\ worker'[w].done = worker[w].done
       /\ worker'[w].result = worker[w].result
  BY <1>6, <1>8 DEF Thread
<1>11. \A v \in Workers : v # w => worker'[v] = worker[v]
  BY <1>4, Types
<1>12. QED
  BY <1>1, <1>2, <1>3, <1>5, <1>9, <1>10, <1>11 DEF i, t

LEMMA ChunkGrows ==
  ASSUME TypeOK, WorkersSane, NEW w \in Workers, WriteChunk(w)
  PROVE  \E n \in 1 .. Chunks :
           /\ n = worker[w].done + 1
           /\ worker[w].at = "stream" /\ worker[w].job \in Jobs
           /\ worker' \in [Workers -> Thread]
           /\ worker'[w].at = IF n = Chunks THEN "rename" ELSE "stream"
           /\ worker'[w].job = worker[w].job
           /\ worker'[w].file = worker[w].file /\ worker'[w].done = n
           /\ worker'[w].result = worker[w].result
           /\ \A v \in Workers : v # w => worker'[v] = worker[v]
           /\ data' = [data EXCEPT ![worker[w].file][n] = worker[w].job]
<1> DEFINE n == worker[w].done + 1
           to == IF n = Chunks THEN "rename" ELSE "stream"
<1>1. worker[w].at = "stream" /\ worker[w].job \in Jobs /\ worker[w].done < Chunks
  BY DEF WriteChunk, WorkersSane
<1>2. worker[w] \in Thread /\ worker[w].done \in 0 .. Chunks
  BY Types DEF Thread
<1>3. n \in 1 .. Chunks /\ n \in 0 .. Chunks
  BY <1>1, <1>2, DownloadAssumption
<1>4. worker' = [worker EXCEPT ![w].done = n, ![w].at = to]
  BY DEF WriteChunk
<1>5. data' = [data EXCEPT ![worker[w].file][n] = worker[w].job]
  BY DEF WriteChunk
<1>6. to \in {"rename", "stream"} /\ to = IF n = Chunks THEN "rename" ELSE "stream"
  OBVIOUS
<1>7. n = worker[w].done + 1
  OBVIOUS
<1> HIDE DEF n, to
<1>8. [worker[w] EXCEPT !.done = n, !.at = to] \in Thread
  BY <1>2, <1>3, <1>6 DEF Thread
<1>9. worker'[w] = [worker[w] EXCEPT !.done = n, !.at = to]
  BY <1>4, Types
<1>10. worker' \in [Workers -> Thread] /\ \A v \in Workers : v # w => worker'[v] = worker[v]
  BY <1>4, <1>8, Types
<1>11. /\ worker'[w].at = to /\ worker'[w].job = worker[w].job
       /\ worker'[w].file = worker[w].file /\ worker'[w].done = n
       /\ worker'[w].result = worker[w].result
  BY <1>2, <1>9 DEF Thread
<1>12. QED
  BY <1>1, <1>3, <1>5, <1>6, <1>7, <1>10, <1>11

LEMMA RenameMoves ==
  ASSUME TypeOK, WorkersSane, NEW w \in Workers, RenameTmp(w)
  PROVE  \E d \in Dests, t \in Tmps :
           /\ d = DestOf[worker[w].job] /\ t = TmpOf[worker[w].job] /\ worker[w].job \in Jobs
           /\ worker[w].at = "rename"
           /\ worker' \in [Workers -> Thread]
           /\ worker'[w].at = "report" /\ worker'[w].job = worker[w].job
           /\ worker'[w].file = worker[w].file /\ worker'[w].done = worker[w].done
           /\ worker'[w].result = IF tmp[t] = None THEN worker[w].result ELSE "Complete"
           /\ \A v \in Workers : v # w => worker'[v] = worker[v]
           /\ dest' = IF tmp[t] = None THEN dest ELSE [dest EXCEPT ![d] = tmp[t]]
           /\ tmp' = [tmp EXCEPT ![t] = None]
<1> DEFINE d == DestOf[worker[w].job]
           t == TmpOf[worker[w].job]
           r == IF tmp[t] = None THEN worker[w].result ELSE "Complete"
<1>1. worker[w].at = "rename" /\ worker[w].job \in Jobs /\ d \in Dests /\ t \in Tmps
  BY PathsOfJobs DEF RenameTmp, WorkersSane
<1>2. worker[w] \in Thread
  BY Types
<1>3. worker' = [worker EXCEPT ![w].at = "report", ![w].result = r]
  BY <1>2, Types DEF RenameTmp, Thread
<1>4. /\ dest' = IF tmp[t] = None THEN dest ELSE [dest EXCEPT ![d] = tmp[t]]
      /\ tmp' = [tmp EXCEPT ![t] = None]
  BY DEF RenameTmp
<1>5. r \in Terminal
  BY <1>2 DEF Thread, Terminal
<1>6. r = IF tmp[t] = None THEN worker[w].result ELSE "Complete"
  OBVIOUS
<1> HIDE DEF r, d, t
<1>7. [worker[w] EXCEPT !.at = "report", !.result = r] \in Thread
  BY <1>2, <1>5 DEF Thread
<1>8. worker'[w] = [worker[w] EXCEPT !.at = "report", !.result = r]
  BY <1>3, Types
<1>9. worker' \in [Workers -> Thread] /\ \A v \in Workers : v # w => worker'[v] = worker[v]
  BY <1>3, <1>7, Types
<1>10. /\ worker'[w].at = "report" /\ worker'[w].job = worker[w].job
       /\ worker'[w].file = worker[w].file /\ worker'[w].done = worker[w].done
       /\ worker'[w].result = r
  BY <1>2, <1>8 DEF Thread
<1>11. QED
  BY <1>1, <1>4, <1>6, <1>9, <1>10 DEF d, t

\* A thread keeps the invariant when it changes only its own record, makes
\* files appear and none disappear from dest, and reports no more than it did.
LEMMA ThreadKeepsQueue ==
  ASSUME QueueInv, NEW w \in Workers,
         worker[w].at # "unused",
         worker' \in [Workers -> Thread],
         worker'[w].at # "unused", worker'[w].job = worker[w].job,
         Early(w)' => Early(w) /\ worker'[w].done = worker[w].done
                              /\ worker'[w].result = worker[w].result,
         worker'[w].at = "stream" => worker'[w].done < Chunks,
         worker'[w].result = "Complete" =>
           worker[w].result = "Complete" \/ dest'[DestOf[worker[w].job]] # None,
         \A v \in Workers : v # w => worker'[v] = worker[v],
         tmp' \in [Tmps -> Inodes], dest' \in [Dests -> Inodes],
         data' \in [Workers -> [1 .. Chunks -> Jobs \cup {None}]],
         \A d \in Dests : dest'[d] = None => dest[d] = None,
         UNCHANGED chan \/ \E s \in Statuses : /\ Send(worker[w].job, s)
                                               /\ s = "Complete" => worker[w].result = "Complete",
         UNCHANGED <<queueVars, row, writes>>
  PROVE  QueueInv'
<1> USE DEF QueueInv
<1> DEFINE j == worker[w].job
<1>1. j \in Jobs
  BY DEF WorkersSane
<1>2. UNCHANGED <<status, drawn, draining, row, writes>>
  BY DEF queueVars
<1>3. /\ chan' \in Seq(Message)
      /\ \A i \in DOMAIN chan' :
           \/ i \in DOMAIN chan /\ chan'[i] = chan[i]
           \/ \E s \in Statuses : /\ chan'[i] = [job |-> j, status |-> s]
                                  /\ s = "Complete" => worker[w].result = "Complete"
  <2>1. CASE UNCHANGED chan
    BY <2>1, Types
  <2>2. CASE \E s \in Statuses : Send(j, s) /\ (s = "Complete" => worker[w].result = "Complete")
    <3>1. PICK s \in Statuses : Send(j, s) /\ (s = "Complete" => worker[w].result = "Complete")
      BY <2>2
    <3> HIDE DEF j
    <3>2. /\ chan' \in Seq(Message)
          /\ Len(chan) \in Nat /\ DOMAIN chan = 1 .. Len(chan)
          /\ DOMAIN chan' = 1 .. (Len(chan) + 1)
          /\ \A i \in DOMAIN chan : chan'[i] = chan[i]
          /\ chan'[Len(chan) + 1] = [job |-> j, status |-> s]
      BY <1>1, <3>1, SendAppends, Types
    <3>3. \A i \in DOMAIN chan' : \/ i \in DOMAIN chan /\ chan'[i] = chan[i]
                                 \/ chan'[i] = [job |-> j, status |-> s]
      BY <3>2
    <3>4. QED
      BY <3>1, <3>2, <3>3
  <2>3. QED
    BY <2>1, <2>2
<1>4. TypeOK'
  BY <1>2, <1>3, Types DEF TypeOK, Thread, Message
<1>5. WorkersSane'
  BY <1>1 DEF WorkersSane, Early, EarlyAt
<1>6. CompleteIsTrue'
  <2> SUFFICES ASSUME NEW k \in Jobs, dest'[DestOf[k]] = None
               PROVE  /\ "Complete" \notin {status'[k], row'[k]}
                      /\ \A i \in DOMAIN chan' : chan'[i] # [job |-> k, status |-> "Complete"]
                      /\ [job |-> k, status |-> "Complete"] \notin DOMAIN writes'
                      /\ \A v \in Workers : worker'[v].job = k => worker'[v].result # "Complete"
    BY DEF CompleteIsTrue
  <2>1. dest[DestOf[k]] = None
    BY PathsOfJobs
  <2>2. \A v \in Workers : worker[v].job = k => worker[v].result # "Complete"
    BY <2>1 DEF CompleteIsTrue
  <2>3. \A i \in DOMAIN chan' : chan'[i] # [job |-> k, status |-> "Complete"]
    <3> SUFFICES ASSUME NEW i \in DOMAIN chan', chan'[i] = [job |-> k, status |-> "Complete"]
                 PROVE  FALSE
      OBVIOUS
    <3>1. CASE i \in DOMAIN chan /\ chan'[i] = chan[i]
      BY <2>1, <3>1 DEF CompleteIsTrue
    <3>2. CASE \E s \in Statuses : /\ chan'[i] = [job |-> j, status |-> s]
                                   /\ s = "Complete" => worker[w].result = "Complete"
      BY <2>2, <3>2
    <3>3. QED
      BY <1>3, <3>1, <3>2
  <2>4. \A v \in Workers : worker'[v].job = k => worker'[v].result # "Complete"
    BY <2>2
  <2>5. QED
    BY <1>2, <2>1, <2>3, <2>4 DEF CompleteIsTrue
<1>7. QED
  BY <1>4, <1>5, <1>6

LEMMA WorkerKeepsQueue ==
  ASSUME QueueInv, NEW w \in Workers, WorkerStep(w)
  PROVE  QueueInv'
<1>1. TypeOK /\ WorkersSane
  BY DEF QueueInv
<1>2. worker \in [Workers -> Thread] /\ worker[w] \in Thread
  BY <1>1, Types
<1>3. tmp \in [Tmps -> Inodes] /\ dest \in [Dests -> Inodes]
      /\ data \in [Workers -> [1 .. Chunks -> Jobs \cup {None}]]
  BY <1>1, Types
<1>4. {"InProgress", "Failed"} \subseteq Statuses /\ worker[w].result \in Statuses
  BY <1>2 DEF Statuses, Terminal, Thread
<1>5. CASE StartWorker(w) \/ NoClient(w) \/ Request(w) \/ Fails(w) \/ Report(w)
  <2>1. \E from, to : /\ Moves(w, from, to) /\ from # "unused"
                      /\ to \in {"request", "create", "report", "gone"}
                      /\ to \in {"request", "create"} => from \in {"start", "request"}
    BY <1>5 DEF StartWorker, NoClient, Request, Fails, Report
  <2>2. PICK from, to : /\ Moves(w, from, to) /\ from # "unused"
                        /\ to \in {"request", "create", "report", "gone"}
                        /\ to \in {"request", "create"} => from \in {"start", "request"}
    BY <2>1
  <2>3. /\ worker' \in [Workers -> Thread]
        /\ worker'[w].at = to /\ worker'[w].job = worker[w].job
        /\ worker'[w].file = worker[w].file /\ worker'[w].done = worker[w].done
        /\ worker'[w].result = worker[w].result
        /\ \A v \in Workers : v # w => worker'[v] = worker[v]
    BY <1>2, <2>2, MovesTo
  <2>4. worker[w].at = from /\ UNCHANGED <<queueVars, row, writes>>
    BY <2>2 DEF Moves
  <2>5. UNCHANGED <<tmp, dest, data>>
    BY <1>5 DEF StartWorker, NoClient, Request, Fails, Report, fileVars
  <2>6. \/ UNCHANGED chan
        \/ \E s \in Statuses : /\ Send(worker[w].job, s)
                               /\ s = "Complete" => worker[w].result = "Complete"
    BY <1>4, <1>5 DEF StartWorker, NoClient, Request, Fails, Report
  <2>7. worker'[w].at # "stream"
    BY <2>2, <2>3
  <2>8. Early(w)' => Early(w)
    BY <2>2, <2>3, <2>4 DEF Early, EarlyAt
  <2>9. QED
    BY <1>3, <2>2, <2>3, <2>4, <2>5, <2>6, <2>7, <2>8, ThreadKeepsQueue
<1>6. CASE CreateTmp(w)
  <2>1. PICK t \in Tmps, i \in Workers :
           /\ t = TmpOf[worker[w].job] /\ i = IF tmp[t] = None THEN w ELSE tmp[t]
           /\ worker[w].at = "create"
           /\ worker' \in [Workers -> Thread]
           /\ worker'[w].at = "stream" /\ worker'[w].job = worker[w].job
           /\ worker'[w].file = i /\ worker'[w].done = worker[w].done
           /\ worker'[w].result = worker[w].result
           /\ \A v \in Workers : v # w => worker'[v] = worker[v]
           /\ tmp' = [tmp EXCEPT ![t] = i]
           /\ data' = [data EXCEPT ![i] = Body(None, 0)]
    BY <1>1, <1>6, CreateOpens
  <2>2. tmp' \in [Tmps -> Inodes] /\ data' \in [Workers -> [1 .. Chunks -> Jobs \cup {None}]]
    BY <1>3, <2>1, Bodies DEF Inodes
  <2>3. UNCHANGED dest /\ UNCHANGED chan /\ UNCHANGED <<queueVars, row, writes>>
    BY <1>6 DEF CreateTmp
  <2>4. worker'[w].done < Chunks
    BY <1>1, <2>1, DownloadAssumption DEF WorkersSane, Early, EarlyAt
  <2>5. ~ Early(w)'
    BY <2>1 DEF Early, EarlyAt
  <2>6. QED
    BY <1>3, <2>1, <2>2, <2>3, <2>4, <2>5, ThreadKeepsQueue
<1>7. CASE WriteChunk(w)
  <2>1. PICK n \in 1 .. Chunks :
           /\ n = worker[w].done + 1
           /\ worker[w].at = "stream" /\ worker[w].job \in Jobs
           /\ worker' \in [Workers -> Thread]
           /\ worker'[w].at = IF n = Chunks THEN "rename" ELSE "stream"
           /\ worker'[w].job = worker[w].job
           /\ worker'[w].file = worker[w].file /\ worker'[w].done = n
           /\ worker'[w].result = worker[w].result
           /\ \A v \in Workers : v # w => worker'[v] = worker[v]
           /\ data' = [data EXCEPT ![worker[w].file][n] = worker[w].job]
    BY <1>1, <1>7, ChunkGrows
  <2>2. data' \in [Workers -> [1 .. Chunks -> Jobs \cup {None}]]
    BY <1>3, <2>1
  <2>3. UNCHANGED <<tmp, dest>> /\ UNCHANGED <<queueVars, row, writes>>
        /\ Send(worker[w].job, "InProgress")
    BY <1>7 DEF WriteChunk
  <2>4. worker'[w].at = "stream" => worker'[w].done < Chunks
    BY <2>1, DownloadAssumption
  <2>5. ~ Early(w)'
    BY <2>1 DEF Early, EarlyAt
  <2>6. \E s \in Statuses : /\ Send(worker[w].job, s)
                            /\ s = "Complete" => worker[w].result = "Complete"
    BY <1>4, <2>3
  <2>7. worker'[w].at # "unused"
    BY <2>1
  <2>8. QED
    BY <1>3, <2>1, <2>2, <2>3, <2>4, <2>5, <2>6, <2>7, ThreadKeepsQueue
<1>8. CASE RenameTmp(w)
  <2>1. PICK d \in Dests, t \in Tmps :
           /\ d = DestOf[worker[w].job] /\ t = TmpOf[worker[w].job] /\ worker[w].job \in Jobs
           /\ worker[w].at = "rename"
           /\ worker' \in [Workers -> Thread]
           /\ worker'[w].at = "report" /\ worker'[w].job = worker[w].job
           /\ worker'[w].file = worker[w].file /\ worker'[w].done = worker[w].done
           /\ worker'[w].result = IF tmp[t] = None THEN worker[w].result ELSE "Complete"
           /\ \A v \in Workers : v # w => worker'[v] = worker[v]
           /\ dest' = IF tmp[t] = None THEN dest ELSE [dest EXCEPT ![d] = tmp[t]]
           /\ tmp' = [tmp EXCEPT ![t] = None]
    BY <1>1, <1>8, RenameMoves
  <2>2. tmp' \in [Tmps -> Inodes] /\ dest' \in [Dests -> Inodes]
    BY <1>3, <2>1 DEF Inodes
  <2>3. UNCHANGED data /\ UNCHANGED chan /\ UNCHANGED <<queueVars, row, writes>>
    BY <1>8 DEF RenameTmp
  <2>4. \A e \in Dests : dest'[e] = None => dest[e] = None
    BY <1>3, <2>1
  <2>5. worker'[w].result = "Complete" =>
           worker[w].result = "Complete" \/ dest'[DestOf[worker[w].job]] # None
    BY <1>3, <2>1
  <2>6. ~ Early(w)'
    BY <2>1 DEF Early, EarlyAt
  <2>7. worker'[w].at # "unused" /\ worker'[w].at # "stream"
    BY <2>1
  <2>8. QED
    BY <1>3, <2>1, <2>2, <2>3, <2>4, <2>5, <2>6, <2>7, ThreadKeepsQueue
<1>9. QED
  BY <1>5, <1>6, <1>7, <1>8 DEF WorkerStep

\* One step of the queue, of the cancel button included.
QueueStep == NextWithoutCancel \/ \E j \in Jobs : Cancel(j)

LEMMA StepKeepsQueue ==
  ASSUME QueueInv, QueueStep
  PROVE  QueueInv'
<1>1. TypeOK
  BY DEF QueueInv
<1>2. ASSUME NEW j \in Jobs, Enqueue(j)
      PROVE  QueueInv'
  <2>1. drawn' \subseteq Jobs
    BY <1>1, <1>2 DEF Enqueue, TypeOK
  <2>2. /\ Send(j, "Queued") /\ Spawn(j) /\ status' = [status EXCEPT ![j] = "Queued"]
        /\ writes' = BagAdd(writes, [job |-> j, status |-> "Queued"])
        /\ UNCHANGED <<draining, fileVars, row>>
    BY <1>2 DEF Enqueue
  <2>3. QED
    BY <2>1, <2>2, AttemptKeepsQueue
<1>3. ASSUME NEW j \in Jobs, Retry(j)
      PROVE  QueueInv'
  <2>1. drawn' \subseteq Jobs
    BY <1>1, <1>3 DEF Retry, TypeOK
  <2>2. /\ Send(j, "Queued") /\ Spawn(j) /\ status' = [status EXCEPT ![j] = "Queued"]
        /\ writes' = writes
        /\ UNCHANGED <<draining, fileVars, row>>
    BY <1>3 DEF Retry
  <2>3. QED
    BY <2>1, <2>2, AttemptKeepsQueue
<1>4. CASE ClearCompleted \/ \E j \in Jobs : RemoveCompleted(j) \/ Cancel(j)
  BY <1>4, ButtonsKeepQueue
<1>5. CASE ApplyProgress
  BY <1>5, DrainKeepsQueue
<1>6. CASE \E w \in Workers : WorkerStep(w)
  BY <1>6, WorkerKeepsQueue
<1>7. CASE RunWrite
  BY <1>7, WriteKeepsQueue
<1>8. CASE Restart
  BY <1>8, RestartKeepsQueue
<1>9. QED
  BY <1>2, <1>3, <1>4, <1>5, <1>6, <1>7, <1>8 DEF QueueStep, NextWithoutCancel

LEMMA StutterKeepsQueue ==
  ASSUME QueueInv, UNCHANGED vars
  PROVE  QueueInv'
BY DEF QueueInv, TypeOK, WorkersSane, Early, EarlyAt, CompleteIsTrue, vars, queueVars, fileVars

LEMMA InitMakesQueue == Init => QueueInv
<1> SUFFICES ASSUME Init
             PROVE  QueueInv
  OBVIOUS
<1>1. TypeOK
  <2>1. worker \in [Workers -> Thread]
    BY DownloadAssumption DEF Init, Thread, Inodes, Terminal
  <2>2. chan \in Seq(Message) /\ BagToSet(writes) \subseteq Write
    BY NothingInBag DEF Init
  <2>3. QED
    BY <2>1, <2>2, Types, Bodies DEF Init, Inodes
<1>2. WorkersSane
  BY DEF Init, WorkersSane, Early, EarlyAt
<1>3. CompleteIsTrue
  <2>1. DOMAIN chan = {} /\ DOMAIN writes = {}
    BY NothingInBag DEF Init, BagToSet
  <2>2. QED
    BY <2>1 DEF Init, CompleteIsTrue
<1>4. QED
  BY <1>1, <1>2, <1>3 DEF QueueInv

(***************************************************************************)
(* The page: StatusTrue.                                                   *)
(***************************************************************************)

\* A row of the page shows a status the queue had, and the files only appear.
SideRows == [Jobs -> {"none", "Queued", "Failed"}]

PageInv ==
  /\ QueueInv /\ PageTypeOK
  /\ reloads \in Nat /\ states \in Seq(SideRows)
  /\ \A j \in Jobs : page[j] = "Complete" => dest[DestOf[j]] # None

LEMMA FilesStay ==
  ASSUME QueueInv, NEW d \in Dests, dest[d] # None, QueueStep \/ UNCHANGED vars
  PROVE  dest'[d] # None
<1>1. CASE \E w \in Workers : RenameTmp(w)
  <2>1. PICK w \in Workers : RenameTmp(w)
    BY <1>1
  <2>2. PICK e \in Dests, t \in Tmps :
        dest' = IF tmp[t] = None THEN dest ELSE [dest EXCEPT ![e] = tmp[t]]
    BY <2>1, RenameMoves DEF QueueInv
  <2>3. QED
    BY <2>2
<1>2. CASE ~ \E w \in Workers : RenameTmp(w)
  <2>1. CASE UNCHANGED vars
    BY <2>1 DEF vars, fileVars
  <2>2. CASE QueueStep
    <3>1. UNCHANGED dest
      BY <1>2, <2>2 DEF QueueStep, NextWithoutCancel, Enqueue, Retry, RemoveCompleted,
         ClearCompleted, Cancel, ApplyProgress, RunWrite, Restart, WorkerStep, StartWorker,
         NoClient, Request, Fails, CreateTmp, WriteChunk, Report, fileVars
    <3>2. QED
      BY <3>1
  <2>3. QED
    BY <2>1, <2>2
<1>3. QED
  BY <1>1, <1>2

\* A step of the page takes at most one step of the queue.
LEMMA PageStepsQueue == PageNext => QueueStep \/ UNCHANGED vars
<1> SUFFICES ASSUME PageNext
             PROVE  QueueStep \/ UNCHANGED vars
  OBVIOUS
<1> USE DEF QueueStep, NextWithoutCancel
<1>1. CASE \E j \in Jobs : \/ OpenLink(j) \/ ResolveLink(j) \/ NewDownload(j)
                          \/ ClickCancel(j) \/ ClickRetry(j) \/ ClickRemove(j)
  BY <1>1 DEF OpenLink, ResolveLink, NewDownload, ClickCancel, ClickRetry, ClickRemove,
              NothingToDo
<1>2. CASE TakeLinks \/ ClickClear
  BY <1>2 DEF TakeLinks, ClickClear, vars
<1>3. CASE Drain \/ Deliver \/ RunReload
  BY <1>3 DEF Drain, Deliver, RunReload, vars
<1>4. CASE (\E w \in Workers : WorkerStep(w)) \/ RunWrite \/ RestartPage
  BY <1>4 DEF RestartPage
<1>5. QED
  BY <1>1, <1>2, <1>3, <1>4 DEF PageNext

\* The builds of the page show the queue; nothing else changes the page.
LEMMA PageShowsQueue ==
  ASSUME PageNext
  PROVE  page' \in {page, status, status', [j \in Jobs |-> "absent"]}
BY DEF PageNext, OpenLink, ResolveLink, NewDownload, ClickCancel, ClickRetry, ClickRemove,
       TakeLinks, ClickClear, Drain, Deliver, RunReload, RestartPage, LinkMoves, AskReload,
       pageVars

LEMMA PageStepKeepsTypes ==
  ASSUME PageInv, QueueInv', PageNext
  PROVE  /\ PageTypeOK' /\ reloads' \in Nat /\ states' \in Seq(SideRows)
<1>1. /\ page \in [Jobs -> Statuses \cup {"absent"}]
      /\ status \in [Jobs -> Statuses \cup {"absent"}]
      /\ status' \in [Jobs -> Statuses \cup {"absent"}]
      /\ row \in [Jobs -> {"none", "Queued"} \cup Terminal]
      /\ reloads \in Nat /\ states \in Seq(SideRows)
      /\ reloads + Len(states) <= MaxReloads
      /\ side \in SideRows
      /\ link \in [Jobs -> {"unseen", "waiting", "resolving", "resolved", "gone"}]
      /\ MaxReloads \in Nat \ {0}
  BY PageAssumption DEF PageInv, QueueInv, PageTypeOK, TypeOK, SideRows
<1>2. page' \in [Jobs -> Statuses \cup {"absent"}]
  BY <1>1, PageShowsQueue
<1>3. Unfinished(row) \in SideRows
  BY <1>1 DEF Unfinished, SideRows, Terminal
<1>4. link' \in [Jobs -> {"unseen", "waiting", "resolving", "resolved", "gone"}]
  BY <1>1 DEF PageNext, OpenLink, ResolveLink, NewDownload, ClickCancel, ClickRetry,
     ClickRemove, TakeLinks, ClickClear, Drain, Deliver, RunReload, RestartPage,
     LinkMoves, AskReload, pageVars
<1>5. side' = side \/ side' = [j \in Jobs |-> "none"] \/ (states # << >> /\ side' = Head(states))
  BY DEF PageNext, OpenLink, ResolveLink, NewDownload, ClickCancel, ClickRetry,
     ClickRemove, TakeLinks, ClickClear, Drain, Deliver, RunReload, RestartPage,
     LinkMoves, AskReload, pageVars
<1>6. side' \in SideRows
  <2>1. states # << >> => Head(states) \in SideRows
    BY <1>1, HeadTailProperties
  <2>2. [j \in Jobs |-> "none"] \in SideRows
    BY DEF SideRows
  <2>3. QED
    BY <1>1, <1>5, <2>1, <2>2
<1>7. \/ UNCHANGED <<reloads, states>>
      \/ reloads + Len(states) < MaxReloads /\ reloads' = reloads + 1 /\ states' = states
      \/ /\ reloads > 0 /\ reloads' = reloads - 1
         /\ states' \in {states, Append(states, Unfinished(row))}
      \/ states # << >> /\ states' = Tail(states) /\ reloads' = reloads
      \/ reloads' = 1 /\ states' = << >>
  BY DEF PageNext, OpenLink, ResolveLink, NewDownload, ClickCancel, ClickRetry,
     ClickRemove, TakeLinks, ClickClear, Drain, Deliver, RunReload, RestartPage,
     LinkMoves, AskReload, pageVars
<1>8. /\ reloads' \in Nat /\ states' \in Seq(SideRows)
      /\ reloads' + Len(states') <= MaxReloads
  <2>1. CASE UNCHANGED <<reloads, states>>
    BY <1>1, <2>1
  <2>2. CASE reloads + Len(states) < MaxReloads /\ reloads' = reloads + 1 /\ states' = states
    BY <1>1, <2>2
  <2>3. CASE /\ reloads > 0 /\ reloads' = reloads - 1
             /\ states' \in {states, Append(states, Unfinished(row))}
    BY <1>1, <1>3, <2>3
  <2>4. CASE states # << >> /\ states' = Tail(states) /\ reloads' = reloads
    <3>1. Tail(states) \in Seq(SideRows) /\ Len(Tail(states)) = Len(states) - 1
      BY <1>1, <2>4, HeadTailProperties
    <3>2. QED
      BY <1>1, <2>4, <3>1
  <2>5. CASE reloads' = 1 /\ states' = << >>
    BY <1>1, <2>5
  <2>6. QED
    BY <1>7, <2>1, <2>2, <2>3, <2>4, <2>5
<1>9. /\ reloads' + Len(states') \in 0 .. MaxReloads
      /\ \A i \in DOMAIN states' : states'[i] \in SideRows
  BY <1>1, <1>8
<1>10. QED
  BY <1>2, <1>4, <1>6, <1>8, <1>9 DEF PageTypeOK, SideRows, QueueInv

LEMMA PageStepKeepsInv ==
  ASSUME PageInv, PageNext
  PROVE  PageInv'
<1>1. QueueStep \/ UNCHANGED vars
  BY PageStepsQueue
<1>2. QueueInv'
  BY <1>1, StepKeepsQueue, StutterKeepsQueue DEF PageInv
<1>3. PageTypeOK' /\ reloads' \in Nat /\ states' \in Seq(SideRows)
  BY <1>2, PageStepKeepsTypes
<1>4. ASSUME NEW j \in Jobs, page'[j] = "Complete"
      PROVE  dest'[DestOf[j]] # None
  <2>1. "Complete" \in {page[j], status[j], status'[j]}
    BY <1>4, PageShowsQueue
  <2>2. CASE status'[j] = "Complete"
    BY <1>2, <2>2 DEF QueueInv, CompleteIsTrue
  <2>3. CASE page[j] = "Complete" \/ status[j] = "Complete"
    BY <1>1, <2>3, FilesStay, PathsOfJobs DEF PageInv, QueueInv, CompleteIsTrue
  <2>4. QED
    BY <2>1, <2>2, <2>3
<1>5. QED
  BY <1>2, <1>3, <1>4 DEF PageInv

\* Whoever reads on the page, in the queue or in the table that a download is
\* complete finds its file: clicks on old rows, cancellations that leave the
\* thread running, retries and restarts at any point included.
THEOREM StatusIsTrue == PageSpec => []StatusTrue
<1>1. PageInit => PageInv
  <2> SUFFICES ASSUME PageInit
               PROVE  PageInv
    OBVIOUS
  <2>1. QueueInv
    BY InitMakesQueue DEF PageInit
  <2>2. page \in [Jobs -> Statuses \cup {"absent"}] /\ \A j \in Jobs : page[j] = "absent"
    BY DEF PageInit
  <2>3. reloads = 1 /\ states = << >> /\ MaxReloads \in Nat \ {0}
    BY PageAssumption DEF PageInit
  <2>4. /\ reloads \in Nat /\ states \in Seq(SideRows)
        /\ reloads + Len(states) \in 0 .. MaxReloads /\ DOMAIN states = {}
    BY <2>3
  <2>5. PageTypeOK
    BY <2>1, <2>2, <2>4 DEF PageInit, PageTypeOK, QueueInv
  <2>6. QED
    BY <2>1, <2>2, <2>4, <2>5 DEF PageInv
<1>2. PageInv /\ [PageNext]_allVars => PageInv'
  <2>1. CASE PageNext
    BY <2>1, PageStepKeepsInv
  <2>2. CASE UNCHANGED allVars
    BY <2>2, StutterKeepsQueue DEF PageInv, PageTypeOK, QueueInv, allVars, pageVars, vars,
       queueVars, fileVars
  <2>3. QED
    BY <2>1, <2>2
<1>3. PageInv => StatusTrue
  BY DEF PageInv, QueueInv, StatusTrue, CompleteHasFile, CompleteIsTrue
<1>4. QED
  BY <1>1, <1>2, <1>3, PTL DEF PageSpec

(***************************************************************************)
(* Attempts: AttemptsSafe, when nobody cancels.                            *)
(***************************************************************************)

LEMMA AttemptKeepsJobs ==
  ASSUME QueueInv, JobsInv, NEW j \in Jobs, Enqueue(j) \/ Retry(j)
  PROVE  JobsInv'
<1>1. TypeOK
  BY DEF QueueInv
<1>2. /\ Send(j, "Queued") /\ Spawn(j) /\ status' = [status EXCEPT ![j] = "Queued"]
      /\ \A k \in Jobs : k \in drawn \/ k = j => k \in drawn'
  <2>1. CASE Enqueue(j)
    BY <2>1 DEF Enqueue
  <2>2. CASE Retry(j)
    BY <2>2 DEF Retry, JobsInv
  <2>3. QED
    BY <2>1, <2>2
<1>3. status[j] \notin {"Queued", "InProgress"}
  BY <1>1, <1>2 DEF Enqueue, Retry, JobsInv, TypeOK
<1>4. PICK w \in Workers :
        /\ worker[w].at = "unused"
        /\ worker' \in [Workers -> Thread]
        /\ worker'[w].at = "start" /\ worker'[w].job = j
        /\ worker'[w].done = worker[w].done /\ worker'[w].result = worker[w].result
        /\ \A v \in Workers : v # w => worker'[v] = worker[v]
  BY <1>1, <1>2, SpawnStarts, Types
<1>5. /\ DOMAIN chan = 1 .. Len(chan) /\ DOMAIN chan' = 1 .. (Len(chan) + 1)
      /\ Len(chan) \in Nat
      /\ \A i \in DOMAIN chan : chan'[i] = chan[i] /\ chan[i].job \in Jobs
      /\ chan'[Len(chan) + 1].job = j /\ chan'[Len(chan) + 1].status = "Queued"
  <2>1. "Queued" \in Statuses
    BY DEF Statuses
  <2>2. /\ Len(chan) \in Nat /\ DOMAIN chan = 1 .. Len(chan)
        /\ DOMAIN chan' = 1 .. (Len(chan) + 1)
        /\ \A i \in DOMAIN chan : chan'[i] = chan[i]
        /\ chan'[Len(chan) + 1] = [job |-> j, status |-> "Queued"]
    BY <1>1, <1>2, <2>1, Messages, SendAppends
  <2>3. QED
    BY <1>1, <2>2, Messages
<1>6. \A k \in Jobs : status'[k] = IF k = j THEN "Queued" ELSE status[k]
  BY <1>1, <1>2, Types
<1>7. \A v \in Workers : Live(v)' <=> v = w \/ Live(v)
  BY <1>4 DEF Live
<1>8. \A v \in Workers : Live(v) => worker[v].job # j /\ worker[v].job \in Jobs /\ v # w
  BY <1>3, <1>4 DEF JobsInv, Live, QueueInv, WorkersSane
<1>9. \A i \in DOMAIN chan : chan[i].job # j
  BY <1>3 DEF JobsInv
<1>10. \A k \in Jobs : status'[k] # "Cancelled" /\ (status'[k] # "absent" => k \in drawn')
  BY <1>2, <1>6 DEF JobsInv
<1>11. \A v \in Workers : Live(v)' => status'[worker'[v].job] \in {"Queued", "InProgress"}
  BY <1>4, <1>6, <1>7, <1>8 DEF JobsInv
<1>12. \A u, v \in Workers : Live(u)' /\ Live(v)' /\ worker'[u].job = worker'[v].job => u = v
  BY <1>4, <1>7, <1>8 DEF JobsInv
<1>13. ASSUME NEW i \in DOMAIN chan'
       PROVE  /\ chan'[i].status # "Cancelled"
              /\ status'[chan'[i].job] \in {"Queued", "InProgress"}
              /\ chan'[i].status \in Terminal =>
                   /\ \A v \in Workers : Live(v)' => worker'[v].job # chan'[i].job
                   /\ \A k \in DOMAIN chan' : i < k => chan'[k].job # chan'[i].job
  <2>1. CASE i = Len(chan) + 1
    BY <1>5, <1>6, <2>1 DEF Terminal
  <2>2. CASE i \in DOMAIN chan
    BY <1>4, <1>5, <1>6, <1>7, <1>8, <1>9, <2>2 DEF JobsInv
  <2>3. QED
    BY <1>5, <2>1, <2>2
<1>14. QED
  BY <1>10, <1>11, <1>12, <1>13 DEF JobsInv

LEMMA DrainKeepsJobs ==
  ASSUME QueueInv, JobsInv, ApplyProgress
  PROVE  JobsInv'
<1> DEFINE m == Head(chan)
<1>1. TypeOK
  BY DEF QueueInv
<1>2. /\ m \in Message /\ m = chan[1] /\ 1 \in DOMAIN chan
      /\ Len(chan) \in Nat \ {0} /\ DOMAIN chan = 1 .. Len(chan)
      /\ DOMAIN chan' = 1 .. (Len(chan) - 1)
      /\ \A i \in DOMAIN chan' : i + 1 \in DOMAIN chan /\ chan'[i] = chan[i + 1]
  BY <1>1, TailShifts, Types DEF ApplyProgress
<1>3. m.job \in Jobs /\ m.status \in Statuses
  BY <1>2 DEF Message
<1>4. /\ status[m.job] \in {"Queued", "InProgress"}
      /\ m.status # "Cancelled"
      /\ m.status \in Terminal =>
           /\ \A w \in Workers : Live(w) => worker[w].job # m.job
           /\ \A k \in DOMAIN chan : 1 < k => chan[k].job # m.job
  BY <1>2 DEF JobsInv
<1>5. m.status \in Terminal \/ m.status \in {"Queued", "InProgress"}
  BY <1>3, <1>4 DEF Statuses
<1>6. \A k \in Jobs : status'[k] = IF k = m.job THEN m.status ELSE status[k]
  BY <1>1, <1>3, <1>4, Types DEF ApplyProgress
<1>7. UNCHANGED <<worker, drawn>>
  BY DEF ApplyProgress
<1>8. \A w \in Workers : Live(w)' <=> Live(w)
  BY <1>7 DEF Live
<1>9. \A i \in DOMAIN chan : chan[i].job \in Jobs
  BY <1>1, Messages
<1>10. \A w \in Workers : Live(w) => worker[w].job \in Jobs
  BY DEF QueueInv, WorkersSane, Live
<1> HIDE DEF m
<1>11. \A k \in Jobs : status'[k] # "Cancelled" /\ (status'[k] # "absent" => k \in drawn')
  BY <1>4, <1>6, <1>7 DEF JobsInv
<1>12. \A w \in Workers : Live(w) => status'[worker[w].job] \in {"Queued", "InProgress"}
  BY <1>4, <1>5, <1>6, <1>10 DEF JobsInv
<1>13. ASSUME NEW i \in DOMAIN chan'
       PROVE  /\ chan'[i].status # "Cancelled"
              /\ status'[chan'[i].job] \in {"Queued", "InProgress"}
              /\ chan'[i].status \in Terminal =>
                   /\ \A w \in Workers : Live(w) => worker[w].job # chan'[i].job
                   /\ \A k \in DOMAIN chan' : i < k => chan'[k].job # chan'[i].job
  <2>1. i + 1 \in DOMAIN chan /\ 1 < i + 1 /\ i \in Nat /\ chan'[i] = chan[i + 1]
    BY <1>2
  <2>2. status'[chan[i + 1].job] \in {"Queued", "InProgress"}
    BY <1>4, <1>5, <1>6, <1>9, <2>1 DEF JobsInv
  <2>3. ASSUME NEW k \in DOMAIN chan', i < k, chan'[i].status \in Terminal
        PROVE  chan'[k].job # chan'[i].job
    <3>1. k + 1 \in DOMAIN chan /\ chan'[k] = chan[k + 1] /\ i + 1 < k + 1
      BY <1>2, <2>3
    <3>2. QED
      BY <2>1, <2>3, <3>1 DEF JobsInv
  <2>4. QED
    BY <2>1, <2>2, <2>3 DEF JobsInv
<1>14. QED
  BY <1>7, <1>8, <1>11, <1>12, <1>13 DEF JobsInv

\* A live thread goes on or ends, and reports the end only when it does.
LEMMA ThreadKeepsJobs ==
  ASSUME QueueInv, JobsInv, NEW w \in Workers,
         Live(w), worker'[w].job = worker[w].job,
         \A v \in Workers : v # w => worker'[v] = worker[v],
         UNCHANGED chan \/ \E s \in Statuses : /\ Send(worker[w].job, s) /\ s # "Cancelled"
                                               /\ s \in Terminal => ~ Live(w)',
         UNCHANGED queueVars
  PROVE  JobsInv'
<1> DEFINE j == worker[w].job
<1>1. j \in Jobs /\ status[j] \in {"Queued", "InProgress"}
  BY DEF QueueInv, WorkersSane, Live, JobsInv
<1>2. \A v \in Workers : worker'[v].job = worker[v].job /\ (Live(v)' => Live(v))
  BY DEF Live
<1>3. UNCHANGED <<status, drawn>>
  BY DEF queueVars
<1>4. CASE UNCHANGED chan
  BY <1>2, <1>3, <1>4 DEF JobsInv
<1>5. ASSUME NEW s \in Statuses, Send(j, s), s # "Cancelled", s \in Terminal => ~ Live(w)'
      PROVE  JobsInv'
  <2>1. /\ DOMAIN chan = 1 .. Len(chan) /\ DOMAIN chan' = 1 .. (Len(chan) + 1)
        /\ Len(chan) \in Nat
        /\ \A i \in DOMAIN chan : chan'[i] = chan[i]
        /\ chan'[Len(chan) + 1].job = j /\ chan'[Len(chan) + 1].status = s
    <3>1. chan \in Seq(Message)
      BY Messages DEF QueueInv
    <3> HIDE DEF j
    <3>2. /\ Len(chan) \in Nat /\ DOMAIN chan = 1 .. Len(chan)
          /\ DOMAIN chan' = 1 .. (Len(chan) + 1)
          /\ \A i \in DOMAIN chan : chan'[i] = chan[i]
          /\ chan'[Len(chan) + 1] = [job |-> j, status |-> s]
      BY <1>1, <1>5, <3>1, SendAppends
    <3>3. QED
      BY <3>2
  <2>2. \A v \in Workers : Live(v) /\ worker[v].job = j => v = w
    BY DEF JobsInv
  <2> HIDE DEF j
  <2>3. ASSUME NEW i \in DOMAIN chan'
        PROVE  /\ chan'[i].status # "Cancelled"
               /\ status[chan'[i].job] \in {"Queued", "InProgress"}
               /\ chan'[i].status \in Terminal =>
                    /\ \A v \in Workers : Live(v)' => worker'[v].job # chan'[i].job
                    /\ \A k \in DOMAIN chan' : i < k => chan'[k].job # chan'[i].job
    <3>1. CASE i = Len(chan) + 1
      BY <1>1, <1>2, <1>5, <2>1, <2>2, <3>1
    <3>2. CASE i \in DOMAIN chan
      <4>1. chan[i].status \in Terminal => chan[i].job # j
        BY <3>2 DEF JobsInv, j
      <4>2. QED
        BY <1>2, <2>1, <3>2, <4>1 DEF JobsInv
    <3>3. QED
      BY <2>1, <3>1, <3>2
  <2>4. QED
    BY <1>2, <1>3, <2>3 DEF JobsInv
<1>6. QED
  BY <1>4, <1>5

LEMMA WorkerKeepsJobs ==
  ASSUME QueueInv, JobsInv, NEW w \in Workers, WorkerStep(w)
  PROVE  JobsInv'
<1>1. TypeOK /\ WorkersSane /\ worker \in [Workers -> Thread] /\ worker[w] \in Thread
  BY Types DEF QueueInv
<1>2. /\ {"InProgress", "Failed"} \subseteq Statuses
      /\ worker[w].result \in Statuses /\ worker[w].result # "Cancelled"
      /\ "InProgress" \notin Terminal
  BY <1>1 DEF Statuses, Terminal, Thread
<1>3. Live(w) /\ UNCHANGED queueVars
  BY DEF WorkerStep, StartWorker, NoClient, Request, Fails, CreateTmp, WriteChunk,
         RenameTmp, Report, Moves, Live
<1>4. /\ worker'[w].job = worker[w].job
      /\ \A v \in Workers : v # w => worker'[v] = worker[v]
  BY <1>1 DEF WorkerStep, StartWorker, NoClient, Request, Fails, CreateTmp, WriteChunk,
         RenameTmp, Report, Moves, Thread
<1>5. NoClient(w) \/ Report(w) => ~ Live(w)'
  BY <1>1 DEF NoClient, Report, Moves, Live, Thread
<1>6. \/ UNCHANGED chan
      \/ Send(worker[w].job, "InProgress")
      \/ NoClient(w) /\ Send(worker[w].job, "Failed")
      \/ Report(w) /\ Send(worker[w].job, worker[w].result)
  BY DEF WorkerStep, StartWorker, NoClient, Request, Fails, CreateTmp, WriteChunk,
         RenameTmp, Report
<1>7. QED
  BY <1>2, <1>3, <1>4, <1>5, <1>6, ThreadKeepsJobs

LEMMA StepKeepsJobs ==
  ASSUME QueueInv, JobsInv, [NextWithoutCancel]_vars
  PROVE  JobsInv'
<1>1. CASE \E j \in Jobs : Enqueue(j) \/ Retry(j)
  BY <1>1, AttemptKeepsJobs
<1>2. CASE ClearCompleted \/ \E j \in Jobs : RemoveCompleted(j)
  <2>1. UNCHANGED <<drawn, chan, worker>>
    BY <1>2 DEF ClearCompleted, RemoveCompleted
  <2>2. \A k \in Jobs : \/ status'[k] = status[k]
                        \/ status[k] = "Complete" /\ status'[k] = "absent"
    BY <1>2, Types DEF ClearCompleted, RemoveCompleted, QueueInv
  <2>3. \A i \in DOMAIN chan : chan[i].job \in Jobs
    BY Messages DEF QueueInv
  <2>4. \A w \in Workers : Live(w) => worker[w].job \in Jobs
    BY DEF QueueInv, WorkersSane, Live
  <2>5. QED
    BY <2>1, <2>2, <2>3, <2>4 DEF JobsInv, Live
<1>3. CASE ApplyProgress
  BY <1>3, DrainKeepsJobs
<1>4. CASE \E w \in Workers : WorkerStep(w)
  BY <1>4, WorkerKeepsJobs
<1>5. CASE RunWrite \/ UNCHANGED vars
  BY <1>5 DEF RunWrite, vars, queueVars, JobsInv, Live
<1>6. CASE Restart
  <2>1. \A w \in Workers : ~ Live(w)'
    BY <1>6, RestartEnds, Types DEF Live, QueueInv
  <2>2. DOMAIN chan' = {} /\ \A j \in Jobs : status'[j] = "absent"
    BY <1>6 DEF Restart
  <2>3. QED
    BY <2>1, <2>2 DEF JobsInv
<1>7. QED
  BY <1>1, <1>2, <1>3, <1>4, <1>5, <1>6 DEF NextWithoutCancel

\* A step that touches no file and starts no thread where it may write.
LEMMA FilesUntouched ==
  ASSUME TypeOK, FilesInv, UNCHANGED fileVars,
         \A w \in Workers : /\ ~ Early(w) => ~ Early(w)'
                            /\ Writing(w)' => Writing(w) /\ worker'[w] = worker[w]
  PROVE  FilesInv'
<1>1. UNCHANGED <<tmp, dest, data>>
  BY DEF fileVars
<1>2. /\ \A t \in Tmps : tmp[t] \in Workers \cup {None}
      /\ \A d \in Dests : dest[d] \in Workers \cup {None}
  BY DEF TypeOK, Inodes
<1>3. /\ \A t \in Tmps : tmp[t] # None => worker'[tmp[t]].at \notin EarlyAt
      /\ \A d \in Dests : dest[d] # None => worker'[dest[d]].at \notin EarlyAt
  BY <1>2 DEF FilesInv, Early
<1>4. \A w \in Workers : Writing(w)' =>
        /\ worker'[w].file # None
        /\ worker'[w].file = tmp[TmpOf[worker'[w].job]]
        /\ data[worker'[w].file] = Body(worker'[w].job, worker'[w].done)
        /\ worker'[w].at = "rename" => worker'[w].done = Chunks
  BY DEF FilesInv
<1>5. QED
  BY <1>1, <1>3, <1>4 DEF FilesInv

LEMMA CreateKeepsFiles ==
  ASSUME QueueInv, FilesInv, OneWorkerPerTmp, NEW w \in Workers, CreateTmp(w)
  PROVE  FilesInv'
<1>1. TypeOK /\ WorkersSane
  BY DEF QueueInv
<1>2. PICK t \in Tmps, i \in Workers :
           /\ t = TmpOf[worker[w].job] /\ i = IF tmp[t] = None THEN w ELSE tmp[t]
           /\ worker[w].at = "create"
           /\ worker' \in [Workers -> Thread]
           /\ worker'[w].at = "stream" /\ worker'[w].job = worker[w].job
           /\ worker'[w].file = i /\ worker'[w].done = worker[w].done
           /\ worker'[w].result = worker[w].result
           /\ \A v \in Workers : v # w => worker'[v] = worker[v]
           /\ tmp' = [tmp EXCEPT ![t] = i]
           /\ data' = [data EXCEPT ![i] = Body(None, 0)]
  BY <1>1, CreateOpens
<1>3. UNCHANGED dest
  BY DEF CreateTmp
<1>4. /\ \A u \in Tmps : /\ tmp[u] \in Workers \cup {None}
                         /\ tmp'[u] = IF u = t THEN i ELSE tmp[u]
      /\ \A d \in Dests : dest[d] \in Workers \cup {None}
      /\ \A v \in Workers : data'[v] = IF v = i THEN Body(None, 0) ELSE data[v]
      /\ i # None
  BY <1>1, <1>2, DownloadAssumption, Types DEF Inodes
\* The inode is new, or the one that was at the path; no other path has it.
<1>5. /\ \A u \in Tmps : tmp[u] = i => u = t
      /\ \A d \in Dests : dest[d] # i
  <2>1. CASE tmp[t] = None
    <3>1. i = w /\ Early(w) /\ w # None
      BY <1>2, <1>4, <2>1 DEF Early, EarlyAt
    <3>2. (\A u \in Tmps : tmp[u] # w) /\ \A d \in Dests : dest[d] # w
      BY <3>1 DEF FilesInv, Early
    <3>3. QED
      BY <3>1, <3>2
  <2>2. CASE tmp[t] # None
    BY <1>2, <2>2 DEF FilesInv
  <2>3. QED
    BY <2>1, <2>2
<1>6. ~ Early(w)' /\ (\A v \in Workers : ~ Early(v) => ~ Early(v)') /\ ~ Early(i)'
  <2>1. ~ Early(w)' /\ \A v \in Workers : ~ Early(v) => ~ Early(v)'
    BY <1>2 DEF Early, EarlyAt
  <2>2. i = w \/ ~ Early(i)
    BY <1>2 DEF FilesInv, Early
  <2>3. QED
    BY <2>1, <2>2
<1>7. \A u \in Tmps : tmp'[u] # None => worker'[tmp'[u]].at \notin EarlyAt
  BY <1>4, <1>6 DEF FilesInv, Early
<1>8. \A d \in Dests : dest[d] # None =>
        /\ worker'[dest[d]].at \notin EarlyAt
        /\ \E j \in Jobs : DestOf[j] = d /\ data'[dest[d]] = Body(j, Chunks)
  <2> SUFFICES ASSUME NEW d \in Dests, dest[d] # None
               PROVE  /\ worker'[dest[d]].at \notin EarlyAt
                      /\ \E j \in Jobs : DestOf[j] = d /\ data'[dest[d]] = Body(j, Chunks)
    OBVIOUS
  <2>1. dest[d] \in Workers /\ data'[dest[d]] = data[dest[d]]
    BY <1>4, <1>5
  <2>2. QED
    BY <1>6, <2>1 DEF FilesInv, Early
<1>9. /\ \A u, v \in Tmps : tmp'[u] # None /\ tmp'[u] = tmp'[v] => u = v
      /\ \A u \in Tmps, d \in Dests : tmp'[u] # None => tmp'[u] # dest[d]
  BY <1>4, <1>5 DEF FilesInv
<1>10. ASSUME NEW v \in Workers, Writing(v)'
       PROVE  /\ worker'[v].file # None
              /\ worker'[v].file = tmp'[TmpOf[worker'[v].job]]
              /\ data'[worker'[v].file] = Body(worker'[v].job, worker'[v].done)
              /\ worker'[v].at = "rename" => worker'[v].done = Chunks
  <2>1. CASE v = w
    <3>1. worker'[v].done = 0
      BY <1>1, <1>2, <2>1 DEF WorkersSane, Early, EarlyAt
    <3>2. data'[worker'[v].file] = Body(worker'[v].job, 0)
      BY <1>1, <1>2, <1>4, <2>1, Bodies, Types DEF Thread
    <3>3. QED
      BY <1>2, <1>4, <2>1, <3>1, <3>2
  <2>2. CASE v # w
    <3>1. worker'[v] = worker[v] /\ Writing(v)
      BY <1>2, <1>10, <2>2 DEF Writing
    <3>2. worker[v].job \in Jobs /\ Live(v) /\ Live(w)
      BY <1>1, <1>2, <3>1 DEF WorkersSane, Writing, Live
    <3>3. TmpOf[worker[v].job] \in Tmps /\ TmpOf[worker[v].job] # t
      BY <1>2, <2>2, <3>2, PathsOfJobs DEF OneWorkerPerTmp
    <3>4. worker[v].file = tmp[TmpOf[worker[v].job]] /\ worker[v].file # None
      BY <3>1 DEF FilesInv
    <3>5. worker[v].file # i /\ worker[v].file \in Workers
      BY <1>4, <1>5, <3>3, <3>4
    <3>6. data'[worker[v].file] = data[worker[v].file]
      BY <1>4, <3>5
    <3>7. tmp'[TmpOf[worker[v].job]] = tmp[TmpOf[worker[v].job]]
      BY <1>4, <3>3
    <3>8. QED
      BY <3>1, <3>4, <3>6, <3>7 DEF FilesInv
  <2>3. QED
    BY <2>1, <2>2
<1>11. QED
  BY <1>3, <1>7, <1>8, <1>9, <1>10 DEF FilesInv

LEMMA ChunkKeepsFiles ==
  ASSUME QueueInv, FilesInv, OneWorkerPerTmp, NEW w \in Workers, WriteChunk(w)
  PROVE  FilesInv'
<1>1. TypeOK /\ WorkersSane
  BY DEF QueueInv
<1>2. PICK n \in 1 .. Chunks :
           /\ n = worker[w].done + 1
           /\ worker[w].at = "stream" /\ worker[w].job \in Jobs
           /\ worker' \in [Workers -> Thread]
           /\ worker'[w].at = IF n = Chunks THEN "rename" ELSE "stream"
           /\ worker'[w].job = worker[w].job
           /\ worker'[w].file = worker[w].file /\ worker'[w].done = n
           /\ worker'[w].result = worker[w].result
           /\ \A v \in Workers : v # w => worker'[v] = worker[v]
           /\ data' = [data EXCEPT ![worker[w].file][n] = worker[w].job]
  BY <1>1, ChunkGrows
<1> DEFINE t == TmpOf[worker[w].job]
           i == worker[w].file
<1>3. UNCHANGED <<tmp, dest>>
  BY DEF WriteChunk
<1>4. t \in Tmps /\ Writing(w) /\ Live(w)
  BY <1>2, PathsOfJobs DEF Writing, Live
<1>5. i = tmp[t] /\ i # None /\ data[i] = Body(worker[w].job, worker[w].done)
  BY <1>4 DEF FilesInv
<1>6. /\ \A u \in Tmps : tmp[u] \in Workers \cup {None}
      /\ \A d \in Dests : dest[d] \in Workers \cup {None}
  BY <1>1 DEF TypeOK, Inodes
<1>7. i \in Workers
  BY <1>4, <1>5, <1>6
<1>8. worker[w].done \in Nat
  BY <1>1, DownloadAssumption, Types DEF Thread
<1>9. data'[i] = Body(worker[w].job, n)
  <2>1. data'[i] = [data[i] EXCEPT ![n] = worker[w].job]
    BY <1>1, <1>2, <1>7, Types
  <2>2. QED
    BY <1>2, <1>5, <1>8, <2>1, OneChunkMore
<1>10. \A v \in Workers : v # i => data'[v] = data[v]
  BY <1>1, <1>2, Types
<1>11. \A v \in Workers : ~ Early(v) => ~ Early(v)'
  BY <1>2 DEF Early, EarlyAt
<1> HIDE DEF t, i
<1>12. /\ \A u \in Tmps : tmp[u] # None => worker'[tmp[u]].at \notin EarlyAt
       /\ \A d \in Dests : dest[d] # None =>
            /\ worker'[dest[d]].at \notin EarlyAt
            /\ \E j \in Jobs : DestOf[j] = d /\ data'[dest[d]] = Body(j, Chunks)
  <2>1. \A u \in Tmps : tmp[u] # None => worker'[tmp[u]].at \notin EarlyAt
    BY <1>6, <1>11 DEF FilesInv, Early
  <2>2. \A d \in Dests : dest[d] # None => dest[d] # i /\ dest[d] \in Workers
    BY <1>4, <1>5, <1>6 DEF FilesInv
  <2>3. \A d \in Dests : dest[d] # None => worker'[dest[d]].at \notin EarlyAt
    BY <1>11, <2>2 DEF FilesInv, Early
  <2>4. \A d \in Dests : dest[d] # None =>
            \E j \in Jobs : DestOf[j] = d /\ data'[dest[d]] = Body(j, Chunks)
    BY <1>10, <2>2 DEF FilesInv
  <2>5. QED
    BY <2>1, <2>3, <2>4
<1>13. ASSUME NEW v \in Workers, Writing(v)'
       PROVE  /\ worker'[v].file # None
              /\ worker'[v].file = tmp[TmpOf[worker'[v].job]]
              /\ data'[worker'[v].file] = Body(worker'[v].job, worker'[v].done)
              /\ worker'[v].at = "rename" => worker'[v].done = Chunks
  <2>1. CASE v = w
    BY <1>2, <1>5, <1>9, <2>1, DownloadAssumption DEF i, t
  <2>2. CASE v # w
    <3>1. worker'[v] = worker[v] /\ Writing(v)
      BY <1>2, <1>13, <2>2 DEF Writing
    <3>2. worker[v].job \in Jobs /\ Live(v)
      BY <1>1, <3>1 DEF WorkersSane, Writing, Live
    <3>3. TmpOf[worker[v].job] \in Tmps /\ TmpOf[worker[v].job] # t
      BY <1>4, <2>2, <3>2, PathsOfJobs DEF OneWorkerPerTmp, t
    <3>4. worker[v].file = tmp[TmpOf[worker[v].job]] /\ worker[v].file # None
      BY <3>1 DEF FilesInv
    <3>5. worker[v].file # i /\ worker[v].file \in Workers
      BY <1>4, <1>5, <1>6, <3>3, <3>4 DEF FilesInv
    <3>6. QED
      BY <1>10, <3>1, <3>4, <3>5 DEF FilesInv
  <2>3. QED
    BY <2>1, <2>2
<1>14. QED
  BY <1>3, <1>12, <1>13 DEF FilesInv

LEMMA RenameKeepsFiles ==
  ASSUME QueueInv, FilesInv, OneWorkerPerTmp, NEW w \in Workers, RenameTmp(w)
  PROVE  FilesInv'
<1>1. TypeOK /\ WorkersSane
  BY DEF QueueInv
<1>2. PICK d \in Dests, t \in Tmps :
           /\ d = DestOf[worker[w].job] /\ t = TmpOf[worker[w].job] /\ worker[w].job \in Jobs
           /\ worker[w].at = "rename"
           /\ worker' \in [Workers -> Thread]
           /\ worker'[w].at = "report" /\ worker'[w].job = worker[w].job
           /\ worker'[w].file = worker[w].file /\ worker'[w].done = worker[w].done
           /\ worker'[w].result = IF tmp[t] = None THEN worker[w].result ELSE "Complete"
           /\ \A v \in Workers : v # w => worker'[v] = worker[v]
           /\ dest' = IF tmp[t] = None THEN dest ELSE [dest EXCEPT ![d] = tmp[t]]
           /\ tmp' = [tmp EXCEPT ![t] = None]
  BY <1>1, RenameMoves
<1>3. UNCHANGED data
  BY DEF RenameTmp
<1>4. Writing(w) /\ Live(w)
  BY <1>2 DEF Writing, Live
<1>5. tmp[t] # None /\ data[tmp[t]] = Body(worker[w].job, Chunks)
  BY <1>2, <1>4 DEF FilesInv
<1>6. /\ \A u \in Tmps : /\ tmp[u] \in Workers \cup {None}
                         /\ tmp'[u] = IF u = t THEN None ELSE tmp[u]
      /\ \A e \in Dests : /\ dest[e] \in Workers \cup {None}
                          /\ dest'[e] = IF e = d THEN tmp[t] ELSE dest[e]
  BY <1>1, <1>2, <1>5, Types DEF Inodes
<1>7. \A v \in Workers : ~ Early(v) => ~ Early(v)'
  BY <1>2 DEF Early, EarlyAt
<1>8. /\ \A u \in Tmps : tmp'[u] # None => worker'[tmp'[u]].at \notin EarlyAt
      /\ \A e \in Dests : dest'[e] # None => worker'[dest'[e]].at \notin EarlyAt
  BY <1>5, <1>6, <1>7 DEF FilesInv, Early
<1>9. \A e \in Dests : dest'[e] # None =>
        \E j \in Jobs : DestOf[j] = e /\ data[dest'[e]] = Body(j, Chunks)
  BY <1>2, <1>5, <1>6 DEF FilesInv
<1>10. /\ \A u, v \in Tmps : tmp'[u] # None /\ tmp'[u] = tmp'[v] => u = v
       /\ \A u \in Tmps, e \in Dests : tmp'[u] # None => tmp'[u] # dest'[e]
  BY <1>6 DEF FilesInv
<1>11. ASSUME NEW v \in Workers, Writing(v)'
       PROVE  /\ worker'[v].file # None
              /\ worker'[v].file = tmp'[TmpOf[worker'[v].job]]
              /\ data[worker'[v].file] = Body(worker'[v].job, worker'[v].done)
              /\ worker'[v].at = "rename" => worker'[v].done = Chunks
  <2>1. v # w
    BY <1>2, <1>11 DEF Writing
  <2>2. worker'[v] = worker[v] /\ Writing(v)
    BY <1>2, <1>11, <2>1 DEF Writing
  <2>3. worker[v].job \in Jobs /\ Live(v)
    BY <1>1, <2>2 DEF WorkersSane, Writing, Live
  <2>4. TmpOf[worker[v].job] \in Tmps /\ TmpOf[worker[v].job] # t
    BY <1>2, <1>4, <2>1, <2>3, PathsOfJobs DEF OneWorkerPerTmp
  <2>5. tmp'[TmpOf[worker[v].job]] = tmp[TmpOf[worker[v].job]]
    BY <1>6, <2>4
  <2>6. QED
    BY <2>2, <2>5 DEF FilesInv
<1>12. QED
  BY <1>3, <1>8, <1>9, <1>10, <1>11 DEF FilesInv

LEMMA StepKeepsFiles ==
  ASSUME QueueInv, FilesInv, OneWorkerPerTmp, [NextWithoutCancel]_vars
  PROVE  FilesInv'
<1>1. TypeOK /\ worker \in [Workers -> Thread]
  BY Types DEF QueueInv
<1>2. CASE \E j \in Jobs : Enqueue(j) \/ Retry(j)
  <2>1. PICK j \in Jobs : Enqueue(j) \/ Retry(j)
    BY <1>2
  <2>2. Spawn(j) /\ UNCHANGED fileVars
    BY <2>1 DEF Enqueue, Retry
  <2>3. PICK w \in Workers : /\ worker[w].at = "unused" /\ worker'[w].at = "start"
                             /\ \A v \in Workers : v # w => worker'[v] = worker[v]
    BY <1>1, <2>2, SpawnStarts
  <2>4. \A v \in Workers : /\ ~ Early(v) => ~ Early(v)'
                           /\ Writing(v)' => Writing(v) /\ worker'[v] = worker[v]
    BY <2>3 DEF Early, EarlyAt, Writing
  <2>5. QED
    BY <1>1, <2>2, <2>4, FilesUntouched
<1>3. CASE \/ ClearCompleted \/ \E j \in Jobs : RemoveCompleted(j)
           \/ ApplyProgress \/ RunWrite \/ UNCHANGED vars
  <2>1. UNCHANGED <<worker, fileVars>>
    BY <1>3 DEF ClearCompleted, RemoveCompleted, ApplyProgress, RunWrite, vars
  <2>2. \A v \in Workers : /\ ~ Early(v) => ~ Early(v)'
                           /\ Writing(v)' => Writing(v) /\ worker'[v] = worker[v]
    BY <2>1 DEF Early, EarlyAt, Writing
  <2>3. QED
    BY <1>1, <2>1, <2>2, FilesUntouched
<1>4. CASE Restart
  <2>1. UNCHANGED fileVars
    BY <1>4 DEF Restart
  <2>2. \A v \in Workers : worker'[v].at = IF worker[v].at = "unused" THEN "unused" ELSE "gone"
    BY <1>1, <1>4, RestartEnds
  <2>3. \A v \in Workers : /\ ~ Early(v) => ~ Early(v)'
                           /\ Writing(v)' => Writing(v) /\ worker'[v] = worker[v]
    BY <2>2 DEF Early, EarlyAt, Writing
  <2>4. QED
    BY <1>1, <2>1, <2>3, FilesUntouched
<1>5. ASSUME NEW w \in Workers, WorkerStep(w)
      PROVE  FilesInv'
  <2>1. CASE StartWorker(w) \/ NoClient(w) \/ Request(w) \/ Fails(w) \/ Report(w)
    <3>1. UNCHANGED fileVars
      BY <2>1 DEF StartWorker, NoClient, Request, Fails, Report
    <3>2. PICK from, to : /\ Moves(w, from, to)
                          /\ to \in {"request", "create", "report", "gone"}
                          /\ to \in {"request", "create"} => from \in {"start", "request"}
      BY <2>1 DEF StartWorker, NoClient, Request, Fails, Report
    <3>3. /\ worker'[w].at = to /\ worker[w].at = from
          /\ \A v \in Workers : v # w => worker'[v] = worker[v]
      BY <1>1, <3>2, MovesTo DEF Moves
    <3>4. \A v \in Workers : /\ ~ Early(v) => ~ Early(v)'
                             /\ Writing(v)' => Writing(v) /\ worker'[v] = worker[v]
      BY <3>2, <3>3 DEF Early, EarlyAt, Writing
    <3>5. QED
      BY <1>1, <3>1, <3>4, FilesUntouched
  <2>2. CASE CreateTmp(w)
    BY <2>2, CreateKeepsFiles
  <2>3. CASE WriteChunk(w)
    BY <2>3, ChunkKeepsFiles
  <2>4. CASE RenameTmp(w)
    BY <2>4, RenameKeepsFiles
  <2>5. QED
    BY <1>5, <2>1, <2>2, <2>3, <2>4 DEF WorkerStep
<1>6. QED
  BY <1>2, <1>3, <1>4, <1>5 DEF NextWithoutCancel

LEMMA InitMakesAttempts == Init => JobsInv /\ FilesInv
<1> SUFFICES ASSUME Init
             PROVE  JobsInv /\ FilesInv
  OBVIOUS
<1>1. \A w \in Workers : ~ Live(w) /\ ~ Writing(w)
  BY DEF Init, Live, Writing
<1>2. DOMAIN chan = {}
  BY DEF Init
<1>3. JobsInv
  BY <1>1, <1>2 DEF Init, JobsInv
<1>4. FilesInv
  BY <1>1 DEF Init, FilesInv
<1>5. QED
  BY <1>3, <1>4

\* Without the cancel button a job has one thread at a time, and one whose
\* status is final has none and no message on its way.
THEOREM AttemptsAreOrdered == NoCancelSpec => [](QueueInv /\ JobsInv)
<1>1. Init => QueueInv /\ JobsInv
  BY InitMakesQueue, InitMakesAttempts
<1>2. QueueInv /\ JobsInv /\ [NextWithoutCancel]_vars => (QueueInv /\ JobsInv)'
  BY StepKeepsQueue, StutterKeepsQueue, StepKeepsJobs DEF QueueStep
<1>3. QED
  BY <1>1, <1>2, PTL DEF NoCancelSpec

LEMMA InvariantsMakeSafe == QueueInv /\ JobsInv /\ FilesInv => AttemptsSafe
<1> SUFFICES ASSUME QueueInv, JobsInv, FilesInv
             PROVE  AttemptsSafe
  OBVIOUS
<1>1. OneWorkerPerJob
  BY DEF JobsInv, OneWorkerPerJob, Terminal
<1>2. DestWhole
  BY DEF FilesInv, DestWhole
<1>3. QED
  BY <1>1, <1>2 DEF QueueInv, AttemptsSafe

\* No attempt at a download spoils another, nor the file that is there, as long
\* as no two downloads that run write to one temporary file: a file at dest is
\* the whole body of a job for it, after failures, retries and the end of the
\* process at any point.  Destinations of their own are not enough: foo.zip and
\* foo.7z are written to foo.tmp.
THEOREM AttemptsAreSafe ==
  NoCancelSpec /\ []OneWorkerPerTmp => []AttemptsSafe
<1>1. Init => FilesInv
  BY InitMakesAttempts
<1>2. QueueInv /\ FilesInv /\ OneWorkerPerTmp /\ [NextWithoutCancel]_vars => FilesInv'
  BY StepKeepsFiles
<1>3. QED
  BY <1>1, <1>2, AttemptsAreOrdered, InvariantsMakeSafe, PTL DEF NoCancelSpec

\* When no two jobs have one temporary path, that is when their destinations
\* differ in more than the extension, nothing else is needed.
THEOREM OwnTmpsAreSafe ==
  ASSUME \A i, j \in Jobs : TmpOf[i] = TmpOf[j] => i = j
  PROVE  NoCancelSpec => []AttemptsSafe
<1>1. QueueInv /\ JobsInv => OneWorkerPerTmp
  <2> SUFFICES ASSUME QueueInv, JobsInv
               PROVE  OneWorkerPerTmp
    OBVIOUS
  <2>1. \A w \in Workers : Live(w) => worker[w].job \in Jobs
    BY DEF QueueInv, WorkersSane, Live
  <2>2. QED
    BY <2>1 DEF JobsInv, OneWorkerPerTmp
<1>2. QED
  BY <1>1, AttemptsAreOrdered, AttemptsAreSafe, PTL
=============================================================================
