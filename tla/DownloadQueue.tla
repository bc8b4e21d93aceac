---------------------------- MODULE DownloadQueue ----------------------------
(***************************************************************************)
(* The download queue of the window (mantle_ui/downloads/queue.rs), its    *)
(* worker threads (spawn_download, mantle_net/download.rs), the progress   *)
(* channel the window's idle loop drains (mantle_ui/window.rs) and the     *)
(* downloads table (data/downloads.rs).                                    *)
(*                                                                         *)
(* The GTK thread owns the queue.  Each worker downloads one file to the   *)
(* temporary path of its destination, dest.with_extension("tmp"), and      *)
(* renames it; it reports over an mpsc channel.  That path replaces the    *)
(* extension, so foo.zip and foo.7z have one.  The database is written by  *)
(* one short-lived thread per write, which nothing orders and nobody waits *)
(* for.                                                                    *)
(***************************************************************************)
EXTENDS Integers, Sequences, Bags, BagsExt

CONSTANTS
  Jobs,         \* the UUIDs enqueue may draw
  Workers,      \* bounds the threads spawn_download starts; none starts twice
  Chunks,       \* length of every response body
  DestOf,       \* the destination path of a job
  TmpOf,        \* its temporary path, the destination's with_extension("tmp")
  None          \* no job, no file

ASSUME DownloadAssumption ==
  /\ Chunks \in Nat \ {0}
  /\ DOMAIN DestOf = Jobs /\ DOMAIN TmpOf = Jobs
  /\ \A i, j \in Jobs : DestOf[i] = DestOf[j] => TmpOf[i] = TmpOf[j]
  /\ \A i, j \in Jobs : DestOf[i] # TmpOf[j]     \* no archive is called *.tmp
  /\ None \notin Jobs \cup Workers

VARIABLES
  status,       \* status[j] of the job in the queue, "absent" without one
  drawn,        \* the UUIDs already used
  chan,         \* the mpsc channel: a sequence of [job, status]
  draining,     \* the idle loop is between two messages of one drain
  worker,       \* worker[w]: where thread w is
  tmp, dest,    \* the files at the temporary paths and at dest: an inode or None
  data,         \* data[i][n]: the job whose body inode i holds as chunk n
  row,          \* row[j]: status column of the job's row, "none" without one
  writes        \* the database threads that have not run: a bag of [job, status]

queueVars == <<status, drawn, draining>>
fileVars == <<tmp, dest, data>>
vars == <<queueVars, chan, worker, fileVars, row, writes>>

Terminal == {"Complete", "Failed"}
Statuses == Terminal \cup {"Queued", "InProgress", "Cancelled"}
Dests == {DestOf[j] : j \in Jobs}
Tmps == {TmpOf[j] : j \in Jobs}

\* An inode is named by the worker that created it.
Inodes == Workers \cup {None}

\* The first n chunks of the body of job j.
Body(j, n) == [c \in 1 .. Chunks |-> IF c <= n THEN j ELSE None]

TypeOK ==
  /\ status \in [Jobs -> Statuses \cup {"absent"}]
  /\ drawn \subseteq Jobs
  /\ chan \in Seq([job : Jobs, status : Statuses])
  /\ draining \in BOOLEAN
  /\ worker \in [Workers ->
       [at     : {"unused", "start", "request", "create", "stream", "rename",
                  "report", "gone"},
        job    : Jobs \cup {None},
        file   : Inodes,                 \* the open file handle
        done   : 0 .. Chunks,            \* chunks written
        result : Terminal]]
  /\ tmp \in [Tmps -> Inodes] /\ dest \in [Dests -> Inodes]
  /\ data \in [Workers -> [1 .. Chunks -> Jobs \cup {None}]]
  /\ row \in [Jobs -> {"none", "Queued"} \cup Terminal]
  /\ BagToSet(writes) \subseteq [job : Jobs, status : {"Queued"} \cup Terminal]

Init ==
  /\ status = [j \in Jobs |-> "absent"]
  /\ drawn = {} /\ chan = << >> /\ draining = FALSE
  /\ worker = [w \in Workers |-> [at |-> "unused", job |-> None, file |-> None,
                                  done |-> 0, result |-> "Failed"]]
  /\ tmp = [t \in Tmps |-> None] /\ dest = [d \in Dests |-> None]
  /\ data = [w \in Workers |-> Body(None, 0)]
  /\ row = [j \in Jobs |-> "none"]
  /\ writes = EmptyBag

Send(j, s) == chan' = Append(chan, [job |-> j, status |-> s])

\* spawn_download(id, url, dest, progress_tx) on a fresh thread.
Spawn(j) ==
  \E w \in Workers :
    /\ worker[w].at = "unused"
    /\ worker' = [worker EXCEPT ![w].at = "start", ![w].job = j]

(***************************************************************************)
(* The GTK thread: button handlers and the idle loop.                      *)
(***************************************************************************)

Enqueue(j) ==
  /\ ~ draining /\ j \notin drawn
  /\ drawn' = drawn \cup {j}
  /\ status' = [status EXCEPT ![j] = "Queued"]
  /\ Send(j, "Queued")
  /\ writes' = BagAdd(writes, [job |-> j, status |-> "Queued"])
  /\ Spawn(j)
  /\ UNCHANGED <<draining, fileVars, row>>

Cancel(j) ==
  /\ ~ draining /\ status[j] \in {"InProgress", "Queued"}
  /\ status' = [status EXCEPT ![j] = "Cancelled"]
  /\ UNCHANGED <<drawn, draining, chan, worker, fileVars, row, writes>>

\* Mutant of Retry: a job is retried whatever its status.
RetryAny(j) ==
  /\ ~ draining /\ status[j] # "absent"
  /\ status' = [status EXCEPT ![j] = "Queued"]
  /\ Send(j, "Queued")
  /\ Spawn(j)
  /\ UNCHANGED <<drawn, draining, fileVars, row, writes>>

Retry(j) ==
  /\ ~ draining /\ status[j] \in {"Failed", "Cancelled"}
  /\ status' = [status EXCEPT ![j] = "Queued"]
  /\ Send(j, "Queued")
  /\ Spawn(j)
  /\ UNCHANGED <<drawn, draining, fileVars, row, writes>>

RemoveCompleted(j) ==
  /\ ~ draining /\ status[j] = "Complete"
  /\ status' = [status EXCEPT ![j] = "absent"]
  /\ UNCHANGED <<drawn, draining, chan, worker, fileVars, row, writes>>

ClearCompleted ==
  /\ ~ draining
  /\ status' = [j \in Jobs |-> IF status[j] = "Complete" THEN "absent" ELSE status[j]]
  /\ UNCHANGED <<drawn, draining, chan, worker, fileVars, row, writes>>

\* One round of the idle loop; it goes on until the channel is empty.
ApplyProgress ==
  /\ chan # << >>
  /\ chan' = Tail(chan) /\ draining' = (Tail(chan) # << >>)
  /\ LET m == Head(chan) IN
     IF status[m.job] = "absent"
     THEN UNCHANGED <<status, writes>>
     ELSE /\ status' = [status EXCEPT ![m.job] = m.status]
          /\ writes' = IF m.status \in Terminal THEN BagAdd(writes, m) ELSE writes
  /\ UNCHANGED <<drawn, worker, fileVars, row>>

(***************************************************************************)
(* Worker threads.                                                         *)
(***************************************************************************)

\* Worker w, at `from`, goes on at `to` without touching files or the channel.
Moves(w, from, to) ==
  /\ worker[w].at = from
  /\ worker' = [worker EXCEPT ![w].at = to]
  /\ UNCHANGED <<queueVars, row, writes>>

\* build_client, then the first InProgress.
StartWorker(w) ==
  /\ Moves(w, "start", "request")
  /\ Send(worker[w].job, "InProgress")
  /\ UNCHANGED fileVars

NoClient(w) ==
  /\ Moves(w, "start", "gone")
  /\ Send(worker[w].job, "Failed")
  /\ UNCHANGED fileVars

\* The response has a 2xx status.
Request(w) ==
  /\ Moves(w, "request", "create")
  /\ UNCHANGED <<chan, fileVars>>

\* Mutant of Fails: a failed request is taken for an empty body.
FailsUnnoticed(w) ==
  /\ worker[w].at = "request"
  /\ worker' = [worker EXCEPT ![w].at = "report", ![w].result = "Complete"]
  /\ UNCHANGED <<queueVars, chan, fileVars, row, writes>>

\* The request, the creation of the file, or a later chunk fails; `result` is
\* still "Failed" and the temporary file stays as it is.
Fails(w) ==
  /\ \E at \in {"request", "create", "stream"} : Moves(w, at, "report")
  /\ UNCHANGED <<chan, fileVars>>

\* File::create truncates the temporary file when it is there.
CreateTmp(w) ==
  LET t == TmpOf[worker[w].job]
      i == IF tmp[t] = None THEN w ELSE tmp[t] IN
  /\ worker[w].at = "create"
  /\ worker' = [worker EXCEPT ![w].at = "stream", ![w].file = i]
  /\ tmp' = [tmp EXCEPT ![t] = i]
  /\ data' = [data EXCEPT ![i] = Body(None, 0)]
  /\ UNCHANGED <<queueVars, chan, dest, row, writes>>

\* One chunk is written at the handle's own offset, and reported.
WriteChunk(w) ==
  LET n == worker[w].done + 1 IN
  /\ worker[w].at = "stream"
  /\ worker' = [worker EXCEPT ![w].done = n,
                              ![w].at = IF n = Chunks THEN "rename" ELSE "stream"]
  /\ data' = [data EXCEPT ![worker[w].file][n] = worker[w].job]
  /\ Send(worker[w].job, "InProgress")
  /\ UNCHANGED <<queueVars, tmp, dest, row, writes>>

\* rename(tmp_path, dest) of whatever lies at tmp_path; it fails when nothing does.
RenameTmp(w) ==
  LET d == DestOf[worker[w].job]
      t == TmpOf[worker[w].job] IN
  /\ worker[w].at = "rename"
  /\ worker' = [worker EXCEPT ![w].at = "report",
                              ![w].result = IF tmp[t] = None THEN @ ELSE "Complete"]
  /\ dest' = IF tmp[t] = None THEN dest ELSE [dest EXCEPT ![d] = tmp[t]]
  /\ tmp' = [tmp EXCEPT ![t] = None]
  /\ UNCHANGED <<queueVars, chan, data, row, writes>>

\* Mutant of Report: only success is sent.
ReportSuccess(w) ==
  /\ Moves(w, "report", "gone")
  /\ IF worker[w].result = "Complete" THEN Send(worker[w].job, "Complete")
     ELSE UNCHANGED chan
  /\ UNCHANGED fileVars

Report(w) ==
  /\ Moves(w, "report", "gone")
  /\ Send(worker[w].job, worker[w].result)
  /\ UNCHANGED fileVars

WorkerStep(w) ==
  \/ StartWorker(w) \/ NoClient(w) \/ Request(w) \/ Fails(w)
  \/ CreateTmp(w) \/ WriteChunk(w) \/ RenameTmp(w) \/ Report(w)

(***************************************************************************)
(* Database threads, and the end of the process.                           *)
(***************************************************************************)

\* upsert_download writes the row; update_download_status changes it only if
\* it is there.
RunWrite ==
  \E x \in BagToSet(writes) :
    /\ writes' = BagRemove(writes, x)
    /\ row' = IF x.status = "Queued" \/ row[x.job] # "none"
              THEN [row EXCEPT ![x.job] = x.status] ELSE row
    /\ UNCHANGED <<queueVars, chan, worker, fileVars>>

\* The process ends, with every thread of it, and is started again: the window
\* builds an empty queue (new_with_db).
Restart ==
  /\ status' = [j \in Jobs |-> "absent"]
  /\ chan' = << >> /\ draining' = FALSE /\ writes' = EmptyBag
  /\ worker' = [w \in Workers |->
       IF worker[w].at = "unused" THEN worker[w] ELSE [worker[w] EXCEPT !.at = "gone"]]
  /\ UNCHANGED <<drawn, fileVars, row>>

(***************************************************************************)
(* Specifications.                                                         *)
(***************************************************************************)

\* Everything but the cancel button, which is on the page (DownloadsPage).
NextWithoutCancel ==
  \/ \E j \in Jobs : Enqueue(j) \/ Retry(j) \/ RemoveCompleted(j)
  \/ ClearCompleted \/ ApplyProgress
  \/ \E w \in Workers : WorkerStep(w)
  \/ RunWrite \/ Restart

\* Threads run, and the idle source of the GTK main loop is called again and
\* again; nobody has to press a button.
Fairness ==
  /\ \A w \in Workers : WF_vars(WorkerStep(w))
  /\ WF_vars(ApplyProgress)
  /\ WF_vars(RunWrite)

NoCancelSpec == Init /\ [][NextWithoutCancel]_vars /\ Fairness

(***************************************************************************)
(* Properties.                                                             *)
(***************************************************************************)

Live(w) == worker[w].at \notin {"unused", "gone"}

\* Retry is safe after a failure: a job has one worker at a time, and when the
\* queue shows a terminal status nothing of an earlier attempt is on its way.
OneWorkerPerJob ==
  /\ \A v, w \in Workers : Live(v) /\ Live(w) /\ worker[v].job = worker[w].job => v = w
  /\ \A j \in Jobs : status[j] \in Terminal =>
       /\ \A w \in Workers : Live(w) => worker[w].job # j
       /\ \A i \in DOMAIN chan : chan[i].job # j

\* download_file's documentation: the body is written to a file of its own and
\* renamed to dest on success.  So a file at dest is the whole body of a job for
\* dest, also after a crash at any point.
DestWhole ==
  \A d \in Dests : dest[d] # None =>
    \E j \in Jobs : DestOf[j] = d /\ data[dest[d]] = Body(j, Chunks)

\* No attempt at a download spoils another, nor the file that is there.
AttemptsSafe == TypeOK /\ OneWorkerPerJob /\ DestWhole
=============================================================================
