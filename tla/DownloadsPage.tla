---------------------------- MODULE DownloadsPage ----------------------------
(***************************************************************************)
(* The Downloads page over the queue (mantle_ui/pages/downloads.rs) and    *)
(* the downloads section of the sidebar (mantle_ui/sidebar.rs).            *)
(*                                                                         *)
(* The page is a widget tree built from a snapshot of the queue: a row     *)
(* keeps the buttons of the status it was built with until the next build. *)
(* It is built again at the end of a drain of the progress channel and     *)
(* when a reloaded state arrives (window.rs).  Every click asks for such a *)
(* reload: a thread reads the database, and sends nothing when it cannot.  *)
(* The sidebar does not show the queue but the table, as a reload found it.*)
(*                                                                         *)
(* Jobs come from nxm links: the application's open handler (main.rs) puts *)
(* them in a queue that the window's idle loop empties, one thread per     *)
(* link asks Nexus for the address (mantle_net/nexus/mod.rs), and the loop *)
(* enqueues what the threads found.  The handler also builds one more      *)
(* window over the same queue of links; the page here is that of the       *)
(* window that took the link of the job.                                   *)
(***************************************************************************)
EXTENDS DownloadQueue

CONSTANT MaxReloads     \* bounds the reloads in flight

ASSUME PageAssumption == MaxReloads \in Nat \ {0}

VARIABLES
  page,         \* page[j]: the status the row of j was built with, or "absent"
  reloads,      \* reload threads that have not read the table
  states,       \* the reloaded states on their way: the unfinished rows of each
  side,         \* what the sidebar lists of the table
  link          \* link[j]: where the link is that becomes job j

pageVars == <<page, reloads, states, side, link>>
allVars == <<vars, pageVars>>

\* load_active_downloads: rows of other statuses than complete and cancelled.
Unfinished(r) == [j \in Jobs |-> IF r[j] = "Complete" THEN "none" ELSE r[j]]

PageTypeOK ==
  /\ TypeOK
  /\ page \in [Jobs -> Statuses \cup {"absent"}]
  /\ reloads + Len(states) \in 0 .. MaxReloads
  /\ \A i \in DOMAIN states : states[i] \in [Jobs -> {"none", "Queued", "Failed"}]
  /\ side \in [Jobs -> {"none", "Queued", "Failed"}]
  /\ link \in [Jobs -> {"unseen", "waiting", "resolving", "resolved", "gone"}]

\* The window is built with an empty queue, and the worker sends the first state.
PageInit ==
  /\ Init
  /\ page = [j \in Jobs |-> "absent"]
  /\ reloads = 1 /\ states = << >>
  /\ side = [j \in Jobs |-> "none"]
  /\ link = [j \in Jobs |-> "unseen"]

\* trigger_reload: one more thread.
AskReload ==
  /\ reloads + Len(states) < MaxReloads
  /\ reloads' = reloads + 1
  /\ UNCHANGED <<page, states, side, link>>

(***************************************************************************)
(* The buttons.  A click reaches the queue whatever became of the job      *)
(* since the row was built; the methods of the queue check for themselves. *)
(***************************************************************************)

\* The sections of the page whose rows have each button.
Cancellable == {"InProgress", "Queued"}
Retriable == {"Failed", "Cancelled"}
Removable == {"Complete"}

\* The method finds the job in none of the statuses it acts on.
NothingToDo(j, from) == ~ draining /\ status[j] \notin from /\ UNCHANGED vars

ClickCancel(j) ==
  /\ page[j] \in Cancellable
  /\ Cancel(j) \/ NothingToDo(j, Cancellable)
  /\ AskReload

ClickRetry(j) ==
  /\ page[j] \in Retriable
  /\ Retry(j) \/ NothingToDo(j, Retriable)
  /\ AskReload

ClickRemove(j) ==
  /\ page[j] \in Removable
  /\ RemoveCompleted(j) \/ NothingToDo(j, Removable)
  /\ AskReload

\* The button of the toolbar, which is there on an empty page too.
ClickClear == ClearCompleted /\ AskReload

(***************************************************************************)
(* nxm links.                                                              *)
(***************************************************************************)

LinkMoves(j, from, to) ==
  /\ link[j] = from
  /\ link' = [link EXCEPT ![j] = to]
  /\ UNCHANGED <<page, reloads, states, side>>

\* connect_open, which takes no link that is not nxm.
OpenLink(j) ==
  /\ ~ draining
  /\ LinkMoves(j, "unseen", "waiting")
  /\ UNCHANGED vars

\* The idle loop takes every waiting link and starts a thread for each.
TakeLinks ==
  /\ ~ draining
  /\ \E j \in Jobs : link[j] = "waiting"
  /\ link' = [j \in Jobs |-> IF link[j] = "waiting" THEN "resolving" ELSE link[j]]
  /\ UNCHANGED <<vars, page, reloads, states, side>>

\* Mutant of ResolveLink: a failed resolution is tried again.
ResolveAgain(j) ==
  /\ \E to \in {"resolved", "waiting"} : LinkMoves(j, "resolving", to)
  /\ UNCHANGED vars

\* resolve_nxm fails on a malformed link, an empty key, the request or an empty
\* list of addresses; the failure is logged, and nothing of it is shown.
ResolveLink(j) ==
  /\ \E to \in {"resolved", "gone"} : LinkMoves(j, "resolving", to)
  /\ UNCHANGED vars

\* The idle loop enqueues the address; the page shows it after the next drain.
NewDownload(j) ==
  /\ LinkMoves(j, "resolved", "gone")
  /\ Enqueue(j)

(***************************************************************************)
(* Builds of the page.                                                     *)
(***************************************************************************)

\* Mutant of Drain: the page is built before the messages are applied.
DrainAfterBuild ==
  /\ ApplyProgress
  /\ page' = IF draining' THEN page ELSE status
  /\ UNCHANGED <<reloads, states, side, link>>

\* The messages that have arrived are applied; then the page is built once.
Drain ==
  /\ ApplyProgress
  /\ page' = IF draining' THEN page ELSE status'
  /\ UNCHANGED <<reloads, states, side, link>>

\* A reload thread reads the table, or fails to open the database.
RunReload ==
  /\ reloads > 0
  /\ reloads' = reloads - 1
  /\ states' \in {states, Append(states, Unfinished(row))}
  /\ UNCHANGED <<vars, page, side, link>>

\* apply_state_update: the page is built from the queue, the sidebar from the
\* state that arrived.
Deliver ==
  /\ ~ draining /\ states # << >>
  /\ states' = Tail(states)
  /\ side' = Head(states)
  /\ page' = status
  /\ UNCHANGED <<vars, reloads, link>>

\* The process ends and is started again.
RestartPage ==
  /\ Restart
  /\ page' = [j \in Jobs |-> "absent"]
  /\ reloads' = 1 /\ states' = << >>
  /\ side' = [j \in Jobs |-> "none"]
  /\ link' = [j \in Jobs |-> IF link[j] = "unseen" THEN "unseen" ELSE "gone"]

PageNext ==
  \/ \E j \in Jobs : \/ OpenLink(j) \/ ResolveLink(j) \/ NewDownload(j)
                     \/ ClickCancel(j) \/ ClickRetry(j) \/ ClickRemove(j)
  \/ TakeLinks \/ ClickClear
  \/ Drain \/ Deliver \/ RunReload
  \/ (\E w \in Workers : WorkerStep(w)) /\ UNCHANGED pageVars
  \/ RunWrite /\ UNCHANGED pageVars
  \/ RestartPage

\* Threads run and the idle sources are called; nobody has to press a button.
PageFairness ==
  /\ \A w \in Workers : WF_allVars(WorkerStep(w) /\ UNCHANGED pageVars)
  /\ WF_allVars(Drain)
  /\ WF_allVars(Deliver)
  /\ WF_allVars(RunReload)
  /\ WF_allVars(TakeLinks)
  /\ \A j \in Jobs : WF_allVars(ResolveLink(j)) /\ WF_allVars(NewDownload(j))

PageSpec == PageInit /\ [][PageNext]_allVars /\ PageFairness

(***************************************************************************)
(* Properties.                                                             *)
(***************************************************************************)

\* The queue, the page and the table say complete only of a file that is at
\* dest, however old the snapshot is that each of them holds.
CompleteHasFile ==
  \A j \in Jobs : "Complete" \in {status[j], page[j], row[j]} => dest[DestOf[j]] # None

\* A link that was opened ends as a row of the page or as a logged failure,
\* through the open handler, the idle loop and a thread, and not half way.
LinksEnd ==
  \A j \in Jobs : link[j] \in {"waiting", "resolving", "resolved"} ~> link[j] = "gone"

\* No row waits or moves for ever: whatever is clicked, and if every reload
\* fails, the drain of the last worker's report builds the row anew.
RowsSettle ==
  \A j \in Jobs : page[j] \in {"Queued", "InProgress"}
                    ~> page[j] \notin {"Queued", "InProgress"}

\* Whoever reads that a download is complete finds its file.
StatusTrue == PageTypeOK /\ CompleteHasFile
=============================================================================
