-------------------------------- MODULE Pages --------------------------------
(***************************************************************************)
(* The overview, mods and profiles pages (mantle_ui/pages) over the        *)
(* database: rows and dialogs are built from one snapshot, and their       *)
(* handlers write with the ids they captured, however old the snapshot is  *)
(* by then.  Every handler opens the database for itself and runs on the   *)
(* GTK thread; the reloads it starts read beside it.                       *)
(*                                                                         *)
(* The statements of a write are in Profiles, the start of the worker in   *)
(* Window; here a write is one step, and the pages are what matters.       *)
(***************************************************************************)
EXTENDS Naturals, Sequences, FiniteSets

CONSTANTS
  Ids,           \* the profiles there may ever be
  Mods,          \* the mods, in the order every profile lists them
  OverviewRows,  \* how many of them the overview shows (6 in the code)
  MaxClicks,     \* bound: handlers that reach the database
  None

VARIABLES
  rows,          \* the profiles table
  given,         \* the ids it has ever handed out
  current,       \* those with is_active = 1
  lists,         \* lists[p]: the mods of profile p
  on,            \* on[p]: those enabled
  page,          \* the snapshot the pages are built from
  knob,          \* knob[w]: the switches that are on, on page w
  dialog,        \* the open dialog and the profile it captured
  loads,         \* loads[i]: the reload that click i has started
  chan,          \* snapshots on their way to the idle loop
  clicks,        \* handlers that have run
  newest,        \* the latest read the window has shown
  failed         \* a handler or a reload gave up, and no later read was shown

tables == <<rows, given, current, lists, on>>
widgets == <<page, knob, dialog>>
reloads == <<loads, chan>>
pageVars == <<tables, widgets, reloads, clicks, newest, failed>>

ModSet == {Mods[i] : i \in DOMAIN Mods}
Clicks == 1 .. MaxClicks

\* AppState, as far as these pages use it; `read` is the click it was read after.
NoSnapshot == [profiles |-> {}, flagged |-> {}, pid |-> None, mods |-> {}, on |-> {},
               read |-> 0]

\* The rows of the mods page: every mod, its switch as in the snapshot.
ModRows(s) == s.on
\* The mods page stays; its rows are removed and made again.
UpdateMods(s) == IF s.mods = {} THEN {} ELSE ModRows(s)
\* The overview shows the first few.
Head6(s) == {Mods[i] : i \in {j \in DOMAIN Mods :
               /\ Mods[j] \in s.mods
               /\ Cardinality({k \in 1 .. j : Mods[k] \in s.mods}) <= OverviewRows}}
OverviewSwitches(s) == s.on \cap Head6(s)

\* The overview's title: the flagged profile, or the first one.
Title(s) == IF s.flagged # {} THEN s.flagged
            ELSE IF s.profiles = {} THEN {} ELSE {CHOOSE p \in s.profiles : TRUE}

\* The profiles page lists every profile.
Listed(s) == s.profiles
\* The sidebar lists every profile and marks the active one.
Sidebar(s) == [p \in s.profiles |-> p \in s.flagged]

\* What a row of the profiles page offers.
Offers(p) == IF p \in page.flagged THEN {"clone"} ELSE {"clone", "activate", "delete"}

\* apply_state_update: every page is filled again, the mods page in place.
BuildPages(s) ==
  /\ page' = s
  /\ knob' = [mods |-> UpdateMods(s), overview |-> OverviewSwitches(s)]

\* A whole snapshot of the tables, as load_state reads it in one go.
Fresh(n) ==
  IF current' = {}
  THEN [NoSnapshot EXCEPT !.profiles = rows', !.read = n]
  ELSE LET p == CHOOSE q \in current' : TRUE IN
       [profiles |-> rows', flagged |-> current', pid |-> p, mods |-> lists'[p],
        on |-> on'[p], read |-> n]

PagesInit ==
  /\ \E p, q \in Ids : p # q /\ rows = {p, q} /\ current = {p}
  /\ given = rows
  /\ lists = [p \in Ids |-> IF p \in rows THEN ModSet ELSE {}]
  /\ on \in {f \in [Ids -> SUBSET ModSet] : \A p \in Ids : f[p] \subseteq lists[p]}
  /\ page = [profiles |-> rows, flagged |-> current, read |-> 0,
             pid |-> CHOOSE p \in current : TRUE, mods |-> ModSet,
             on |-> on[CHOOSE p \in current : TRUE]]
  /\ knob = [mods |-> page.on, overview |-> OverviewSwitches(page)]
  /\ dialog = None
  /\ loads = [i \in Clicks |-> [at |-> "idle", snap |-> NoSnapshot]]
  /\ chan = << >> /\ clicks = 0 /\ newest = 0 /\ failed = FALSE

(***************************************************************************)
(* Handlers.                                                               *)
(***************************************************************************)

\* The dialogs are modal: a click on a page needs them closed.
MayClick == clicks < MaxClicks /\ dialog = None

\* One handler has run: it publishes (the worker's subscription reads the
\* tables there and then, if it can) or not, and refresh() starts a reload.
Refreshed(published) ==
  /\ clicks' = clicks + 1
  /\ \/ published /\ chan' = Append(chan, Fresh(clicks + 1))
     \/ UNCHANGED chan
  /\ loads' = [loads EXCEPT ![clicks + 1].at = "list"]
  /\ UNCHANGED <<newest, failed>>

\* One handler has failed: a line in the log, and nothing is refreshed.
Logged ==
  /\ clicks' = clicks + 1
  /\ failed' = TRUE
  /\ UNCHANGED <<reloads, newest>>

\* Mutant of Owner: the profile that is active by now.
OwnerNow == CHOOSE p \in current : TRUE

\* The profile a switch writes to: the row captured it.
Owner == page.pid

\* set_mod_enabled, which may find no row.
SetModEnabled(p, m, b) ==
  /\ on' = IF m \in lists[p] THEN [on EXCEPT ![p] = IF b THEN @ \cup {m} ELSE @ \ {m}] ELSE on
  /\ UNCHANGED <<rows, given, current, lists>>

\* GTK moves the switch whatever the handler met.
Moved(w, m, b) == knob' = [knob EXCEPT ![w] = IF b THEN @ \cup {m} ELSE @ \ {m}]

\* A switch of the mods page publishes ModEnabled or ModDisabled.
FlipModRow(m) ==
  /\ MayClick /\ m \in page.mods
  /\ Moved("mods", m, m \notin knob.mods)
  /\ SetModEnabled(Owner, m, m \notin knob.mods) /\ Refreshed(TRUE)
  /\ UNCHANGED <<page, dialog>>

\* Mutant of FlipOverviewRow: the overview does not refresh.
FlipOverviewOnly(m) ==
  /\ MayClick /\ m \in Head6(page)
  /\ Moved("overview", m, m \notin knob.overview)
  /\ SetModEnabled(Owner, m, m \notin knob.overview)
  /\ clicks' = clicks + 1
  /\ UNCHANGED <<page, dialog, reloads, newest, failed>>

\* A switch of the overview only refreshes.
FlipOverviewRow(m) ==
  /\ MayClick /\ m \in Head6(page)
  /\ Moved("overview", m, m \notin knob.overview)
  /\ SetModEnabled(Owner, m, m \notin knob.overview) /\ Refreshed(FALSE)
  /\ UNCHANGED <<page, dialog>>

\* set_mod_enabled fails; the switch has moved.
FlipFails(w, m) ==
  /\ MayClick /\ m \in IF w = "mods" THEN page.mods ELSE Head6(page)
  /\ Moved(w, m, m \notin knob[w])
  /\ Logged
  /\ UNCHANGED <<tables, page, dialog>>

\* set_active_profile: a profile that is gone is NotFound.
SetActiveProfile(p) ==
  /\ p \in rows
  /\ current' = {p}
  /\ UNCHANGED <<rows, given, lists, on>>

\* The Activate button of the profiles page publishes ProfileChanged.
ActivateRow(p) ==
  /\ MayClick /\ p \in Listed(page) /\ "activate" \in Offers(p)
  /\ SetActiveProfile(p) /\ Refreshed(TRUE)
  /\ UNCHANGED widgets

\* A row of the overview's switcher, the active one included, does not.
SwitchRow(p) ==
  /\ MayClick /\ p \in Listed(page)
  /\ SetActiveProfile(p) /\ Refreshed(FALSE)
  /\ UNCHANGED widgets

\* Either one for a profile that is gone, or with the database out of reach.
ActivateFails(p) ==
  /\ MayClick /\ p \in Listed(page)
  /\ Logged
  /\ UNCHANGED <<tables, widgets>>

\* New, Clone and Delete ask first; the answer comes to the ids they captured.
OpenNew ==
  /\ MayClick
  /\ dialog' = [asks |-> "create", pid |-> None]
  /\ UNCHANGED <<tables, page, knob, reloads, clicks, newest, failed>>

OpenOn(p) ==
  /\ MayClick /\ p \in Listed(page)
  /\ \E a \in Offers(p) \ {"activate"} : dialog' = [asks |-> a, pid |-> p]
  /\ UNCHANGED <<tables, page, knob, reloads, clicks, newest, failed>>

Asked(a) == dialog # None /\ dialog.asks = a
Answered == dialog' = None /\ UNCHANGED <<page, knob>>

\* Cancel, Escape, or a name that is empty.
Cancel ==
  /\ dialog # None /\ Answered
  /\ UNCHANGED <<tables, reloads, clicks, newest, failed>>

\* A profile with a name that is not taken, inactive and with these mods.
Insert(n, ms) ==
  /\ n \notin given
  /\ rows' = rows \cup {n} /\ given' = given \cup {n}
  /\ lists' = [lists EXCEPT ![n] = ms]
  /\ on' = [on EXCEPT ![n] = ms]
  /\ UNCHANGED current

CreateProfile ==
  /\ Asked("create") /\ Answered
  /\ \E n \in Ids : Insert(n, {}) /\ Refreshed(FALSE)

\* clone_profile enables every mod it copies.
CloneProfile ==
  /\ Asked("clone") /\ Answered
  /\ dialog.pid \in rows
  /\ \E n \in Ids : Insert(n, lists[dialog.pid]) /\ Refreshed(FALSE)

\* It stops between two rows: the part is kept, and nobody is told.
CloneStops ==
  /\ Asked("clone") /\ Answered
  /\ dialog.pid \in rows
  /\ \E n \in Ids, ms \in SUBSET lists[dialog.pid] : Insert(n, ms)
  /\ Logged

\* delete_profile refuses the active profile, and a row that is gone is no error.
DeleteProfile ==
  /\ Asked("delete") /\ Answered
  /\ dialog.pid \notin current
  /\ rows' = rows \ {dialog.pid}
  /\ lists' = [lists EXCEPT ![dialog.pid] = {}]
  /\ on' = [on EXCEPT ![dialog.pid] = {}]
  /\ UNCHANGED <<given, current>>
  /\ Refreshed(FALSE)

\* A name that is taken, a source that is gone, an active profile, or any error.
AnswerFails ==
  /\ dialog # None /\ Answered
  /\ Logged
  /\ UNCHANGED tables

(***************************************************************************)
(* Reloads and the idle loop.                                              *)
(***************************************************************************)

RestOfReload == UNCHANGED <<tables, widgets, clicks, newest>>

\* load_state reads the profiles, and later the active one with its mods.
ReadRows(i) ==
  /\ loads[i].at = "list"
  /\ loads' = [loads EXCEPT ![i] =
       [at |-> "mods", snap |-> [NoSnapshot EXCEPT !.profiles = rows, !.flagged = current,
                                                   !.read = clicks]]]
  /\ UNCHANGED <<chan, failed>> /\ RestOfReload

ReadActive(i) ==
  /\ loads[i].at = "mods"
  /\ \E p \in current :
       loads' = [loads EXCEPT ![i].at = "send", ![i].snap.pid = p,
                              ![i].snap.mods = lists[p], ![i].snap.on = on[p]]
  /\ UNCHANGED <<chan, failed>> /\ RestOfReload

Send(i) ==
  /\ loads[i].at = "send"
  /\ chan' = Append(chan, loads[i].snap)
  /\ loads' = [loads EXCEPT ![i] = [at |-> "gone", snap |-> NoSnapshot]]
  /\ UNCHANGED failed /\ RestOfReload

ReloadFails(i) ==
  /\ loads[i].at \in {"list", "mods"}
  /\ loads' = [loads EXCEPT ![i] = [at |-> "gone", snap |-> NoSnapshot]]
  /\ failed' = TRUE
  /\ UNCHANGED chan /\ RestOfReload

\* The idle loop shows a snapshot; a dialog stays as it is.
Deliver ==
  /\ chan # << >>
  /\ BuildPages(Head(chan)) /\ chan' = Tail(chan)
  /\ newest' = IF Head(chan).read > newest THEN Head(chan).read ELSE newest
  /\ failed' = (failed /\ Head(chan).read # clicks)
  /\ UNCHANGED <<tables, dialog, loads, clicks>>

Flips ==
  \E m \in ModSet :
    \/ FlipModRow(m) \/ FlipOverviewRow(m) \/ \E w \in DOMAIN knob : FlipFails(w, m)
PagesNext ==
  \/ Flips
  \/ \E p \in Ids : ActivateRow(p) \/ SwitchRow(p) \/ ActivateFails(p) \/ OpenOn(p)
  \/ OpenNew \/ Cancel \/ CreateProfile \/ CloneProfile \/ CloneStops \/ DeleteProfile
  \/ AnswerFails \/ Deliver
  \/ \E i \in Clicks : ReadRows(i) \/ ReadActive(i) \/ Send(i) \/ ReloadFails(i)

(***************************************************************************)
(* Properties.                                                             *)
(***************************************************************************)

\* profile::delete_profile and set_active_profile: no row or dialog, however old,
\* leaves the database without an active profile.
ActiveSurvives == current # {} /\ current \subseteq rows

\* When no reload is under way, nothing has failed since, and the window was not
\* sent back to an older read, every page shows what the database holds, and so
\* does every switch, whichever page it was flipped on.
PagesTell ==
  /\ chan = << >> /\ \A i \in Clicks : loads[i].at \in {"idle", "gone"}
  /\ ~ failed /\ page.read = newest
  => /\ Listed(page) = rows /\ Title(page) = current
     /\ Sidebar(page) = [p \in rows |-> p \in current]
     /\ page.pid \in current
     /\ knob.mods = on[page.pid]
     /\ knob.overview = on[page.pid] \cap Head6(page)

\* A switch never writes to a profile other than the one its page was built for,
\* also when another one has become active since.
ClickHitsShownStep ==
  rows' = rows => \A p \in Ids : on'[p] # on[p] => p = page.pid

\* Old pages neither delete the active profile nor go on showing what is no
\* longer so.
PagesHold == ActiveSurvives /\ PagesTell
=============================================================================
