----------------------------- MODULE EditProofs ------------------------------
(***************************************************************************)
(* Proofs about the parts that edit what others wrote: the pages of the    *)
(* window the rows of the database, GameIni the INI file of a game,        *)
(* WineRegistry the registry of a Wine prefix.  An edit is there when it   *)
(* is read again, and it changes nothing else.  At the end, as in          *)
(* LibraryProofs, what follows for Library.                                *)
(***************************************************************************)
EXTENDS Library, Integers, FiniteSetTheorems, WellFoundedInduction, TLAPS

(***************************************************************************)
(* Pages: handlers with old ids, and what the pages tell when all is read. *)
(***************************************************************************)

PagesSpec == Pg!PagesInit /\ [][Pg!PagesNext]_(Pg!pageVars)

LEMMA ClicksBounded == MaxClicks \in Nat
BY ListsAndNumbers

Snapshots ==
  [profiles : SUBSET Ids, flagged : SUBSET Ids, pid : Ids \cup {None},
   mods : SUBSET Pg!ModSet, on : SUBSET Pg!ModSet, read : Nat]
Reloads == [at : {"idle", "list", "mods", "send", "gone"}, snap : Snapshots]

\* One profile is active, and only profiles have mods.
PageTables ==
  /\ rows \subseteq given /\ given \subseteq Ids
  /\ \E p \in rows : current = {p}
  /\ lists \in [Ids -> SUBSET Pg!ModSet] /\ on \in [Ids -> SUBSET Pg!ModSet]
  /\ \A p \in Ids : on[p] \subseteq lists[p]
  /\ \A p \in Ids \ rows : lists[p] = {}

\* A dialog is open with a click to spare, on a profile there has been.
PageTypes ==
  /\ clicks \in Nat /\ clicks <= MaxClicks
  /\ newest \in Nat /\ newest <= clicks /\ page.read \in Nat /\ page.read <= newest
  /\ failed \in BOOLEAN
  /\ loads \in [Pg!Clicks -> Reloads] /\ chan \in Seq(Snapshots)
  /\ dialog # None => clicks < MaxClicks /\ (dialog.asks # "create" => dialog.pid \in Ids)

\* The snapshot is what the database holds.
Tells(s) ==
  /\ s.profiles = rows /\ s.flagged = current
  /\ s.pid \in current /\ s.mods = lists[s.pid] /\ s.on = on[s.pid]

\* A snapshot read after the last click, also one on its way, tells the truth.
ShownInv ==
  page.read = clicks =>
    /\ Tells(page)
    /\ knob = [mods |-> Pg!UpdateMods(page), overview |-> Pg!OverviewSwitches(page)]
ChanInv ==
  \A i \in 1 .. Len(chan) :
    chan[i].read <= clicks /\ (chan[i].read = clicks => Tells(chan[i]))
LoadsInv ==
  \A i \in Pg!Clicks : loads[i].at \in {"mods", "send"} =>
    /\ loads[i].snap.read <= clicks
    /\ loads[i].snap.read = clicks =>
         /\ loads[i].snap.profiles = rows /\ loads[i].snap.flagged = current
         /\ loads[i].at = "send" => Tells(loads[i].snap)
ReadsInv == ShownInv /\ ChanInv /\ LoadsInv

\* Unless something failed, the read of the last click was shown or is on its way.
ComingInv ==
  \/ failed
  \/ newest = clicks
  \/ \E i \in Pg!Clicks :
       \/ loads[i].at = "list"
       \/ loads[i].at \in {"mods", "send"} /\ loads[i].snap.read = clicks
  \/ \E i \in 1 .. Len(chan) : chan[i].read = clicks

PagesInv == PageTables /\ PageTypes /\ ReadsInv /\ ComingInv

LEMMA NoSnapshotIsOne == Pg!NoSnapshot \in Snapshots
BY DEF Pg!NoSnapshot, Snapshots

LEMMA ChanIsRead ==
  ASSUME PagesInv
  PROVE  \A i \in 1 .. Len(chan) : chan[i].read \in Nat /\ chan[i].read <= clicks
<1>1. \A i \in 1 .. Len(chan) : chan[i] \in Snapshots
  BY DEF PagesInv, PageTypes
<1>. QED
  BY <1>1 DEF PagesInv, ReadsInv, ChanInv, Snapshots

\* What the worker reads there and then is the truth.
LEMMA FreshTells ==
  ASSUME NEW n \in Nat, PageTables', NEW s, s = Pg!Fresh(n)
  PROVE  /\ s \in Snapshots /\ s.read = n
         /\ s.profiles = rows' /\ s.flagged = current' /\ s.pid \in current'
         /\ s.mods = lists'[s.pid] /\ s.on = on'[s.pid]
<1>1. PICK p \in rows' : current' = {p}
  BY DEF PageTables
<1>2. PICK c : c = CHOOSE q \in current' : TRUE
  OBVIOUS
<1>3. c = p
  BY <1>1, <1>2
<1>4. Pg!Fresh(n) = [profiles |-> rows', flagged |-> current', pid |-> p, mods |-> lists'[p],
                     on |-> on'[p], read |-> n]
  BY <1>1, <1>2, <1>3 DEF Pg!Fresh
<1>5. /\ rows' \subseteq Ids /\ p \in Ids /\ lists'[p] \subseteq Pg!ModSet
      /\ on'[p] \subseteq Pg!ModSet
  BY <1>1 DEF PageTables, Pg!ModSet
<1>. QED
  BY <1>1, <1>4, <1>5 DEF Snapshots

\* A click leaves every earlier read behind, and starts one that will be the truth.
LEMMA RefreshedKeeps ==
  ASSUME MaxClicks \in Nat, PagesInv, clicks < MaxClicks, PageTables',
         NEW published, Pg!Refreshed(published), page' = page, dialog' = None
  PROVE  PagesInv'
<1>1. /\ clicks' = clicks + 1 /\ newest' = newest /\ failed' = failed
      /\ loads' = [loads EXCEPT ![clicks + 1].at = "list"]
      /\ chan' = chan \/ chan' = Append(chan, Pg!Fresh(clicks + 1))
  BY DEF Pg!Refreshed
<1>2. PICK s : s = Pg!Fresh(clicks + 1)
  OBVIOUS
<1>3. clicks + 1 \in Pg!Clicks /\ clicks \in Nat
  BY DEF PagesInv, PageTypes, Pg!Clicks
<1>4. s \in Snapshots /\ s.read = clicks + 1
  BY <1>2, <1>3, FreshTells
<1>5. /\ s.profiles = rows' /\ s.flagged = current'
      /\ s.pid \in current' /\ s.mods = lists'[s.pid] /\ s.on = on'[s.pid]
  BY <1>2, <1>3, FreshTells
<1>6. /\ loads' \in [Pg!Clicks -> Reloads]
      /\ loads'[clicks + 1].at = "list"
      /\ \A i \in Pg!Clicks : i # clicks + 1 => loads'[i] = loads[i]
  BY <1>1, <1>3 DEF PagesInv, PageTypes, Reloads
<1>7. /\ chan' \in Seq(Snapshots)
      /\ \A i \in 1 .. Len(chan') :
           chan'[i] = s \/ (i \in 1 .. Len(chan) /\ chan'[i] = chan[i])
  BY <1>1, <1>2, <1>4 DEF PagesInv, PageTypes
<1>8. PageTypes'
  BY <1>1, <1>3, <1>6, <1>7 DEF PagesInv, PageTypes
<1>9. ReadsInv'
  <2>1. page'.read # clicks'
    BY <1>1, <1>3 DEF PagesInv, PageTypes
  <2>2. \A i \in 1 .. Len(chan') :
          chan'[i].read <= clicks' /\ (chan'[i].read = clicks' => chan'[i] = s)
    BY <1>1, <1>3, <1>4, <1>7, ChanIsRead
  <2>3. \A i \in Pg!Clicks : loads'[i].at \in {"mods", "send"} => loads'[i].snap.read < clicks'
    BY <1>1, <1>3, <1>6 DEF PagesInv, PageTypes, ReadsInv, LoadsInv, Reloads, Snapshots
  <2>4. \A i \in Pg!Clicks : loads'[i].at \in {"mods", "send"} =>
          loads'[i].snap.read <= clicks' /\ loads'[i].snap.read # clicks'
    BY <1>1, <1>3, <1>6, <2>3 DEF PagesInv, PageTypes, Reloads, Snapshots
  <2>. QED
    BY <1>5, <2>1, <2>2, <2>4 DEF ReadsInv, ShownInv, ChanInv, LoadsInv, Tells, Pg!Clicks
<1>10. ComingInv'
  BY <1>3, <1>6 DEF ComingInv, Pg!Clicks
<1>. QED
  BY <1>8, <1>9, <1>10 DEF PagesInv

LEMMA LoggedKeeps ==
  ASSUME MaxClicks \in Nat, PagesInv, clicks < MaxClicks, PageTables', Pg!Logged,
         page' = page, dialog' = None
  PROVE  PagesInv'
<1>1. /\ clicks' = clicks + 1 /\ newest' = newest /\ failed' = TRUE
      /\ loads' = loads /\ chan' = chan
  BY DEF Pg!Logged, Pg!reloads
<1>2. PageTypes'
  BY <1>1 DEF PagesInv, PageTypes
<1>3. ReadsInv'
  <2>1. page'.read # clicks'
    BY <1>1 DEF PagesInv, PageTypes
  <2>2. \A i \in 1 .. Len(chan') : chan'[i].read <= clicks' /\ chan'[i].read # clicks'
    BY <1>1, ChanIsRead DEF PagesInv, PageTypes
  <2>3. \A i \in Pg!Clicks : loads'[i].at \in {"mods", "send"} =>
          loads'[i].snap.read <= clicks' /\ loads'[i].snap.read # clicks'
    BY <1>1 DEF PagesInv, PageTypes, ReadsInv, LoadsInv, Reloads, Snapshots
  <2>. QED
    BY <2>1, <2>2, <2>3 DEF ReadsInv, ShownInv, ChanInv, LoadsInv, Pg!Clicks
<1>4. ComingInv'
  BY <1>1 DEF ComingInv
<1>. QED
  BY <1>2, <1>3, <1>4 DEF PagesInv

LEMMA StillShown ==
  ASSUME ShownInv, UNCHANGED <<rows, current, lists, on, page, knob, clicks>>
  PROVE  ShownInv'
BY DEF ShownInv, Tells

LEMMA StillInChan ==
  ASSUME ChanInv, UNCHANGED <<rows, current, lists, on, chan, clicks>>
  PROVE  ChanInv'
BY DEF ChanInv, Tells

\* One reload takes a step, and the others stay as they are.
LEMMA OneLoad ==
  ASSUME LoadsInv, UNCHANGED <<rows, current, lists, on, clicks>>,
         NEW i \in Pg!Clicks, \A j \in Pg!Clicks : j # i => loads'[j] = loads[j],
         loads'[i].at \in {"mods", "send"} =>
           /\ loads'[i].snap.read <= clicks
           /\ loads'[i].snap.read = clicks =>
                /\ loads'[i].snap.profiles = rows /\ loads'[i].snap.flagged = current
                /\ loads'[i].at = "send" => Tells(loads'[i].snap)
  PROVE  LoadsInv'
BY DEF LoadsInv, Tells, Pg!Clicks

\* The reloads and the idle loop: what is read with no click since is the truth.
LEMMA ReadRowsKeeps ==
  ASSUME MaxClicks \in Nat, PagesInv, NEW i \in Pg!Clicks, Pg!ReadRows(i)
  PROVE  PagesInv'
<1>1. /\ UNCHANGED <<rows, given, current, lists, on, page, knob, dialog, clicks, newest>>
      /\ chan' = chan /\ failed' = failed /\ loads[i].at = "list"
  BY DEF Pg!ReadRows, Pg!RestOfReload, Pg!tables, Pg!widgets
<1>2. PICK s : s = [Pg!NoSnapshot EXCEPT !.profiles = rows, !.flagged = current, !.read = clicks]
  OBVIOUS
<1>3. /\ s \in Snapshots /\ s.profiles = rows /\ s.flagged = current /\ s.read = clicks
  BY <1>2, NoSnapshotIsOne DEF PagesInv, PageTables, PageTypes, Snapshots
<1>4. loads' = [loads EXCEPT ![i] = [at |-> "mods", snap |-> s]]
  BY <1>2 DEF Pg!ReadRows
<1>5. /\ loads' \in [Pg!Clicks -> Reloads]
      /\ loads'[i].at = "mods" /\ loads'[i].snap = s
      /\ \A j \in Pg!Clicks : j # i => loads'[j] = loads[j]
  BY <1>3, <1>4 DEF PagesInv, PageTypes, Reloads
<1>6. PageTables' /\ PageTypes'
  BY <1>1, <1>5 DEF PagesInv, PageTables, PageTypes, Pg!ModSet, Pg!Clicks
<1>7. ReadsInv'
  <2>1. loads'[i].snap.read <= clicks
    BY <1>3, <1>5 DEF PagesInv, PageTypes
  <2>2. LoadsInv'
    BY <1>1, <1>3, <1>5, <2>1, OneLoad DEF PagesInv, ReadsInv
  <2>. QED
    BY <1>1, <2>2, StillShown, StillInChan DEF PagesInv, ReadsInv
<1>8. ComingInv'
  BY <1>1, <1>3, <1>5 DEF ComingInv, Pg!Clicks
<1>. QED
  BY <1>6, <1>7, <1>8 DEF PagesInv

LEMMA ReadActiveKeeps ==
  ASSUME MaxClicks \in Nat, PagesInv, NEW i \in Pg!Clicks, Pg!ReadActive(i)
  PROVE  PagesInv'
<1>1. /\ UNCHANGED <<rows, given, current, lists, on, page, knob, dialog, clicks, newest>>
      /\ chan' = chan /\ failed' = failed /\ loads[i].at = "mods"
  BY DEF Pg!ReadActive, Pg!RestOfReload, Pg!tables, Pg!widgets
<1>2. PICK p \in current :
        loads' = [loads EXCEPT ![i].at = "send", ![i].snap.pid = p,
                               ![i].snap.mods = lists[p], ![i].snap.on = on[p]]
  BY DEF Pg!ReadActive
<1>3. /\ p \in Ids /\ lists[p] \in SUBSET Pg!ModSet /\ on[p] \in SUBSET Pg!ModSet
  BY <1>2 DEF PagesInv, PageTables
<1>4. loads[i].snap \in Snapshots
  BY DEF PagesInv, PageTypes, Reloads
<1>5. /\ loads'[i].at = "send" /\ loads'[i].snap.pid = p
      /\ loads'[i].snap.mods = lists[p] /\ loads'[i].snap.on = on[p]
      /\ loads'[i].snap.profiles = loads[i].snap.profiles
      /\ loads'[i].snap.flagged = loads[i].snap.flagged
      /\ loads'[i].snap.read = loads[i].snap.read
  BY <1>2, <1>4 DEF PagesInv, PageTypes, Reloads, Snapshots
<1>6. loads' \in [Pg!Clicks -> Reloads]
  <2>1. PICK k : k = [loads EXCEPT ![i].at = "send"]
    OBVIOUS
  <2>2. PICK l : l = [k EXCEPT ![i].snap.pid = p]
    OBVIOUS
  <2>3. PICK m : m = [l EXCEPT ![i].snap.mods = lists[p]]
    OBVIOUS
  <2>4. loads' = [m EXCEPT ![i].snap.on = on[p]]
    BY <1>2, <2>1, <2>2, <2>3
  <2>5. k \in [Pg!Clicks -> Reloads]
    BY <2>1 DEF PagesInv, PageTypes, Reloads
  <2>6. l \in [Pg!Clicks -> Reloads]
    BY <1>3, <2>2, <2>5 DEF Reloads, Snapshots
  <2>7. m \in [Pg!Clicks -> Reloads]
    BY <1>3, <2>3, <2>6 DEF Reloads, Snapshots
  <2>. QED
    BY <1>3, <2>4, <2>7 DEF Reloads, Snapshots
<1>7. PICK s : s = loads'[i].snap
  OBVIOUS
<1>8. PageTables' /\ PageTypes'
  BY <1>1, <1>6 DEF PagesInv, PageTables, PageTypes, Pg!ModSet, Pg!Clicks
<1>9. ReadsInv'
  <2>1. s.read <= clicks
    BY <1>1, <1>5, <1>7 DEF PagesInv, ReadsInv, LoadsInv
  <2>2. s.read = clicks => Tells(s)
    BY <1>1, <1>2, <1>5, <1>7 DEF PagesInv, ReadsInv, LoadsInv, Tells
  <2>3. s.read = clicks => s.profiles = rows /\ s.flagged = current
    BY <2>2 DEF Tells
  <2>4. \A j \in Pg!Clicks : j # i => loads'[j] = loads[j]
    BY <1>2 DEF PagesInv, PageTypes
  <2>5. LoadsInv'
    BY <1>1, <1>5, <1>7, <2>4, <2>1, <2>2, <2>3, OneLoad DEF PagesInv, ReadsInv
  <2>. QED
    BY <1>1, <2>5, StillShown, StillInChan DEF PagesInv, ReadsInv
<1>10. ComingInv'
  <2>1. \A j \in Pg!Clicks : j # i => loads'[j] = loads[j]
    BY <1>2 DEF PagesInv, PageTypes
  <2>. QED
    BY <1>1, <1>5, <2>1 DEF PagesInv, ComingInv, Pg!Clicks
<1>. QED
  BY <1>8, <1>9, <1>10 DEF PagesInv

LEMMA SendKeeps ==
  ASSUME MaxClicks \in Nat, PagesInv, NEW i \in Pg!Clicks, Pg!Send(i)
  PROVE  PagesInv'
<1>1. /\ UNCHANGED <<rows, given, current, lists, on, page, knob, dialog, clicks, newest>>
      /\ failed' = failed /\ loads[i].at = "send"
      /\ loads' = [loads EXCEPT ![i] = [at |-> "gone", snap |-> Pg!NoSnapshot]]
      /\ chan' = Append(chan, loads[i].snap)
  BY DEF Pg!Send, Pg!RestOfReload, Pg!tables, Pg!widgets
<1>2. PICK s : s = loads[i].snap
  OBVIOUS
<1>3. s \in Snapshots /\ s.read <= clicks /\ (s.read = clicks => Tells(s))
  BY <1>1, <1>2 DEF PagesInv, PageTypes, ReadsInv, LoadsInv, Reloads
<1>4. /\ chan' \in Seq(Snapshots) /\ Len(chan') = Len(chan) + 1 /\ Len(chan) \in Nat
      /\ chan'[Len(chan) + 1] = s
      /\ \A j \in 1 .. Len(chan) : chan'[j] = chan[j]
  BY <1>1, <1>2, <1>3 DEF PagesInv, PageTypes
<1>5. /\ loads' \in [Pg!Clicks -> Reloads] /\ loads'[i].at = "gone"
      /\ \A j \in Pg!Clicks : j # i => loads'[j] = loads[j]
  BY <1>1, NoSnapshotIsOne DEF PagesInv, PageTypes, Reloads
<1>6. PageTables' /\ PageTypes'
  BY <1>1, <1>4, <1>5 DEF PagesInv, PageTables, PageTypes, Pg!ModSet, Pg!Clicks
<1>7. ReadsInv'
  <2>1. \A j \in 1 .. Len(chan') :
          chan'[j].read <= clicks' /\ (chan'[j].read = clicks' => Tells(chan'[j]))
    <3>1. \A j \in 1 .. Len(chan') : chan'[j] = s \/ (j \in 1 .. Len(chan) /\ chan'[j] = chan[j])
      BY <1>4
    <3>. QED
      BY <1>1, <1>3, <3>1 DEF PagesInv, ReadsInv, ChanInv
  <2>2. ChanInv'
    BY <1>1, <2>1 DEF ChanInv, Tells
  <2>3. LoadsInv'
    BY <1>1, <1>5, OneLoad DEF PagesInv, ReadsInv
  <2>. QED
    BY <1>1, <2>2, <2>3, StillShown DEF PagesInv, ReadsInv
<1>8. ComingInv'
  <2>1. Len(chan') = Len(chan) + 1 /\ Len(chan) + 1 \in 1 .. Len(chan')
    BY <1>4
  <2>2. CASE loads[i].snap.read = clicks
    BY <1>1, <1>2, <1>4, <2>1, <2>2 DEF ComingInv
  <2>3. CASE loads[i].snap.read # clicks
    <3>1. \A j \in Pg!Clicks :
            \/ loads[j].at = "list"
            \/ loads[j].at \in {"mods", "send"} /\ loads[j].snap.read = clicks
            => j # i
      BY <1>1, <2>3
    <3>2. \A j \in 1 .. Len(chan) : j \in 1 .. Len(chan')
      BY <1>4
    <3>. QED
      BY <1>1, <1>4, <1>5, <3>1, <3>2 DEF PagesInv, ComingInv, Pg!Clicks
  <2>. QED
    BY <2>2, <2>3
<1>. QED
  BY <1>6, <1>7, <1>8 DEF PagesInv

LEMMA ReloadFailsKeeps ==
  ASSUME MaxClicks \in Nat, PagesInv, NEW i \in Pg!Clicks, Pg!ReloadFails(i)
  PROVE  PagesInv'
<1>1. /\ UNCHANGED <<rows, given, current, lists, on, page, knob, dialog, clicks, newest>>
      /\ failed' = TRUE /\ chan' = chan
      /\ loads' = [loads EXCEPT ![i] = [at |-> "gone", snap |-> Pg!NoSnapshot]]
  BY DEF Pg!ReloadFails, Pg!RestOfReload, Pg!tables, Pg!widgets
<1>2. /\ loads' \in [Pg!Clicks -> Reloads] /\ loads'[i].at = "gone"
      /\ \A j \in Pg!Clicks : j # i => loads'[j] = loads[j]
  BY <1>1, NoSnapshotIsOne DEF PagesInv, PageTypes, Reloads
<1>3. PageTables' /\ PageTypes'
  BY <1>1, <1>2 DEF PagesInv, PageTables, PageTypes, Pg!ModSet, Pg!Clicks
<1>4. ReadsInv'
  <2>1. LoadsInv'
    BY <1>1, <1>2, OneLoad DEF PagesInv, ReadsInv
  <2>. QED
    BY <1>1, <2>1, StillShown, StillInChan DEF PagesInv, ReadsInv
<1>5. ComingInv'
  BY <1>1 DEF ComingInv
<1>. QED
  BY <1>3, <1>4, <1>5 DEF PagesInv

LEMMA DeliverKeeps ==
  ASSUME MaxClicks \in Nat, PagesInv, Pg!Deliver
  PROVE  PagesInv'
<1>1. PICK s : s = Head(chan)
  OBVIOUS
<1>2. /\ UNCHANGED <<rows, given, current, lists, on, dialog, loads, clicks>>
      /\ chan # << >> /\ chan' = Tail(chan) /\ page' = s
      /\ knob' = [mods |-> Pg!UpdateMods(s), overview |-> Pg!OverviewSwitches(s)]
      /\ newest' = IF s.read > newest THEN s.read ELSE newest
      /\ failed' = (failed /\ s.read # clicks)
  BY <1>1 DEF Pg!Deliver, Pg!BuildPages, Pg!tables
<1>3. /\ chan \in Seq(Snapshots) /\ Len(chan) \in Nat /\ Len(chan) >= 1 /\ chan[1] = s
      /\ chan' \in Seq(Snapshots) /\ Len(chan') = Len(chan) - 1
      /\ \A j \in 1 .. Len(chan') : j + 1 \in 1 .. Len(chan) /\ chan'[j] = chan[j + 1]
  BY <1>1, <1>2 DEF PagesInv, PageTypes
<1>4. s \in Snapshots /\ s.read \in Nat /\ s.read <= clicks /\ (s.read = clicks => Tells(s))
  <2>1. s \in Snapshots
    BY <1>3
  <2>2. s.read <= clicks /\ (s.read = clicks => Tells(s))
    BY <1>3 DEF PagesInv, ReadsInv, ChanInv
  <2>. QED
    BY <2>1, <2>2 DEF Snapshots
<1>5. PageTables' /\ PageTypes'
  BY <1>2, <1>3, <1>4 DEF PagesInv, PageTables, PageTypes, Pg!ModSet, Pg!Clicks
<1>6. ReadsInv'
  <2>1. \A j \in 1 .. Len(chan') :
          chan'[j].read <= clicks' /\ (chan'[j].read = clicks' => Tells(chan'[j]))
    BY <1>2, <1>3 DEF PagesInv, ReadsInv, ChanInv
  <2>2. ChanInv'
    BY <1>2, <2>1 DEF ChanInv, Tells
  <2>3. LoadsInv'
    BY <1>2 DEF PagesInv, ReadsInv, LoadsInv, Tells, Pg!Clicks
  <2>4. ShownInv'
    BY <1>2, <1>4 DEF ShownInv, Tells
  <2>. QED
    BY <2>2, <2>3, <2>4 DEF ReadsInv
<1>7. ComingInv'
  <2>1. CASE s.read = clicks
    BY <1>2, <1>4, <2>1 DEF PagesInv, PageTypes, ComingInv
  <2>2. CASE s.read # clicks
    <3>1. newest = clicks => newest' = clicks
      BY <1>2, <1>4 DEF PagesInv, PageTypes
    <3>2. \A j \in 1 .. Len(chan) : chan[j].read = clicks =>
            j - 1 \in 1 .. Len(chan') /\ chan'[j - 1] = chan[j]
      BY <1>3, <2>2
    <3>. QED
      BY <1>2, <2>2, <3>1, <3>2 DEF PagesInv, PageTypes, ComingInv, Pg!Clicks
  <2>. QED
    BY <2>1, <2>2
<1>. QED
  BY <1>5, <1>6, <1>7 DEF PagesInv

\* What the handlers do to the tables.
LEMMA SetModEnabledKeeps ==
  ASSUME PagesInv, NEW p, NEW m, NEW b, Pg!SetModEnabled(p, m, b)
  PROVE  PageTables'
<1>1. /\ UNCHANGED <<rows, given, current, lists>>
      /\ \/ on' = on
         \/ m \in lists[p] /\ on' = [on EXCEPT ![p] = IF b THEN @ \cup {m} ELSE @ \ {m}]
  BY DEF Pg!SetModEnabled
<1>2. on' \in [Ids -> SUBSET Pg!ModSet] /\ \A q \in Ids : on'[q] \subseteq lists[q]
  <2>1. CASE on' = on
    BY <2>1 DEF PagesInv, PageTables
  <2>2. CASE m \in lists[p] /\ on' = [on EXCEPT ![p] = IF b THEN @ \cup {m} ELSE @ \ {m}]
    BY <2>2 DEF PagesInv, PageTables
  <2>. QED
    BY <1>1, <2>1, <2>2
<1>. QED
  BY <1>1, <1>2 DEF PagesInv, PageTables, Pg!ModSet

LEMMA SetActiveKeeps ==
  ASSUME PagesInv, NEW p, Pg!SetActiveProfile(p)
  PROVE  PageTables'
BY DEF PagesInv, PageTables, Pg!SetActiveProfile, Pg!ModSet

LEMMA InsertKeeps ==
  ASSUME PagesInv, NEW n \in Ids, NEW ms \in SUBSET Pg!ModSet, Pg!Insert(n, ms)
  PROVE  PageTables'
<1>1. /\ rows' = rows \cup {n} /\ given' = given \cup {n} /\ current' = current
      /\ lists' = [lists EXCEPT ![n] = ms] /\ on' = [on EXCEPT ![n] = ms]
  BY DEF Pg!Insert
<1>2. /\ lists' \in [Ids -> SUBSET Pg!ModSet] /\ on' \in [Ids -> SUBSET Pg!ModSet]
      /\ \A p \in Ids : on'[p] \subseteq lists'[p]
      /\ \A p \in Ids : p # n => lists'[p] = lists[p]
  BY <1>1 DEF PagesInv, PageTables
<1>. QED
  BY <1>1, <1>2 DEF PagesInv, PageTables, Pg!ModSet

LEMMA DeleteKeeps ==
  ASSUME PagesInv, Pg!DeleteProfile
  PROVE  PageTables'
<1>1. /\ rows' = rows \ {dialog.pid} /\ given' = given /\ current' = current
      /\ lists' = [lists EXCEPT ![dialog.pid] = {}] /\ on' = [on EXCEPT ![dialog.pid] = {}]
      /\ dialog.pid \notin current
  BY DEF Pg!DeleteProfile
<1>2. PICK d : d = dialog.pid
  OBVIOUS
<1>3. /\ lists' \in [Ids -> SUBSET Pg!ModSet] /\ on' \in [Ids -> SUBSET Pg!ModSet]
      /\ \A p \in Ids : lists'[p] = IF p = d THEN {} ELSE lists[p]
      /\ \A p \in Ids : on'[p] = IF p = d THEN {} ELSE on[p]
  BY <1>1, <1>2 DEF PagesInv, PageTables
<1>. QED
  BY <1>1, <1>2, <1>3 DEF PagesInv, PageTables, Pg!ModSet

\* A handler that writes, fails, or only opens or closes a dialog.
LEMMA HandlerKeeps ==
  ASSUME MaxClicks \in Nat, PagesInv,
         \/ Pg!Flips
         \/ \E p \in Ids : Pg!ActivateRow(p) \/ Pg!SwitchRow(p) \/ Pg!ActivateFails(p)
         \/ Pg!CreateProfile \/ Pg!CloneProfile \/ Pg!CloneStops \/ Pg!DeleteProfile
         \/ Pg!AnswerFails
  PROVE  PagesInv'
<1>1. CASE Pg!Flips
  <2>1. PICK m \in Pg!ModSet :
          Pg!FlipModRow(m) \/ Pg!FlipOverviewRow(m) \/ \E w \in DOMAIN knob : Pg!FlipFails(w, m)
    BY <1>1 DEF Pg!Flips
  <2>2. CASE Pg!FlipModRow(m) \/ Pg!FlipOverviewRow(m)
    <3>1. PICK b, u : Pg!SetModEnabled(Pg!Owner, m, b) /\ Pg!Refreshed(u)
      BY <2>2 DEF Pg!FlipModRow, Pg!FlipOverviewRow
    <3>2. clicks < MaxClicks /\ page' = page /\ dialog' = None
      BY <2>2 DEF Pg!FlipModRow, Pg!FlipOverviewRow, Pg!MayClick
    <3>. QED
      BY <3>1, <3>2, SetModEnabledKeeps, RefreshedKeeps
  <2>3. CASE \E w \in DOMAIN knob : Pg!FlipFails(w, m)
    <3>1. /\ Pg!Logged /\ UNCHANGED Pg!tables /\ page' = page /\ dialog' = None
          /\ clicks < MaxClicks
      BY <2>3 DEF Pg!FlipFails, Pg!MayClick
    <3>2. PageTables'
      BY <3>1 DEF PagesInv, PageTables, Pg!tables, Pg!ModSet
    <3>. QED
      BY <3>1, <3>2, LoggedKeeps
  <2>. QED
    BY <2>1, <2>2, <2>3
<1>2. ASSUME NEW p \in Ids, Pg!ActivateRow(p) \/ Pg!SwitchRow(p)
      PROVE  PagesInv'
  <2>1. PICK u : Pg!SetActiveProfile(p) /\ Pg!Refreshed(u)
    BY <1>2 DEF Pg!ActivateRow, Pg!SwitchRow
  <2>2. clicks < MaxClicks /\ page' = page /\ dialog' = None
    BY <1>2 DEF Pg!ActivateRow, Pg!SwitchRow, Pg!MayClick, Pg!widgets
  <2>. QED
    BY <2>1, <2>2, SetActiveKeeps, RefreshedKeeps
<1>3. ASSUME NEW p \in Ids, Pg!ActivateFails(p)
      PROVE  PagesInv'
  <2>1. /\ Pg!Logged /\ UNCHANGED Pg!tables /\ page' = page /\ dialog' = None
        /\ clicks < MaxClicks
    BY <1>3 DEF Pg!ActivateFails, Pg!MayClick, Pg!widgets
  <2>2. PageTables'
    BY <2>1 DEF PagesInv, PageTables, Pg!tables, Pg!ModSet
  <2>. QED
    BY <2>1, <2>2, LoggedKeeps
<1>4. CASE Pg!CreateProfile
  <2>1. /\ clicks < MaxClicks /\ page' = page /\ dialog' = None
    BY <1>4 DEF Pg!CreateProfile, Pg!Asked, Pg!Answered, PagesInv, PageTypes
  <2>2. PICK n \in Ids : Pg!Insert(n, {}) /\ Pg!Refreshed(FALSE)
    BY <1>4 DEF Pg!CreateProfile
  <2>. QED
    BY <2>1, <2>2, InsertKeeps, RefreshedKeeps
<1>5. CASE Pg!CloneProfile
  <2>1. /\ clicks < MaxClicks /\ page' = page /\ dialog' = None /\ dialog.pid \in rows
    BY <1>5 DEF Pg!CloneProfile, Pg!Asked, Pg!Answered, PagesInv, PageTypes
  <2>2. PICK n \in Ids : Pg!Insert(n, lists[dialog.pid]) /\ Pg!Refreshed(FALSE)
    BY <1>5 DEF Pg!CloneProfile
  <2>3. lists[dialog.pid] \in SUBSET Pg!ModSet
    BY <2>1 DEF PagesInv, PageTables
  <2>. QED
    BY <2>1, <2>2, <2>3, InsertKeeps, RefreshedKeeps
<1>6. CASE Pg!CloneStops
  <2>1. /\ clicks < MaxClicks /\ page' = page /\ dialog' = None /\ dialog.pid \in rows
        /\ Pg!Logged
    BY <1>6 DEF Pg!CloneStops, Pg!Asked, Pg!Answered, PagesInv, PageTypes
  <2>2. PICK n \in Ids, ms \in SUBSET lists[dialog.pid] : Pg!Insert(n, ms)
    BY <1>6 DEF Pg!CloneStops
  <2>3. ms \in SUBSET Pg!ModSet
    BY <2>1, <2>2 DEF PagesInv, PageTables
  <2>. QED
    BY <2>1, <2>2, <2>3, InsertKeeps, LoggedKeeps
<1>7. CASE Pg!DeleteProfile
  <2>1. /\ clicks < MaxClicks /\ page' = page /\ dialog' = None /\ Pg!Refreshed(FALSE)
    BY <1>7 DEF Pg!DeleteProfile, Pg!Asked, Pg!Answered, PagesInv, PageTypes
  <2>. QED
    BY <1>7, <2>1, DeleteKeeps, RefreshedKeeps
<1>8. CASE Pg!AnswerFails
  <2>1. /\ clicks < MaxClicks /\ page' = page /\ dialog' = None /\ Pg!Logged
        /\ UNCHANGED Pg!tables
    BY <1>8 DEF Pg!AnswerFails, Pg!Answered, PagesInv, PageTypes
  <2>2. PageTables'
    BY <2>1 DEF PagesInv, PageTables, Pg!tables, Pg!ModSet
  <2>. QED
    BY <2>1, <2>2, LoggedKeeps
<1>. QED
  BY <1>1, <1>2, <1>3, <1>4, <1>5, <1>6, <1>7, <1>8

\* A dialog opens or closes, or nothing happens.
LEMMA DialogKeeps ==
  ASSUME MaxClicks \in Nat, PagesInv,
         \/ Pg!OpenNew \/ Pg!Cancel \/ UNCHANGED Pg!pageVars
         \/ \E p \in Ids : Pg!OpenOn(p)
  PROVE  PagesInv'
<1>1. UNCHANGED <<rows, given, current, lists, on, page, knob, loads, chan, clicks, newest,
                  failed>>
  BY DEF Pg!OpenNew, Pg!Cancel, Pg!OpenOn, Pg!Answered, Pg!pageVars, Pg!tables, Pg!widgets,
     Pg!reloads
<1>2. dialog' # None => clicks < MaxClicks /\ (dialog'.asks # "create" => dialog'.pid \in Ids)
  BY DEF Pg!OpenNew, Pg!Cancel, Pg!OpenOn, Pg!Answered, Pg!pageVars, Pg!widgets, Pg!MayClick,
     PagesInv, PageTypes
<1>3. PageTables' /\ PageTypes'
  BY <1>1, <1>2 DEF PagesInv, PageTables, PageTypes, Pg!ModSet, Pg!Clicks
<1>4. LoadsInv'
  BY <1>1 DEF PagesInv, ReadsInv, LoadsInv, Tells, Pg!Clicks
<1>5. ReadsInv'
  BY <1>1, <1>4, StillShown, StillInChan DEF PagesInv, ReadsInv
<1>6. ComingInv'
  BY <1>1 DEF PagesInv, ComingInv, Pg!Clicks
<1>. QED
  BY <1>3, <1>5, <1>6 DEF PagesInv

LEMMA PagesInitially ==
  ASSUME MaxClicks \in Nat, Pg!PagesInit
  PROVE  PagesInv
<1>1. PICK p, q \in Ids : p # q /\ rows = {p, q} /\ current = {p}
  BY DEF Pg!PagesInit
<1>2. /\ given = rows /\ lists = [r \in Ids |-> IF r \in rows THEN Pg!ModSet ELSE {}]
      /\ on \in [Ids -> SUBSET Pg!ModSet] /\ \A r \in Ids : on[r] \subseteq lists[r]
  BY DEF Pg!PagesInit
<1>3. PageTables
  BY <1>1, <1>2 DEF PageTables
<1>4. (CHOOSE r \in current : TRUE) = p
  BY <1>1
<1>5. /\ page = [profiles |-> rows, flagged |-> current, read |-> 0, pid |-> p,
                 mods |-> Pg!ModSet, on |-> on[p]]
      /\ knob = [mods |-> page.on, overview |-> Pg!OverviewSwitches(page)]
  BY <1>4 DEF Pg!PagesInit
<1>6. /\ dialog = None /\ clicks = 0 /\ newest = 0 /\ failed = FALSE /\ chan = << >>
      /\ loads = [i \in Pg!Clicks |-> [at |-> "idle", snap |-> Pg!NoSnapshot]]
  BY DEF Pg!PagesInit
<1>7. loads \in [Pg!Clicks -> Reloads] /\ \A i \in Pg!Clicks : loads[i].at = "idle"
  BY <1>6, NoSnapshotIsOne DEF Reloads
<1>8. PageTypes
  <2>1. chan \in Seq(Snapshots) /\ page.read = 0
    BY <1>5, <1>6
  <2>2. /\ clicks \in Nat /\ clicks <= MaxClicks
        /\ newest \in Nat /\ newest <= clicks /\ page.read \in Nat /\ page.read <= newest
    BY <1>6, <2>1
  <2>3. failed \in BOOLEAN /\ dialog = None
    BY <1>6
  <2>. QED
    BY <1>7, <2>1, <2>2, <2>3 DEF PageTypes
<1>9. ShownInv
  <2>1. Tells(page)
    BY <1>1, <1>2, <1>5 DEF Tells
  <2>2. Pg!UpdateMods(page) = page.on
    BY <1>1, <1>2, <1>5 DEF Pg!UpdateMods, Pg!ModRows
  <2>. QED
    BY <1>5, <2>1, <2>2 DEF ShownInv
<1>10. ChanInv /\ LoadsInv /\ ComingInv
  BY <1>6, <1>7 DEF ChanInv, LoadsInv, ComingInv
<1>. QED
  BY <1>3, <1>8, <1>9, <1>10 DEF PagesInv, ReadsInv

LEMMA PagesStep ==
  ASSUME MaxClicks \in Nat, PagesInv, [Pg!PagesNext]_(Pg!pageVars)
  PROVE  PagesInv'
BY HandlerKeeps, DialogKeeps, ReadRowsKeeps, ReadActiveKeeps, SendKeeps, ReloadFailsKeeps,
   DeliverKeeps DEF Pg!PagesNext

\* The overview, mods and profiles pages, for any profiles, mods and number of
\* clicks: one profile stays active, and once the last read is shown every page says
\* what the database holds.
THEOREM PagesAreTrue == PagesSpec => []Pg!PagesHold
<1>. USE ClicksBounded
<1>1. Pg!PagesInit => PagesInv
  BY PagesInitially
<1>2. PagesInv /\ [Pg!PagesNext]_(Pg!pageVars) => PagesInv'
  BY PagesStep
<1>3. PagesInv => Pg!PagesHold
  <2>1. SUFFICES ASSUME PagesInv PROVE Pg!PagesHold
    OBVIOUS
  <2>2. Pg!ActiveSurvives
    BY <2>1 DEF PagesInv, PageTables, Pg!ActiveSurvives
  <2>3. Pg!PagesTell
    <3>1. SUFFICES ASSUME chan = << >>, \A i \in Pg!Clicks : loads[i].at \in {"idle", "gone"},
                          ~ failed, page.read = newest
                   PROVE  /\ Pg!Listed(page) = rows /\ Pg!Title(page) = current
                          /\ Pg!Sidebar(page) = [p \in rows |-> p \in current]
                          /\ page.pid \in current
                          /\ knob.mods = on[page.pid]
                          /\ knob.overview = on[page.pid] \cap Pg!Head6(page)
      BY DEF Pg!PagesTell
    <3>2. Len(chan) = 0
      BY <3>1
    <3>3. page.read = clicks
      BY <2>1, <3>1, <3>2 DEF PagesInv, ComingInv
    <3>4. /\ Tells(page) /\ knob.mods = Pg!UpdateMods(page)
          /\ knob.overview = Pg!OverviewSwitches(page)
      BY <2>1, <3>3 DEF PagesInv, ReadsInv, ShownInv
    <3>5. page.pid \in Ids /\ page.on \subseteq page.mods /\ current # {}
      BY <2>1, <3>4 DEF PagesInv, PageTables, Tells
    <3>6. Pg!UpdateMods(page) = page.on
      BY <3>5 DEF Pg!UpdateMods, Pg!ModRows
    <3>. QED
      BY <3>4, <3>5, <3>6 DEF Tells, Pg!Listed, Pg!Title, Pg!Sidebar, Pg!OverviewSwitches
  <2>. QED
    BY <2>2, <2>3 DEF Pg!PagesHold
<1>. QED
  BY <1>1, <1>2, <1>3, PTL DEF PagesSpec

\* set_mod_enabled from the mods and overview pages: while no profile comes or goes,
\* what a switch changes is the profile its page was built for, also when another
\* one has become active since.
THEOREM ClicksHitShown == PagesSpec => [][Pg!ClickHitsShownStep]_(Pg!pageVars)
<1>. USE ClicksBounded
<1>1. Pg!PagesInit => PagesInv
  BY PagesInitially
<1>2. PagesInv /\ [Pg!PagesNext]_(Pg!pageVars) => PagesInv'
  BY PagesStep
<1>3. PagesInv /\ [Pg!PagesNext]_(Pg!pageVars) => [Pg!ClickHitsShownStep]_(Pg!pageVars)
  <2>1. SUFFICES ASSUME PagesInv, Pg!PagesNext, rows' = rows,
                        NEW p \in Ids, on'[p] # on[p]
                 PROVE  p = page.pid
    BY DEF Pg!ClickHitsShownStep
  <2>2. CASE Pg!Flips
    <3>1. PICK m \in Pg!ModSet : \/ \E b : Pg!SetModEnabled(page.pid, m, b)
                                 \/ UNCHANGED Pg!tables
      BY <2>2 DEF Pg!Flips, Pg!FlipModRow, Pg!FlipOverviewRow, Pg!FlipFails, Pg!Owner
    <3>. QED
      BY <2>1, <3>1 DEF PagesInv, PageTables, Pg!SetModEnabled, Pg!tables
  <2>3. ASSUME NEW n \in Ids, NEW ms, Pg!Insert(n, ms)
        PROVE  FALSE
    BY <2>1, <2>3 DEF PagesInv, PageTables, Pg!Insert
  <2>4. CASE Pg!DeleteProfile
    <3>1. PICK d : d = dialog.pid
      OBVIOUS
    <3>2. rows' = rows \ {d} /\ on' = [on EXCEPT ![d] = {}]
      BY <2>4, <3>1 DEF Pg!DeleteProfile
    <3>3. d \notin rows
      BY <2>1, <3>2
    <3>4. p = d /\ on[p] = {} /\ on'[p] = {}
      BY <2>1, <3>2, <3>3 DEF PagesInv, PageTables
    <3>. QED
      BY <2>1, <3>4
  <2>5. CASE on' = on
    BY <2>1, <2>5
  <2>. QED
    BY <2>1, <2>2, <2>3, <2>4, <2>5 DEF Pg!PagesNext, Pg!ActivateRow, Pg!SwitchRow,
       Pg!ActivateFails, Pg!OpenOn, Pg!OpenNew, Pg!Cancel, Pg!CreateProfile, Pg!CloneProfile,
       Pg!CloneStops, Pg!AnswerFails, Pg!Deliver, Pg!ReadRows, Pg!ReadActive, Pg!Send,
       Pg!ReloadFails, Pg!RestOfReload, Pg!tables, Pg!SetActiveProfile
<1>. QED
  BY <1>1, <1>2, <1>3, PTL DEF PagesSpec

\* A set of positions has a first one.
LEMMA FirstPosition ==
  ASSUME NEW K, K \subseteq Nat, K # {}
  PROVE  \E k \in K : \A j \in K : k <= j
<1>1. PICK k \in K : \A j \in K : ~(<<j, k>> \in OpToRel(<, Nat))
  BY NatLessThanWellFounded, WFMin
<1>2. \A j \in K : k <= j
  <2>1. TAKE j \in K
  <2>2. ~(j < k)
    BY <1>1, <2>1 DEF OpToRel
  <2>. QED
    BY <2>2
<1>. QED
  BY <1>2

(***************************************************************************)
(* GameIni: the lines and the index of a document.                         *)
(***************************************************************************)

IniSpec == Ini!IniInit /\ [][Ini!IniNext]_(Ini!iniVars)

\* A list, as the code's Vec: positions from 1 on.
IsList(t) == \E U : t \in Seq(U)

LEMMA ListIs ==
  ASSUME NEW n \in Nat, NEW t, t = [i \in 1 .. n |-> t[i]]
  PROVE  IsList(t)
<1>1. PICK U : U = {t[i] : i \in 1 .. n}
  OBVIOUS
<1>2. \A i \in 1 .. n : t[i] \in U
  BY <1>1
<1>3. t \in Seq(U)
  BY <1>2
<1>. QED
  BY <1>3 DEF IsList

\* Every line with a key knows its section.
WellFiled(t) ==
  \A i \in Ini!KeyLines(t) :
    /\ DOMAIN t[i] = {"kind", "name", "value", "in"}
    /\ t[i].in = Ini!SectionAt(t, i)

KeysOnce(t) ==
  \A i, j \in Ini!KeyLines(t) : Ini!Place(t, i) = Ini!Place(t, j) => i = j

\* The index has the keys of the lines and, unless a key is there twice, their values.
Indexed(t, x) ==
  /\ x = [p \in {Ini!Place(t, i) : i \in Ini!KeyLines(t)} |-> x[p]]
  /\ KeysOnce(t) => \A i \in Ini!KeyLines(t) : x[Ini!Place(t, i)] = t[i].value

IniInv ==
  /\ IsList(text) /\ loaded \in BOOLEAN
  /\ loaded => IsList(lines) /\ WellFiled(lines) /\ Indexed(lines, index)

\* A set of positions that is not empty has a last one.
LEMMA LastPosition ==
  ASSUME NEW n \in Nat, NEW S \in SUBSET (1 .. n), S # {}
  PROVE  /\ Ini!Max(S) \in S
         /\ \A x \in S : x <= Ini!Max(S)
<1>1. PICK K : K = {n - y : y \in S}
  OBVIOUS
<1>2. K \subseteq Nat /\ K # {}
  <2>1. \A y \in S : n - y \in Nat
    OBVIOUS
  <2>. QED
    BY <1>1, <2>1
<1>3. PICK k \in K : \A j \in K : k <= j
  BY <1>2, FirstPosition
<1>4. PICK x \in S : k = n - x
  BY <1>1
<1>5. \A y \in S : x >= y
  <2>1. TAKE y \in S
  <2>2. k <= n - y
    BY <1>1, <1>3
  <2>3. x \in Int /\ y \in Int
    OBVIOUS
  <2>. QED
    BY <1>4, <2>2, <2>3
<1>6. Ini!Max(S) \in S /\ \A y \in S : Ini!Max(S) >= y
  BY <1>5 DEF Ini!Max
<1>. QED
  BY <1>6

LEMMA FirstIs ==
  ASSUME NEW S, S \subseteq Nat, S # {}
  PROVE  Ini!Min(S) \in S /\ \A x \in S : Ini!Min(S) <= x
BY FirstPosition DEF Ini!Min

\* The largest position is known by being one and by being no smaller than any.
LEMMA LastIs ==
  ASSUME NEW n \in Nat, NEW S \in SUBSET (1 .. n), NEW x \in S, \A y \in S : y <= x
  PROVE  Ini!Max(S) = x
<1>1. Ini!Max(S) \in S /\ x <= Ini!Max(S) /\ Ini!Max(S) <= x
  BY LastPosition
<1>2. PICK m : m = Ini!Max(S)
  OBVIOUS
<1>3. \A y \in S : y \in Nat
  OBVIOUS
<1>4. m \in S /\ x <= m /\ m <= x
  BY <1>1, <1>2
<1>5. m \in Nat /\ x \in Nat
  BY <1>3, <1>4
<1>6. m = x
  BY <1>4, <1>5
<1>. QED
  BY <1>2, <1>6

\* The lines of old are in new, in their order.
Spread(go, m, n) ==
  /\ m \in Nat /\ n \in Nat /\ go \in [1 .. m -> 1 .. n]
  /\ \A i, j \in 1 .. m : i < j => go[i] < go[j]

\* The headers up to a line are those that were there.
SameHeads(old, new, go, i) ==
  /\ \A j \in 1 .. i : old[j].kind = "section" =>
       new[go[j]].kind = "section" /\ new[go[j]].name = old[j].name
  /\ \A k \in 1 .. go[i] : new[k].kind = "section" =>
       \E j \in 1 .. i : k = go[j] /\ old[j].kind = "section"

\* Lines that move apart without overtaking each other stay in their sections, as long
\* as no header comes between.
LEMMA SectionsMove ==
  ASSUME NEW old, NEW new, NEW m \in Nat, NEW n \in Nat,
         DOMAIN old = 1 .. m, DOMAIN new = 1 .. n, NEW go, Spread(go, m, n),
         NEW i \in 1 .. m, SameHeads(old, new, go, i)
  PROVE  Ini!SectionAt(new, go[i]) = Ini!SectionAt(old, i)
<1>. USE DEF Spread, SameHeads
<1>1. PICK H : H = Ini!HeadersTo(old, i)
  OBVIOUS
<1>2. PICK G : G = Ini!HeadersTo(new, go[i])
  OBVIOUS
<1>3. H \in SUBSET (1 .. m) /\ G \in SUBSET (1 .. n)
  BY <1>1, <1>2 DEF Ini!HeadersTo
<1>4. \A j \in H : go[j] \in G
  <2>1. TAKE j \in H
  <2>2. j \in 1 .. i /\ j \in 1 .. m /\ old[j].kind = "section"
    BY <1>1 DEF Ini!HeadersTo
  <2>3. go[j] <= go[i] /\ go[j] \in 1 .. n /\ go[i] \in 1 .. n
    <3>1. CASE j = i
      BY <3>1
    <3>2. CASE j # i
      <4>1. j < i
        BY <2>2, <3>2
      <4>. QED
        BY <2>2, <4>1
    <3>. QED
      BY <3>1, <3>2
  <2>4. go[j] \in 1 .. go[i]
    BY <2>3
  <2>. QED
    BY <1>2, <2>2, <2>4 DEF Ini!HeadersTo
<1>5. \A k \in G : \E j \in H : k = go[j]
  BY <1>1, <1>2 DEF Ini!HeadersTo
<1>6. CASE H = {}
  <2>1. G = {}
    BY <1>5, <1>6
  <2>. QED
    BY <1>1, <1>2, <1>6, <2>1 DEF Ini!SectionAt
<1>7. CASE H # {}
  <2>1. PICK h : h = Ini!Max(H)
    OBVIOUS
  <2>2. h \in H /\ \A j \in H : j <= h
    BY <1>3, <1>7, <2>1, LastPosition
  <2>3. go[h] \in G
    BY <1>4, <2>2
  <2>4. \A k \in G : k <= go[h]
    <3>1. TAKE k \in G
    <3>2. PICK j \in H : k = go[j]
      BY <1>5
    <3>3. j \in 1 .. m /\ h \in 1 .. m /\ j <= h
      BY <1>3, <2>2
    <3>4. CASE j = h
      BY <3>2, <3>3, <3>4
    <3>5. CASE j # h
      <4>1. j < h
        BY <3>3, <3>5
      <4>2. go[j] < go[h] /\ go[j] \in Nat /\ go[h] \in Nat
        BY <3>3, <4>1
      <4>. QED
        BY <3>2, <4>2
    <3>. QED
      BY <3>4, <3>5
  <2>5. Ini!Max(G) = go[h]
    BY <1>3, <2>3, <2>4, LastIs
  <2>6. new[go[h]].name = old[h].name
    <3>1. h \in 1 .. i /\ old[h].kind = "section"
      BY <1>1, <2>2 DEF Ini!HeadersTo
    <3>. QED
      BY <3>1
  <2>7. G # {}
    BY <2>3
  <2>. QED
    BY <1>1, <1>2, <1>7, <2>1, <2>5, <2>6, <2>7 DEF Ini!SectionAt
<1>. QED
  BY <1>6, <1>7

SameNames(old, new, n) ==
  /\ n \in Nat /\ DOMAIN old = 1 .. n /\ DOMAIN new = 1 .. n
  /\ \A j \in 1 .. n : new[j].kind = old[j].kind
  /\ \A j \in 1 .. n : old[j].kind = "section" => new[j].name = old[j].name

\* Lines that keep their headers keep their sections.
LEMMA SectionsStay ==
  ASSUME NEW old, NEW new, NEW n, SameNames(old, new, n)
  PROVE  \A i \in 1 .. n : Ini!SectionAt(new, i) = Ini!SectionAt(old, i)
<1>. USE DEF SameNames
<1>1. PICK go : go = [j \in 1 .. n |-> j]
  OBVIOUS
<1>2. /\ go \in [1 .. n -> 1 .. n] /\ \A j \in 1 .. n : go[j] = j
  BY <1>1
<1>3. Spread(go, n, n)
  BY <1>2 DEF Spread
<1>4. SUFFICES ASSUME NEW i \in 1 .. n PROVE Ini!SectionAt(new, i) = Ini!SectionAt(old, i)
  OBVIOUS
<1>5. 1 .. i \subseteq 1 .. n
  BY <1>4
<1>6. \A j \in 1 .. i : old[j].kind = "section" =>
        new[go[j]].kind = "section" /\ new[go[j]].name = old[j].name
  BY <1>2, <1>5
<1>7. \A k \in 1 .. go[i] : new[k].kind = "section" =>
        \E j \in 1 .. i : k = go[j] /\ old[j].kind = "section"
  BY <1>2, <1>5
<1>8. SameHeads(old, new, go, i)
  BY <1>6, <1>7 DEF SameHeads
<1>9. Ini!SectionAt(new, go[i]) = Ini!SectionAt(old, i)
  BY <1>3, <1>8, SectionsMove
<1>. QED
  BY <1>2, <1>9

\* What a document says for a key that is there once.
LEMMA IndexIs ==
  ASSUME NEW t, IsList(t), KeysOnce(t)
  PROVE  /\ DOMAIN Ini!IndexOf(t) = {Ini!Place(t, i) : i \in Ini!KeyLines(t)}
         /\ \A i \in Ini!KeyLines(t) : Ini!IndexOf(t)[Ini!Place(t, i)] = t[i].value
<1>1. PICK n \in Nat : DOMAIN t = 1 .. n
  BY DEF IsList
<1>2. Ini!KeyLines(t) \in SUBSET (1 .. n)
  BY <1>1 DEF Ini!KeyLines
<1>3. SUFFICES ASSUME NEW i \in Ini!KeyLines(t)
               PROVE  Ini!IndexOf(t)[Ini!Place(t, i)] = t[i].value
  BY DEF Ini!IndexOf
<1>4. PICK S : S = {j \in Ini!KeyLines(t) : Ini!Place(t, j) = Ini!Place(t, i)}
  OBVIOUS
<1>5. S \in SUBSET (1 .. n) /\ i \in S /\ \A j \in S : j = i
  BY <1>2, <1>4 DEF KeysOnce
<1>6. Ini!Max(S) = i
  BY <1>5, LastPosition
<1>7. Ini!IndexOf(t)[Ini!Place(t, i)] = t[Ini!Max(S)].value
  BY <1>4 DEF Ini!IndexOf
<1>. QED
  BY <1>6, <1>7

LEMMA OnceIs == KeysOnce(lines) <=> Ini!NoKeyTwice
BY DEF KeysOnce, Ini!NoKeyTwice

\* parse: the lines and the index agree.
LEMMA LoadKeeps ==
  ASSUME IniInv, Ini!Load
  PROVE  IniInv'
<1>1. lines' = Ini!RawLines(text) /\ index' = Ini!IndexOf(text) /\ loaded' = TRUE
      /\ text' = text
  BY DEF Ini!Load
<1>2. PICK n \in Nat : DOMAIN text = 1 .. n
  BY DEF IniInv, IsList
<1>3. PICK new : new = Ini!RawLines(text)
  OBVIOUS
<1>4. DOMAIN new = 1 .. n
  BY <1>2, <1>3 DEF Ini!RawLines
<1>5. \A i \in 1 .. n : i \notin Ini!KeyLines(text) => new[i] = text[i]
  BY <1>2, <1>3 DEF Ini!RawLines
<1>6. \A i \in Ini!KeyLines(text) :
        /\ i \in 1 .. n
        /\ DOMAIN new[i] = {"kind", "name", "value", "in"} /\ new[i].kind = "key"
        /\ new[i].name = text[i].name /\ new[i].value = text[i].value
        /\ new[i].in = Ini!SectionAt(text, i)
  <2>1. SUFFICES ASSUME NEW i \in Ini!KeyLines(text)
        PROVE  /\ i \in 1 .. n
               /\ DOMAIN new[i] = {"kind", "name", "value", "in"} /\ new[i].kind = "key"
               /\ new[i].name = text[i].name /\ new[i].value = text[i].value
               /\ new[i].in = Ini!SectionAt(text, i)
    OBVIOUS
  <2>2. i \in 1 .. n
    BY <1>2 DEF Ini!KeyLines
  <2>3. new[i] = [kind |-> "key", name |-> text[i].name, value |-> text[i].value,
                  in |-> Ini!SectionAt(text, i)]
    BY <1>2, <1>3, <2>2 DEF Ini!RawLines, Ini!Within
  <2>. QED
    BY <2>2, <2>3
<1>7. \A i \in 1 .. n : i \in Ini!KeyLines(text) <=> text[i].kind = "key"
  BY <1>2 DEF Ini!KeyLines
<1>8. \A i \in 1 .. n : new[i].kind = text[i].kind /\ new[i].name = text[i].name
  <2>1. TAKE i \in 1 .. n
  <2>2. CASE i \in Ini!KeyLines(text)
    BY <1>6, <1>7, <2>2
  <2>3. CASE i \notin Ini!KeyLines(text)
    BY <1>5, <2>3
  <2>. QED
    BY <2>2, <2>3
<1>9. Ini!KeyLines(new) = Ini!KeyLines(text)
  BY <1>2, <1>4, <1>8 DEF Ini!KeyLines
<1>10. \A i \in 1 .. n : Ini!SectionAt(new, i) = Ini!SectionAt(text, i)
  <2>1. SameNames(text, new, n)
    BY <1>2, <1>4, <1>8 DEF SameNames
  <2>. QED
    BY <2>1, SectionsStay
<1>11. \A i \in Ini!KeyLines(text) : Ini!Place(new, i) = Ini!Place(text, i)
  BY <1>6, <1>8, <1>10 DEF Ini!Place
<1>12. WellFiled(new)
  BY <1>6, <1>9, <1>10 DEF WellFiled
<1>13. KeysOnce(new) => KeysOnce(text)
  BY <1>9, <1>11 DEF KeysOnce
<1>14. {Ini!Place(new, i) : i \in Ini!KeyLines(new)} =
         {Ini!Place(text, i) : i \in Ini!KeyLines(text)}
  BY <1>9, <1>11
<1>15. Ini!IndexOf(text) = [p \in {Ini!Place(new, i) : i \in Ini!KeyLines(new)} |->
                              Ini!IndexOf(text)[p]]
  BY <1>14 DEF Ini!IndexOf
<1>16. KeysOnce(new) => \A i \in Ini!KeyLines(new) :
         Ini!IndexOf(text)[Ini!Place(new, i)] = new[i].value
  <2>1. SUFFICES ASSUME KeysOnce(new), NEW i \in Ini!KeyLines(text)
                 PROVE  Ini!IndexOf(text)[Ini!Place(text, i)] = new[i].value
    BY <1>9, <1>11
  <2>2. new[i].value = text[i].value
    BY <1>6
  <2>3. IsList(text)
    BY DEF IniInv
  <2>. QED
    BY <1>13, <2>1, <2>2, <2>3, IndexIs
<1>17. Indexed(new, Ini!IndexOf(text))
  BY <1>15, <1>16 DEF Indexed
<1>18. IsList(new)
  <2>1. new = [i \in 1 .. n |-> new[i]]
    BY <1>2, <1>3 DEF Ini!RawLines
  <2>. QED
    BY <2>1, ListIs
<1>. QED
  BY <1>1, <1>3, <1>12, <1>17, <1>18 DEF IniInv

\* The index and, if there is a line for the key, the lines after a set.
IndexWith(s, k, v) ==
  [p \in DOMAIN index \cup {<<s, k>>} |-> IF p = <<s, k>> THEN v ELSE index[p]]
LinesWith(s, k, v) == [lines EXCEPT ![Ini!Min(Ini!Hits(s, k))].value = v]

\* The first line with the key takes the value.
LEMMA ChangeKeeps ==
  ASSUME IsList(lines), WellFiled(lines), Indexed(lines, index), NEW s, NEW k, NEW v,
         Ini!Hits(s, k) # {},
         NEW new, new = LinesWith(s, k, v),
         NEW x, x = IndexWith(s, k, v)
  PROVE  IsList(new) /\ WellFiled(new) /\ Indexed(new, x)
<1>. USE DEF IndexWith, LinesWith
<1>1. PICK n \in Nat : DOMAIN lines = 1 .. n
  BY DEF IsList
<1>2. PICK h : h = Ini!Min(Ini!Hits(s, k))
  OBVIOUS
<1>3. Ini!Hits(s, k) \subseteq 1 .. n /\ Ini!Hits(s, k) \subseteq Nat
  BY <1>1 DEF Ini!Hits, Ini!KeyLines
<1>4. h \in Ini!Hits(s, k) /\ h \in 1 .. n
  BY <1>2, <1>3, FirstIs
<1>5. h \in Ini!KeyLines(lines) /\ lines[h].in = s /\ Lower[lines[h].name] = k
      /\ lines[h].kind = "key"
  BY <1>4 DEF Ini!Hits, Ini!KeyLines
<1>6. DOMAIN lines[h] = {"kind", "name", "value", "in"} /\ lines[h].in = Ini!SectionAt(lines, h)
  BY <1>5 DEF WellFiled
<1>7. DOMAIN new = 1 .. n /\ new = [i \in 1 .. n |-> new[i]]
      /\ \A i \in 1 .. n : i # h => new[i] = lines[i]
  BY <1>1, <1>2
<1>8. new[h] = [lines[h] EXCEPT !.value = v]
  BY <1>1, <1>2, <1>4
<1>9. /\ new[h].kind = "key" /\ new[h].name = lines[h].name /\ new[h].value = v
      /\ new[h].in = lines[h].in /\ DOMAIN new[h] = DOMAIN lines[h]
  BY <1>5, <1>6, <1>8
<1>10. \A i \in 1 .. n : new[i].kind = lines[i].kind /\ new[i].name = lines[i].name
  <2>1. TAKE i \in 1 .. n
  <2>2. CASE i = h
    BY <1>5, <1>9, <2>2
  <2>3. CASE i # h
    BY <1>7, <2>3
  <2>. QED
    BY <2>2, <2>3
<1>11. Ini!KeyLines(new) = Ini!KeyLines(lines)
  BY <1>1, <1>7, <1>10 DEF Ini!KeyLines
<1>12. \A i \in 1 .. n : Ini!SectionAt(new, i) = Ini!SectionAt(lines, i)
  <2>1. DOMAIN new = 1 .. n
    BY <1>7
  <2>2. SameNames(lines, new, n)
    BY <1>1, <1>10, <2>1 DEF SameNames
  <2>. QED
    BY <2>2, SectionsStay
<1>13. \A i \in Ini!KeyLines(lines) : i \in 1 .. n
  BY <1>1 DEF Ini!KeyLines
<1>14. \A i \in Ini!KeyLines(lines) : Ini!Place(new, i) = Ini!Place(lines, i)
  BY <1>10, <1>12, <1>13 DEF Ini!Place
<1>15. WellFiled(new)
  <2>1. SUFFICES ASSUME NEW i \in Ini!KeyLines(lines)
                 PROVE  DOMAIN new[i] = {"kind", "name", "value", "in"}
                        /\ new[i].in = Ini!SectionAt(new, i)
    BY <1>11 DEF WellFiled
  <2>2. DOMAIN lines[i] = {"kind", "name", "value", "in"}
        /\ lines[i].in = Ini!SectionAt(lines, i)
    BY DEF WellFiled
  <2>3. CASE i = h
    BY <1>6, <1>9, <1>12, <1>4, <2>3
  <2>4. CASE i # h
    BY <1>7, <1>12, <1>13, <2>2, <2>4
  <2>. QED
    BY <2>3, <2>4
<1>16. Ini!Place(lines, h) = <<s, k>>
  BY <1>5, <1>6 DEF Ini!Place
<1>17. PICK P : P = {Ini!Place(lines, i) : i \in Ini!KeyLines(lines)}
  OBVIOUS
<1>18. {Ini!Place(new, i) : i \in Ini!KeyLines(new)} = P
  BY <1>11, <1>14, <1>17
<1>19. DOMAIN index = P /\ <<s, k>> \in P
  <2>1. <<s, k>> \in P
    BY <1>5, <1>16, <1>17
  <2>2. index = [p \in P |-> index[p]]
    BY <1>17 DEF Indexed
  <2>. QED
    BY <2>1, <2>2
<1>20. DOMAIN x = P /\ x = [p \in P |-> x[p]]
  <2>1. DOMAIN index \cup {<<s, k>>} = P
    BY <1>19
  <2>. QED
    BY <2>1
<1>21. x[<<s, k>>] = v /\ \A p \in P : p # <<s, k>> => x[p] = index[p]
  BY <1>19
<1>22. KeysOnce(new) => \A i \in Ini!KeyLines(new) : x[Ini!Place(new, i)] = new[i].value
  <2>1. SUFFICES ASSUME KeysOnce(new), NEW i \in Ini!KeyLines(lines)
                 PROVE  x[Ini!Place(lines, i)] = new[i].value
    BY <1>11, <1>14
  <2>2. KeysOnce(lines)
    BY <1>11, <1>14, <2>1 DEF KeysOnce
  <2>3. CASE i = h
    BY <1>9, <1>16, <1>21, <2>3
  <2>4. CASE i # h
    <3>1. Ini!Place(lines, i) # <<s, k>>
      BY <1>5, <1>16, <2>2, <2>4 DEF KeysOnce
    <3>2. Ini!Place(lines, i) \in P
      BY <1>17
    <3>3. index[Ini!Place(lines, i)] = lines[i].value
      BY <2>2 DEF Indexed
    <3>4. new[i] = lines[i]
      BY <1>7, <1>13, <2>4
    <3>. QED
      BY <1>21, <3>1, <3>2, <3>3, <3>4
  <2>. QED
    BY <2>3, <2>4
<1>23. Indexed(new, x)
  BY <1>18, <1>20, <1>22 DEF Indexed
<1>24. IsList(new)
  BY <1>7, ListIs
<1>. QED
  BY <1>15, <1>23, <1>24

\* The lines of a document and at q one more, with a key that was not there.
NewLine(new, m, n, go, q, s, k, v) ==
  /\ DOMAIN lines = 1 .. m /\ IsList(new) /\ DOMAIN new = 1 .. n
  /\ Spread(go, m, n)
  /\ q \in 1 .. n /\ \A i \in 1 .. m : go[i] # q
  /\ \A i \in Ini!KeyLines(lines) :
       new[go[i]] = lines[i] /\ Ini!SectionAt(new, go[i]) = Ini!SectionAt(lines, i)
  /\ \A j \in Ini!KeyLines(new) : j = q \/ \E i \in Ini!KeyLines(lines) : j = go[i]
  /\ DOMAIN new[q] = {"kind", "name", "value", "in"} /\ new[q].kind = "key"
  /\ Lower[new[q].name] = k /\ new[q].value = v /\ new[q].in = s
  /\ Ini!SectionAt(new, q) = s

\* The others move and keep their places.
LEMMA GrowthKeeps ==
  ASSUME IsList(lines), WellFiled(lines), Indexed(lines, index), NEW s, NEW k, NEW v,
         Ini!Hits(s, k) = {}, NEW new, NEW m, NEW n, NEW go, NEW q,
         NewLine(new, m, n, go, q, s, k, v),
         NEW x, x = IndexWith(s, k, v)
  PROVE  WellFiled(new) /\ Indexed(new, x)
<1>. USE DEF NewLine, IndexWith
<1>1. \A i \in Ini!KeyLines(lines) :
        /\ i \in 1 .. m /\ go[i] \in 1 .. n /\ lines[i].kind = "key"
        /\ go[i] \in Ini!KeyLines(new)
  BY DEF Ini!KeyLines, Spread
<1>2. q \in Ini!KeyLines(new)
  BY DEF Ini!KeyLines
<1>3. \A i \in Ini!KeyLines(lines) : Ini!Place(new, go[i]) = Ini!Place(lines, i)
  BY DEF Ini!Place
<1>4. Ini!Place(new, q) = <<s, k>>
  BY DEF Ini!Place
<1>5. \A i \in Ini!KeyLines(lines) : Ini!Place(lines, i) # <<s, k>>
  BY DEF Ini!Place, Ini!Hits, WellFiled
<1>6. PICK P : P = {Ini!Place(lines, i) : i \in Ini!KeyLines(lines)}
  OBVIOUS
<1>7. DOMAIN index = P
  <2>1. index = [p \in P |-> index[p]]
    BY <1>6 DEF Indexed
  <2>. QED
    BY <2>1
<1>8. {Ini!Place(new, j) : j \in Ini!KeyLines(new)} = P \cup {<<s, k>>}
  <2>1. \A j \in Ini!KeyLines(new) : Ini!Place(new, j) \in P \cup {<<s, k>>}
    BY <1>3, <1>4, <1>6
  <2>2. \A p \in P : \E j \in Ini!KeyLines(new) : p = Ini!Place(new, j)
    BY <1>1, <1>3, <1>6
  <2>. QED
    BY <1>2, <1>4, <2>1, <2>2
<1>9. x = [p \in P \cup {<<s, k>>} |-> x[p]]
  BY <1>7
<1>10. x[<<s, k>>] = v /\ \A p \in P : p # <<s, k>> => x[p] = index[p]
  BY <1>7
<1>11. WellFiled(new)
  BY DEF WellFiled
<1>12. KeysOnce(new) => KeysOnce(lines)
  <2>1. SUFFICES ASSUME KeysOnce(new), NEW i \in Ini!KeyLines(lines),
                        NEW j \in Ini!KeyLines(lines),
                        Ini!Place(lines, i) = Ini!Place(lines, j)
                 PROVE  i = j
    BY DEF KeysOnce
  <2>2. go[i] = go[j]
    BY <1>1, <1>3, <2>1 DEF KeysOnce
  <2>3. i \in 1 .. m /\ j \in 1 .. m /\ go[i] \in Nat
    BY <1>1 DEF Spread
  <2>4. ~ (i < j) /\ ~ (j < i)
    BY <2>2, <2>3 DEF Spread
  <2>5. i \in Int /\ j \in Int
    BY <2>3
  <2>. QED
    BY <2>4, <2>5
<1>13. KeysOnce(new) => \A j \in Ini!KeyLines(new) : x[Ini!Place(new, j)] = new[j].value
  <2>1. SUFFICES ASSUME KeysOnce(new), NEW j \in Ini!KeyLines(new)
                 PROVE  x[Ini!Place(new, j)] = new[j].value
    OBVIOUS
  <2>2. CASE j = q
    BY <1>4, <1>10, <2>2
  <2>3. ASSUME NEW i \in Ini!KeyLines(lines), j = go[i]
        PROVE  x[Ini!Place(new, j)] = new[j].value
    <3>1. Ini!Place(new, j) = Ini!Place(lines, i) /\ Ini!Place(lines, i) # <<s, k>>
          /\ Ini!Place(lines, i) \in P
      BY <1>3, <1>5, <1>6, <2>3
    <3>2. index[Ini!Place(lines, i)] = lines[i].value
      BY <1>12, <2>1 DEF Indexed
    <3>3. new[j] = lines[i]
      BY <2>3
    <3>. QED
      BY <1>10, <3>1, <3>2, <3>3
  <2>. QED
    BY <2>2, <2>3
<1>14. Indexed(new, x)
  BY <1>8, <1>9, <1>13 DEF Indexed
<1>. QED
  BY <1>11, <1>14

\* A line comes between.
LEMMA InsertIs ==
  ASSUME NEW t, IsList(t), NEW m \in Nat, DOMAIN t = 1 .. m, NEW q \in 1 .. m + 1, NEW e
  PROVE  /\ IsList(Ini!InsertAt(t, q, e)) /\ DOMAIN Ini!InsertAt(t, q, e) = 1 .. m + 1
         /\ Ini!InsertAt(t, q, e)[q] = e
         /\ \A i \in 1 .. m : i < q => Ini!InsertAt(t, q, e)[i] = t[i]
         /\ \A i \in 1 .. m : i >= q => Ini!InsertAt(t, q, e)[i + 1] = t[i]
<1>1. PICK U : t \in Seq(U)
  BY DEF IsList
<1>2. PICK V : V = U \cup {e}
  OBVIOUS
<1>3. t \in Seq(V) /\ <<e>> \in Seq(V) /\ Len(t) = m
  BY <1>1, <1>2
<1>4. PICK a : a = SubSeq(t, 1, q - 1)
  OBVIOUS
<1>5. PICK b : b = SubSeq(t, q, m)
  OBVIOUS
<1>6. a \in Seq(V) /\ Len(a) = q - 1 /\ \A i \in 1 .. q - 1 : a[i] = t[i]
  BY <1>3, <1>4
<1>7. b \in Seq(V) /\ Len(b) = m - q + 1 /\ \A i \in 1 .. m - q + 1 : b[i] = t[q + i - 1]
  BY <1>3, <1>5
<1>8. PICK c : c = a \o <<e>>
  OBVIOUS
<1>9. c \in Seq(V) /\ Len(c) = q /\ c[q] = e /\ \A i \in 1 .. q - 1 : c[i] = t[i]
  BY <1>3, <1>6, <1>8
<1>10. PICK d : d = c \o b
  OBVIOUS
<1>11. d \in Seq(V) /\ Len(d) = m + 1 /\ d[q] = e
       /\ \A i \in 1 .. q - 1 : d[i] = t[i]
  BY <1>7, <1>9, <1>10
<1>12. \A i \in 1 .. m : i >= q => d[i + 1] = t[i]
  <2>1. SUFFICES ASSUME NEW i \in 1 .. m, i >= q PROVE d[i + 1] = t[i]
    OBVIOUS
  <2>2. d[i + 1] = b[i + 1 - q]
    BY <1>7, <1>9, <1>10, <2>1
  <2>3. i + 1 - q \in 1 .. m - q + 1
    BY <2>1
  <2>4. b[i + 1 - q] = t[q + (i + 1 - q) - 1]
    BY <1>7, <2>3
  <2>5. q + (i + 1 - q) - 1 = i
    BY <2>1
  <2>. QED
    BY <2>2, <2>4, <2>5
<1>13. Ini!InsertAt(t, q, e) = d
  BY <1>3, <1>4, <1>5, <1>8, <1>10 DEF Ini!InsertAt
<1>. QED
  BY <1>11, <1>12, <1>13 DEF IsList

\* The section is there: the line comes before the first that is not of it.
LEMMA PlaceOfLine ==
  ASSUME IsList(lines), NEW m \in Nat, DOMAIN lines = 1 .. m, NEW s, Ini!Heads(s) # {}
  PROVE  /\ Ini!LastLineOfSection(s) \in 1 .. m
         /\ \A i \in 1 .. Ini!LastLineOfSection(s) :
              lines[i].kind = "section" /\ i > Ini!Min(Ini!Heads(s)) => i \in Ini!Heads(s)
         /\ Ini!Min(Ini!Heads(s)) \in Ini!Heads(s)
         /\ Ini!Min(Ini!Heads(s)) <= Ini!LastLineOfSection(s)
<1>1. PICK h : h = Ini!Min(Ini!Heads(s))
  OBVIOUS
<1>2. Ini!Heads(s) \subseteq 1 .. m /\ Ini!Heads(s) \subseteq Nat
  BY DEF Ini!Heads
<1>3. h \in Ini!Heads(s) /\ h \in 1 .. m
  BY <1>1, <1>2, FirstIs
<1>4. PICK others : others = {i \in DOMAIN lines :
                     /\ i > h
                     /\ \/ lines[i].kind = "section" /\ i \notin Ini!Heads(s)
                        \/ lines[i].kind = "key" /\ lines[i].in # s}
  OBVIOUS
<1>5. CASE others = {}
  <2>1. Ini!LastLineOfSection(s) = m
    <3>1. Len(lines) = m
      BY DEF IsList
    <3>. QED
      BY <1>1, <1>4, <1>5, <3>1 DEF Ini!LastLineOfSection
  <2>2. \A i \in 1 .. m : lines[i].kind = "section" /\ i > h => i \in Ini!Heads(s)
    BY <1>4, <1>5
  <2>. QED
    BY <1>1, <1>3, <2>1, <2>2
<1>6. CASE others # {}
  <2>1. others \subseteq Nat /\ others \subseteq 1 .. m
    BY <1>4
  <2>2. PICK o : o = Ini!Min(others)
    OBVIOUS
  <2>3. o \in others /\ \A i \in others : o <= i
    BY <1>6, <2>1, <2>2, FirstIs
  <2>4. Ini!LastLineOfSection(s) = o - 1
    BY <1>1, <1>4, <1>6, <2>2 DEF Ini!LastLineOfSection
  <2>5. o \in 1 .. m /\ o > h /\ h \in 1 .. m
    BY <1>3, <1>4, <2>1, <2>3
  <2>6. \A i \in 1 .. o - 1 : lines[i].kind = "section" /\ i > h => i \in Ini!Heads(s)
    <3>1. TAKE i \in 1 .. o - 1
    <3>2. i \in DOMAIN lines /\ ~ (o <= i)
      BY <2>5
    <3>3. i \notin others
      BY <2>3, <3>2
    <3>. QED
      BY <1>4, <3>2, <3>3
  <2>7. o - 1 \in 1 .. m /\ h <= o - 1
    BY <2>5
  <2>. QED
    BY <1>1, <1>3, <2>4, <2>6, <2>7
<1>. QED
  BY <1>5, <1>6

\* A line of a key that is not there goes to the end of its section.
LEMMA InsertedIsNew ==
  ASSUME IsList(lines), NEW m \in Nat, DOMAIN lines = 1 .. m,
         NEW section, NEW key, NEW v, NEW s, s = Lower[section],
         Ini!Heads(s) # {}, NEW q, q = Ini!LastLineOfSection(s) + 1,
         NEW new, new = Ini!InsertAt(lines, q, Ini!Within(Ini!Line(key, v), s))
  PROVE  NewLine(new, m, m + 1, [i \in 1 .. m |-> IF i < q THEN i ELSE i + 1], q,
                 s, Lower[key], v)
<1>1. PICK go : go = [i \in 1 .. m |-> IF i < q THEN i ELSE i + 1]
  OBVIOUS
<1>2. PICK e : e = Ini!Within(Ini!Line(key, v), s)
  OBVIOUS
<1>3. /\ DOMAIN e = {"kind", "name", "value", "in"} /\ e.kind = "key" /\ e.name = key
      /\ e.value = v /\ e.in = s
  BY <1>2 DEF Ini!Within, Ini!Line
<1>4. q \in 1 .. m + 1 /\ q \in 1 .. m + 1 /\ q > 1
  BY PlaceOfLine
<1>5. /\ IsList(new) /\ DOMAIN new = 1 .. m + 1 /\ new[q] = e
      /\ \A i \in 1 .. m : i < q => new[i] = lines[i]
      /\ \A i \in 1 .. m : i >= q => new[i + 1] = lines[i]
  BY <1>2, <1>4, InsertIs
<1>6. \A i \in 1 .. m : /\ i < q => go[i] = i
                        /\ i >= q => go[i] = i + 1
  BY <1>1, <1>4
<1>7. \A i \in 1 .. m : go[i] \in 1 .. m + 1 /\ go[i] # q /\ new[go[i]] = lines[i]
  <2>1. TAKE i \in 1 .. m
  <2>2. CASE i < q
    BY <1>4, <1>5, <1>6, <2>2
  <2>3. CASE i >= q
    BY <1>4, <1>5, <1>6, <2>3
  <2>. QED
    BY <1>4, <2>2, <2>3
<1>8. \A j \in 1 .. m + 1 : j = q \/ \E i \in 1 .. m : j = go[i]
  <2>1. TAKE j \in 1 .. m + 1
  <2>2. CASE j < q
    BY <1>4, <1>6, <2>2
  <2>3. CASE j > q
    <3>1. j - 1 \in 1 .. m /\ j - 1 >= q
      BY <1>4, <2>3
    <3>. QED
      BY <1>6, <3>1
  <2>. QED
    BY <1>4, <2>2, <2>3
<1>9. Spread(go, m, m + 1)
  <2>1. go \in [1 .. m -> 1 .. m + 1]
    BY <1>1, <1>7
  <2>2. \A i, j \in 1 .. m : i < j => go[i] < go[j]
    <3>1. TAKE i, j \in 1 .. m
    <3>2. (go[i] = i \/ go[i] = i + 1) /\ (go[j] = j \/ go[j] = j + 1)
          /\ (go[i] = i + 1 => i >= q) /\ (j >= q => go[j] = j + 1)
      BY <1>4, <1>6
    <3>. QED
      BY <1>4, <3>2
  <2>. QED
    BY <2>1, <2>2 DEF Spread
<1>10. \A i \in 1 .. m : Ini!SectionAt(new, go[i]) = Ini!SectionAt(lines, i)
  <2>1. TAKE i \in 1 .. m
  <2>2. \A j \in 1 .. i : lines[j].kind = "section" =>
          new[go[j]].kind = "section" /\ new[go[j]].name = lines[j].name
    BY <1>7, <2>1
  <2>3. \A k \in 1 .. go[i] : new[k].kind = "section" =>
          \E j \in 1 .. i : k = go[j] /\ lines[j].kind = "section"
    <3>1. SUFFICES ASSUME NEW k \in 1 .. go[i], new[k].kind = "section"
                   PROVE  \E j \in 1 .. i : k = go[j] /\ lines[j].kind = "section"
      OBVIOUS
    <3>2. k # q /\ k \in 1 .. m + 1 /\ k <= go[i]
      BY <1>3, <1>5, <1>7, <2>1, <3>1
    <3>3. PICK j \in 1 .. m : k = go[j]
      BY <1>8, <3>2
    <3>4. ~ (i < j)
      BY <1>7, <1>9, <3>2, <3>3 DEF Spread
    <3>5. j \in 1 .. i
      BY <3>4
    <3>. QED
      BY <1>7, <3>1, <3>3, <3>5
  <2>4. SameHeads(lines, new, go, i)
    BY <2>2, <2>3 DEF SameHeads
  <2>. QED
    BY <1>5, <1>9, <2>4, SectionsMove
<1>11. Ini!SectionAt(new, q) = s
  <2>1. PICK H : H = Ini!HeadersTo(new, q)
    OBVIOUS
  <2>2. H \in SUBSET (1 .. q) /\ q \in Nat
    BY <1>4, <2>1 DEF Ini!HeadersTo
  <2>3. PICK h : h = Ini!Min(Ini!Heads(s))
    OBVIOUS
  <2>4. h \in Ini!Heads(s) /\ h < q /\ h \in 1 .. m
        /\ \A i \in 1 .. q - 1 : lines[i].kind = "section" /\ i > h => i \in Ini!Heads(s)
    BY <1>4, <2>3, PlaceOfLine DEF Ini!Heads
  <2>5. lines[h].kind = "section"
    BY <2>4 DEF Ini!Heads
  <2>6. h \in H
    BY <1>4, <1>5, <2>1, <2>4, <2>5 DEF Ini!HeadersTo
  <2>7. PICK x : x = Ini!Max(H)
    OBVIOUS
  <2>8. x \in H /\ h <= x
    BY <2>2, <2>6, <2>7, LastPosition
  <2>9. new[x].kind = "section" /\ x \in 1 .. q
    BY <2>1, <2>8 DEF Ini!HeadersTo
  <2>10. x \in 1 .. q - 1 /\ x \in 1 .. m /\ new[x] = lines[x]
    <3>1. x # q
      BY <1>3, <1>5, <2>9
    <3>. QED
      BY <1>4, <1>5, <2>9, <3>1
  <2>11. x \in Ini!Heads(s)
    <3>1. CASE x = h
      BY <2>4, <3>1
    <3>2. CASE x # h
      <4>1. x > h
        BY <2>4, <2>8, <2>10, <3>2
      <4>. QED
        BY <2>4, <2>9, <2>10, <4>1
    <3>. QED
      BY <3>1, <3>2
  <2>12. Lower[lines[x].name] = s
    BY <2>11 DEF Ini!Heads
  <2>. QED
    BY <2>1, <2>6, <2>7, <2>10, <2>12 DEF Ini!SectionAt
<1>12. \A i \in Ini!KeyLines(lines) : i \in 1 .. m
  BY DEF Ini!KeyLines
<1>13. \A j \in Ini!KeyLines(new) : j = q \/ \E i \in Ini!KeyLines(lines) : j = go[i]
  <2>1. SUFFICES ASSUME NEW j \in Ini!KeyLines(new), j # q
                 PROVE  \E i \in Ini!KeyLines(lines) : j = go[i]
    OBVIOUS
  <2>2. j \in 1 .. m + 1 /\ new[j].kind = "key"
    BY <1>5 DEF Ini!KeyLines
  <2>3. PICK i \in 1 .. m : j = go[i]
    BY <1>8, <2>1, <2>2
  <2>4. i \in Ini!KeyLines(lines)
    BY <1>7, <2>2, <2>3 DEF Ini!KeyLines
  <2>. QED
    BY <2>3, <2>4
<1>. QED
  BY <1>1, <1>3, <1>4, <1>5, <1>7, <1>9, <1>10, <1>11, <1>12, <1>13 DEF NewLine

\* The lines with a section and a key at their end.
LinesAnd(section, key, v) ==
  lines \o <<Ini!Header(section), Ini!Within(Ini!Line(key, v), Lower[section])>>

\* A key of a section that is not there comes behind a header of its own.
LEMMA AppendedIsNew ==
  ASSUME IsList(lines), NEW m \in Nat, DOMAIN lines = 1 .. m,
         NEW section, NEW key, NEW v, NEW s, s = Lower[section], NEW new,
         NEW n, n = m + 2, new = LinesAnd(section, key, v)
  PROVE  NewLine(new, m, n, [i \in 1 .. m |-> i], n, s, Lower[key], v)
<1>1. PICK go : go = [i \in 1 .. m |-> i]
  OBVIOUS
<1>2. PICK e : e = Ini!Within(Ini!Line(key, v), s)
  OBVIOUS
<1>3. /\ DOMAIN e = {"kind", "name", "value", "in"} /\ e.kind = "key" /\ e.name = key
      /\ e.value = v /\ e.in = s
  BY <1>2 DEF Ini!Within, Ini!Line
<1>4. PICK d : d = Ini!Header(section)
  OBVIOUS
<1>5. d.kind = "section" /\ d.name = section
  BY <1>4 DEF Ini!Header
<1>6. /\ IsList(new) /\ DOMAIN new = 1 .. n /\ new[m + 1] = d /\ new[n] = e
      /\ \A i \in 1 .. m : new[i] = lines[i]
  <2>1. PICK U : lines \in Seq(U)
    BY DEF IsList
  <2>2. PICK V : V = U \cup {d, e}
    OBVIOUS
  <2>3. lines \in Seq(V) /\ Len(lines) = m /\ <<d, e>> \in Seq(V) /\ Len(<<d, e>>) = 2
    BY <2>1, <2>2
  <2>4. new = lines \o <<d, e>>
    BY <1>2, <1>4 DEF LinesAnd
  <2>5. new \in Seq(V) /\ Len(new) = n
    BY <2>3, <2>4
  <2>6. /\ new[m + 1] = d /\ new[n] = e
        /\ \A i \in 1 .. m : new[i] = lines[i]
    BY <2>3, <2>4
  <2>. QED
    BY <2>5, <2>6 DEF IsList
<1>7. Spread(go, m, n) /\ \A i \in 1 .. m : go[i] = i
  BY <1>1 DEF Spread
<1>8. \A i \in 1 .. m : Ini!SectionAt(new, go[i]) = Ini!SectionAt(lines, i)
  <2>1. TAKE i \in 1 .. m
  <2>2. 1 .. i \subseteq 1 .. m
    BY <2>1
  <2>3. SameHeads(lines, new, go, i)
    BY <1>6, <1>7, <2>2 DEF SameHeads
  <2>4. DOMAIN new = 1 .. n /\ n \in Nat
    BY <1>6
  <2>5. Spread(go, m, n)
    BY <1>7
  <2>. QED
    BY <2>3, <2>4, <2>5, SectionsMove
<1>9. Ini!SectionAt(new, n) = s
  <2>1. PICK H : H = Ini!HeadersTo(new, n)
    OBVIOUS
  <2>2. m + 1 \in H /\ n \notin H
    BY <1>3, <1>5, <1>6, <2>1 DEF Ini!HeadersTo
  <2>3. H \in SUBSET (1 .. n)
    BY <2>1 DEF Ini!HeadersTo
  <2>4. \A x \in H : x <= m + 1
    BY <2>2, <2>3
  <2>5. Ini!Max(H) = m + 1
    <3>1. PICK l : l = m + 1
      OBVIOUS
    <3>2. l \in H /\ n \in Nat /\ \A x \in H : x <= l
      BY <2>2, <2>4, <3>1
    <3>. QED
      BY <2>3, <3>1, <3>2, LastIs
  <2>. QED
    BY <1>5, <1>6, <2>1, <2>2, <2>5 DEF Ini!SectionAt
<1>10. \A i \in Ini!KeyLines(lines) : i \in 1 .. m
  BY DEF Ini!KeyLines
<1>11. \A j \in Ini!KeyLines(new) : j = n \/ \E i \in Ini!KeyLines(lines) : j = go[i]
  <2>1. SUFFICES ASSUME NEW j \in Ini!KeyLines(new), j # n
                 PROVE  \E i \in Ini!KeyLines(lines) : j = go[i]
    OBVIOUS
  <2>2. j \in 1 .. n /\ new[j].kind = "key" /\ j # m + 1
    BY <1>5, <1>6 DEF Ini!KeyLines
  <2>3. j \in 1 .. m
    BY <2>1, <2>2
  <2>4. j \in Ini!KeyLines(lines)
    BY <1>6, <2>2, <2>3 DEF Ini!KeyLines
  <2>. QED
    BY <1>7, <2>3, <2>4
<1>12. \A i \in 1 .. m : go[i] # n
  BY <1>7
<1>13. n \in 1 .. n
  OBVIOUS
<1>. QED
  BY <1>1, <1>3, <1>13, <1>6, <1>7, <1>8, <1>9, <1>10, <1>11, <1>12 DEF NewLine

\* set: whichever of its three ways it takes.
LEMMA SetKeeps ==
  ASSUME IniInv, Ini!SetKey
  PROVE  IniInv'
<1>1. PICK section \in Sections, key \in Keys, v \in Values :
        /\ lines' = Ini!WithKey(section, key, v)
        /\ index' = [p \in DOMAIN index \cup {<<Lower[section], Lower[key]>>} |->
                       IF p = <<Lower[section], Lower[key]>> THEN v ELSE index[p]]
  BY DEF Ini!SetKey
<1>2. loaded /\ loaded' = loaded /\ text' = text
  BY DEF Ini!SetKey
<1>3. IsList(lines) /\ WellFiled(lines) /\ Indexed(lines, index) /\ IsList(text)
  BY <1>2 DEF IniInv
<1>4. PICK m \in Nat : DOMAIN lines = 1 .. m
  BY <1>3 DEF IsList
<1>5. PICK s : s = Lower[section]
  OBVIOUS
<1>6. PICK k : k = Lower[key]
  OBVIOUS
<1>7. PICK new : new = Ini!WithKey(section, key, v)
  OBVIOUS
<1>8. PICK x : x = IndexWith(s, k, v)
  OBVIOUS
<1>9. lines' = new /\ index' = x
  BY <1>1, <1>5, <1>6, <1>7, <1>8 DEF IndexWith
<1>10. CASE Ini!Hits(s, k) # {}
  <2>1. new = LinesWith(s, k, v)
    BY <1>5, <1>6, <1>7, <1>10 DEF Ini!WithKey, LinesWith
  <2>2. IsList(new) /\ WellFiled(new) /\ Indexed(new, x)
    BY <1>3, <1>8, <1>10, <2>1, ChangeKeeps
  <2>. QED
    BY <1>2, <1>3, <1>9, <2>2 DEF IniInv
<1>11. CASE Ini!Hits(s, k) = {} /\ Ini!Heads(s) # {}
  <2>1. PICK q : q = Ini!LastLineOfSection(s) + 1
    OBVIOUS
  <2>2. new = Ini!InsertAt(lines, q, Ini!Within(Ini!Line(key, v), s))
    BY <1>5, <1>6, <1>7, <1>11, <2>1 DEF Ini!WithKey
  <2>3. PICK go : NewLine(new, m, m + 1, go, q, s, k, v)
    BY <1>3, <1>4, <1>5, <1>6, <1>11, <2>1, <2>2, InsertedIsNew
  <2>4. WellFiled(new) /\ Indexed(new, x)
    BY <1>3, <1>8, <1>11, <2>3, GrowthKeeps
  <2>5. IsList(new)
    BY <2>3 DEF NewLine
  <2>. QED
    BY <1>2, <1>3, <1>9, <2>4, <2>5 DEF IniInv
<1>12. CASE Ini!Hits(s, k) = {} /\ Ini!Heads(s) = {}
  <2>1. new = LinesAnd(section, key, v)
    BY <1>5, <1>6, <1>7, <1>12 DEF Ini!WithKey, LinesAnd
  <2>2. PICK go : NewLine(new, m, m + 2, go, m + 2, s, k, v)
    BY <1>3, <1>4, <1>5, <1>6, <2>1, AppendedIsNew
  <2>3. WellFiled(new) /\ Indexed(new, x)
    BY <1>3, <1>8, <1>12, <2>2, GrowthKeeps
  <2>4. IsList(new)
    BY <2>2 DEF NewLine
  <2>. QED
    BY <1>2, <1>3, <1>9, <2>3, <2>4 DEF IniInv
<1>. QED
  BY <1>10, <1>11, <1>12

\* What save_to writes has the same sections, keys and values.
LEMMA WrittenIs ==
  ASSUME IsList(lines)
  PROVE  /\ IsList(Ini!Written)
         /\ Ini!KeyLines(Ini!Written) = Ini!KeyLines(lines)
         /\ \A i \in Ini!KeyLines(lines) :
              /\ Ini!Place(Ini!Written, i) = Ini!Place(lines, i)
              /\ Ini!Written[i].value = lines[i].value
<1>1. PICK n \in Nat : DOMAIN lines = 1 .. n
  BY DEF IsList
<1>2. PICK new : new = Ini!Written
  OBVIOUS
<1>3. DOMAIN new = 1 .. n /\ new = [i \in 1 .. n |-> new[i]]
  BY <1>1, <1>2 DEF Ini!Written
<1>4. \A i \in 1 .. n :
        /\ new[i].kind = lines[i].kind /\ new[i].name = lines[i].name
        /\ i \in Ini!KeyLines(lines) => new[i].value = lines[i].value
  <2>1. TAKE i \in 1 .. n
  <2>2. CASE i \in Ini!KeyLines(lines)
    <3>1. new[i] = [kind |-> "key", name |-> lines[i].name, value |-> lines[i].value]
      BY <1>1, <1>2, <2>2 DEF Ini!Written, Ini!Line
    <3>2. lines[i].kind = "key"
      BY <2>2 DEF Ini!KeyLines
    <3>. QED
      BY <3>1, <3>2
  <2>3. CASE i \notin Ini!KeyLines(lines)
    BY <1>1, <1>2, <2>3 DEF Ini!Written
  <2>. QED
    BY <2>2, <2>3
<1>5. Ini!KeyLines(new) = Ini!KeyLines(lines)
  BY <1>1, <1>3, <1>4 DEF Ini!KeyLines
<1>6. SameNames(lines, new, n)
  BY <1>1, <1>3, <1>4 DEF SameNames
<1>7. \A i \in 1 .. n : Ini!SectionAt(new, i) = Ini!SectionAt(lines, i)
  BY <1>6, SectionsStay
<1>8. \A i \in Ini!KeyLines(lines) : i \in 1 .. n
  BY <1>1 DEF Ini!KeyLines
<1>9. \A i \in Ini!KeyLines(lines) :
        /\ Ini!Place(new, i) = Ini!Place(lines, i)
        /\ new[i].value = lines[i].value
  BY <1>4, <1>7, <1>8 DEF Ini!Place
<1>10. IsList(new)
  BY <1>3, ListIs
<1>. QED
  BY <1>2, <1>5, <1>9, <1>10

\* save, also one that is cut short.
LEMMA SaveKeeps ==
  ASSUME IniInv, Ini!Save \/ Ini!SaveStops
  PROVE  IniInv'
<1>1. loaded /\ IsList(lines) /\ IsList(Ini!Written)
  BY WrittenIs DEF IniInv, Ini!Save, Ini!SaveStops
<1>2. CASE Ini!Save
  BY <1>1, <1>2 DEF IniInv, Ini!Save
<1>3. CASE Ini!SaveStops
  <2>1. PICK n \in 0 .. Len(lines) - 1 : text' = SubSeq(Ini!Written, 1, n)
    BY <1>3 DEF Ini!SaveStops
  <2>2. PICK U : Ini!Written \in Seq(U)
    BY <1>1 DEF IsList
  <2>3. Len(Ini!Written) = Len(lines) /\ Len(lines) \in Nat
    <3>1. DOMAIN Ini!Written = DOMAIN lines
      BY DEF Ini!Written
    <3>2. PICK V : lines \in Seq(V)
      BY <1>1 DEF IsList
    <3>3. /\ DOMAIN lines = 1 .. Len(lines) /\ Len(lines) \in Nat
          /\ DOMAIN Ini!Written = 1 .. Len(Ini!Written) /\ Len(Ini!Written) \in Nat
      BY <2>2, <3>2
    <3>. QED
      BY <3>1, <3>3
  <2>4. SubSeq(Ini!Written, 1, n) \in Seq(U)
    <3>1. n \in Nat /\ n <= Len(Ini!Written)
      BY <2>3
    <3>. QED
      BY <2>2, <3>1
  <2>5. IsList(text')
    BY <2>1, <2>4 DEF IsList
  <2>6. CASE lines' = lines /\ index' = index /\ loaded' = loaded
    BY <2>5, <2>6 DEF IniInv
  <2>7. CASE loaded' = FALSE
    BY <2>5, <2>7 DEF IniInv
  <2>. QED
    BY <1>3, <2>6, <2>7 DEF Ini!SaveStops
<1>. QED
  BY <1>2, <1>3

\* GameIni, for any files and any number of sets: as long as no key is there twice,
\* what get answers is what the next load of the saved file will answer.
THEOREM SetsStick == IniSpec => []Ini!SetSticks
<1>1. Ini!IniInit => IniInv
  BY FilesAreLists DEF Ini!IniInit, IniInv, IsList
<1>2. IniInv /\ [Ini!IniNext]_(Ini!iniVars) => IniInv'
  <2>1. CASE UNCHANGED Ini!iniVars
    BY <2>1 DEF IniInv, Ini!iniVars
  <2>. QED
    BY <2>1, LoadKeeps, SetKeeps, SaveKeeps DEF Ini!IniNext
<1>3. IniInv => Ini!SetSticks
  <2>1. SUFFICES ASSUME IniInv, loaded, Ini!NoKeyTwice PROVE Ini!IndexOf(Ini!Written) = index
    BY DEF Ini!SetSticks
  <2>2. IsList(lines) /\ KeysOnce(lines) /\ Indexed(lines, index)
    BY <2>1, OnceIs DEF IniInv
  <2>3. PICK t : t = Ini!Written
    OBVIOUS
  <2>4. /\ IsList(t) /\ Ini!KeyLines(t) = Ini!KeyLines(lines)
        /\ \A i \in Ini!KeyLines(lines) :
             Ini!Place(t, i) = Ini!Place(lines, i) /\ t[i].value = lines[i].value
    BY <2>2, <2>3, WrittenIs
  <2>5. KeysOnce(t)
    BY <2>2, <2>4 DEF KeysOnce
  <2>6. PICK P : P = {Ini!Place(lines, i) : i \in Ini!KeyLines(lines)}
    OBVIOUS
  <2>7. {Ini!Place(t, i) : i \in Ini!KeyLines(t)} = P
    BY <2>4, <2>6
  <2>8. PICK x : x = Ini!IndexOf(t)
    OBVIOUS
  <2>9. x = [p \in P |-> x[p]]
    BY <2>7, <2>8 DEF Ini!IndexOf
  <2>10. index = [p \in P |-> index[p]]
    BY <2>2, <2>6 DEF Indexed
  <2>11. \A i \in Ini!KeyLines(lines) :
           x[Ini!Place(lines, i)] = index[Ini!Place(lines, i)]
    <3>1. TAKE i \in Ini!KeyLines(lines)
    <3>2. x[Ini!Place(t, i)] = t[i].value
      BY <2>4, <2>5, <2>8, IndexIs
    <3>3. index[Ini!Place(lines, i)] = lines[i].value
      BY <2>2 DEF Indexed
    <3>. QED
      BY <2>4, <3>2, <3>3
  <2>12. \A p \in P : x[p] = index[p]
    BY <2>6, <2>11
  <2>13. x = index
    BY <2>9, <2>10, <2>12
  <2>. QED
    BY <2>3, <2>8, <2>13
<1>. QED
  BY <1>1, <1>2, <1>3, PTL DEF IniSpec

(***************************************************************************)
(* What a set leaves alone.                                                *)
(***************************************************************************)

LEMMA FiniteIs ==
  ASSUME NEW n \in Nat, NEW A \in SUBSET (1 .. n)
  PROVE  IsFiniteSet(A)
<1>1. IsFiniteSet(1 .. n)
  BY FS_Interval
<1>. QED
  BY <1>1, FS_Subset

GoesTo(go, A, B) == B = {go[j] : j \in A}

\* Lines that move apart keep their numbers.
LEMMA NumberMoves ==
  ASSUME NEW m, NEW n, NEW go, Spread(go, m, n), NEW A \in SUBSET (1 .. m),
         NEW B, GoesTo(go, A, B), NEW i \in A
  PROVE  Ini!Number(B, go[i]) = Ini!Number(A, i)
<1>. USE DEF GoesTo
<1>1. /\ m \in Nat /\ n \in Nat /\ go \in [1 .. m -> 1 .. n]
      /\ \A a, b \in 1 .. m : a < b => go[a] < go[b]
  BY DEF Spread
<1>2. \A a, b \in 1 .. m : go[a] \in Nat /\ (go[a] <= go[b] <=> a <= b)
                           /\ (go[a] = go[b] => a = b)
  <2>1. TAKE a, b \in 1 .. m
  <2>2. go[a] \in Nat /\ go[b] \in Nat /\ a \in Nat /\ b \in Nat
    BY <1>1
  <2>3. (a < b => go[a] < go[b]) /\ (b < a => go[b] < go[a]) /\ (a = b => go[a] = go[b])
    BY <1>1
  <2>. QED
    BY <2>2, <2>3
<1>3. PICK S : S = {j \in A : j <= i}
  OBVIOUS
<1>4. PICK T : T = {j \in B : j <= go[i]}
  OBVIOUS
<1>5. PICK f : f = [j \in S |-> go[j]]
  OBVIOUS
<1>6. \A j \in S : j \in 1 .. m /\ j \in A /\ j <= i
  BY <1>3
<1>7. \A j \in S : go[j] \in T
  BY <1>2, <1>3, <1>4
<1>8. \A k \in T : \E j \in S : k = go[j]
  <2>1. TAKE k \in T
  <2>2. PICK j \in A : k = go[j]
    BY <1>4
  <2>3. j <= i
    BY <1>2, <1>4, <2>2
  <2>. QED
    BY <1>3, <2>2, <2>3
<1>9. f \in [S -> T] /\ (\A a, b \in S : f[a] = f[b] => a = b) /\ \A k \in T : \E j \in S : f[j] = k
  BY <1>2, <1>5, <1>6, <1>7, <1>8
<1>10. f \in Bijection(S, T)
  BY <1>9 DEF Bijection, Injection, Surjection, IsInjective
<1>11. IsFiniteSet(S)
  <2>1. S \in SUBSET (1 .. m)
    BY <1>6
  <2>. QED
    BY <1>1, <2>1, FiniteIs
<1>12. Cardinality(T) = Cardinality(S)
  BY <1>10, <1>11, FS_Bijection DEF ExistsBijection
<1>. QED
  BY <1>3, <1>4, <1>12 DEF Ini!Number, Ini!Cardinality, Cardinality

\* A changed line is one of the key, before and after.
LEMMA ChangeLeavesRest ==
  ASSUME IsList(lines), WellFiled(lines), NEW s, NEW k, NEW v, Ini!Hits(s, k) # {},
         NEW new, new = LinesWith(s, k, v)
  PROVE  Ini!Rest(new, s, k) = Ini!Rest(lines, s, k)
<1>. USE DEF LinesWith
<1>1. PICK n \in Nat : DOMAIN lines = 1 .. n
  BY DEF IsList
<1>2. PICK h : h = Ini!Min(Ini!Hits(s, k))
  OBVIOUS
<1>3. Ini!Hits(s, k) \subseteq 1 .. n /\ Ini!Hits(s, k) \subseteq Nat
  BY <1>1 DEF Ini!Hits, Ini!KeyLines
<1>4. h \in Ini!Hits(s, k) /\ h \in 1 .. n
  BY <1>2, <1>3, FirstIs
<1>5. h \in Ini!KeyLines(lines) /\ lines[h].in = s /\ Lower[lines[h].name] = k
      /\ lines[h].kind = "key"
  BY <1>4 DEF Ini!Hits, Ini!KeyLines
<1>6. DOMAIN lines[h] = {"kind", "name", "value", "in"}
  BY <1>5 DEF WellFiled
<1>7. DOMAIN new = 1 .. n /\ \A i \in 1 .. n : i # h => new[i] = lines[i]
  BY <1>1, <1>2
<1>8. new[h] = [lines[h] EXCEPT !.value = v]
  BY <1>1, <1>2, <1>4
<1>9. new[h].kind = "key" /\ new[h].name = lines[h].name /\ new[h].in = lines[h].in
  BY <1>5, <1>6, <1>8
<1>10. PICK A : A = Ini!Others(lines, s, k)
  OBVIOUS
<1>11. A \subseteq 1 .. n /\ h \notin A
  BY <1>1, <1>5, <1>10 DEF Ini!Others
<1>12. Ini!Others(new, s, k) = A
  <2>1. \A i \in 1 .. n : i \in Ini!Others(new, s, k) <=> i \in A
    <3>1. TAKE i \in 1 .. n
    <3>2. CASE i = h
      BY <1>5, <1>9, <1>11, <3>2 DEF Ini!Others
    <3>3. CASE i # h
      BY <1>1, <1>7, <1>10, <3>3 DEF Ini!Others
    <3>. QED
      BY <3>2, <3>3
  <2>2. Ini!Others(new, s, k) \subseteq 1 .. n
    BY <1>7 DEF Ini!Others
  <2>. QED
    BY <1>11, <2>1, <2>2
<1>13. \A i \in A : new[i] = lines[i]
  BY <1>7, <1>11
<1>14. Ini!Rest(new, s, k) = {<<Ini!Number(A, i), new[i]>> : i \in A}
  BY <1>12 DEF Ini!Rest
<1>15. Ini!Rest(lines, s, k) = {<<Ini!Number(A, i), lines[i]>> : i \in A}
  BY <1>10 DEF Ini!Rest
<1>16. \A i \in A : <<Ini!Number(A, i), new[i]>> = <<Ini!Number(A, i), lines[i]>>
  BY <1>13
<1>17. PICK L : L = {<<Ini!Number(A, i), new[i]>> : i \in A}
  OBVIOUS
<1>18. PICK R : R = {<<Ini!Number(A, i), lines[i]>> : i \in A}
  OBVIOUS
<1>19. \A x \in L : x \in R
  BY <1>16, <1>17, <1>18
<1>20. \A x \in R : x \in L
  <2>1. TAKE x \in R
  <2>2. PICK i \in A : x = <<Ini!Number(A, i), lines[i]>>
    BY <1>18
  <2>3. x = <<Ini!Number(A, i), new[i]>>
    BY <1>16, <2>2
  <2>. QED
    BY <1>17, <2>3
<1>21. L = R
  BY <1>19, <1>20
<1>. QED
  BY <1>14, <1>15, <1>17, <1>18, <1>21

\* An inserted line is one of the key, and the others keep their order.
LEMMA InsertLeavesRest ==
  ASSUME IsList(lines), NEW m \in Nat, DOMAIN lines = 1 .. m, NEW s, NEW k,
         NEW q \in 1 .. m + 1, NEW e, e.kind = "key", e.in = s, Lower[e.name] = k,
         NEW new, new = Ini!InsertAt(lines, q, e)
  PROVE  Ini!Rest(new, s, k) = Ini!Rest(lines, s, k)
<1>1. PICK go : go = [i \in 1 .. m |-> IF i < q THEN i ELSE i + 1]
  OBVIOUS
<1>2. /\ DOMAIN new = 1 .. m + 1 /\ new[q] = e
      /\ \A i \in 1 .. m : i < q => new[i] = lines[i]
      /\ \A i \in 1 .. m : i >= q => new[i + 1] = lines[i]
  BY InsertIs
<1>3. \A i \in 1 .. m : /\ i < q => go[i] = i
                        /\ i >= q => go[i] = i + 1
  BY <1>1
<1>4. \A i \in 1 .. m : go[i] \in 1 .. m + 1 /\ go[i] # q /\ new[go[i]] = lines[i]
  <2>1. TAKE i \in 1 .. m
  <2>2. CASE i < q
    BY <1>2, <1>3, <2>2
  <2>3. CASE i >= q
    BY <1>2, <1>3, <2>3
  <2>. QED
    BY <2>2, <2>3
<1>5. \A j \in 1 .. m + 1 : j = q \/ \E i \in 1 .. m : j = go[i]
  <2>1. TAKE j \in 1 .. m + 1
  <2>2. CASE j < q
    BY <1>3, <2>2
  <2>3. CASE j > q
    <3>1. j - 1 \in 1 .. m /\ j - 1 >= q /\ (j - 1) + 1 = j
      BY <2>3
    <3>. QED
      BY <1>3, <3>1
  <2>. QED
    BY <2>2, <2>3
<1>6. Spread(go, m, m + 1)
  <2>1. go \in [1 .. m -> 1 .. m + 1]
    BY <1>1, <1>4
  <2>2. \A i, j \in 1 .. m : i < j => go[i] < go[j]
    <3>1. TAKE i, j \in 1 .. m
    <3>2. (go[i] = i \/ go[i] = i + 1) /\ (go[j] = j \/ go[j] = j + 1)
          /\ (go[i] = i + 1 => i >= q) /\ (j >= q => go[j] = j + 1)
      BY <1>3
    <3>. QED
      BY <3>2
  <2>. QED
    BY <2>1, <2>2 DEF Spread
<1>7. PICK A : A = Ini!Others(lines, s, k)
  OBVIOUS
<1>8. PICK B : B = Ini!Others(new, s, k)
  OBVIOUS
<1>9. A \in SUBSET (1 .. m)
  BY <1>7 DEF Ini!Others
<1>10. \A i \in A : go[i] \in B
  BY <1>2, <1>4, <1>7, <1>8, <1>9 DEF Ini!Others
<1>11. \A j \in B : \E i \in A : j = go[i]
  <2>1. TAKE j \in B
  <2>2. j \in 1 .. m + 1 /\ j # q
    BY <1>2, <1>8 DEF Ini!Others
  <2>3. PICK i \in 1 .. m : j = go[i]
    BY <1>5, <2>2
  <2>4. i \in A
    BY <1>4, <1>7, <1>8, <2>3 DEF Ini!Others
  <2>. QED
    BY <2>3, <2>4
<1>12. GoesTo(go, A, B)
  <2>1. B = {go[i] : i \in A}
    BY <1>10, <1>11
  <2>. QED
    BY <2>1 DEF GoesTo
<1>13. \A i \in A : Ini!Number(B, go[i]) = Ini!Number(A, i)
  <2>1. TAKE i \in A
  <2>. QED
    BY <1>6, <1>9, <1>12, <2>1, NumberMoves
<1>14. PICK R : R = {<<Ini!Number(A, i), lines[i]>> : i \in A}
  OBVIOUS
<1>15. {<<Ini!Number(B, j), new[j]>> : j \in B} = R
  <2>1. \A i \in A : <<Ini!Number(B, go[i]), new[go[i]]>> = <<Ini!Number(A, i), lines[i]>>
    BY <1>4, <1>9, <1>13
  <2>2. \A j \in B : <<Ini!Number(B, j), new[j]>> \in R
    <3>1. TAKE j \in B
    <3>2. PICK i \in A : j = go[i]
      BY <1>11
    <3>. QED
      BY <1>14, <2>1, <3>2
  <2>3. \A r \in R : \E j \in B : r = <<Ini!Number(B, j), new[j]>>
    <3>1. TAKE r \in R
    <3>2. PICK i \in A : r = <<Ini!Number(A, i), lines[i]>>
      BY <1>14
    <3>. QED
      BY <1>10, <2>1, <3>2
  <2>. QED
    BY <2>2, <2>3
<1>16. Ini!Rest(new, s, k) = {<<Ini!Number(B, j), new[j]>> : j \in B}
  BY <1>8 DEF Ini!Rest
<1>17. Ini!Rest(lines, s, k) = R
  BY <1>7, <1>14 DEF Ini!Rest
<1>. QED
  BY <1>15, <1>16, <1>17

\* A new section adds its header and the key.
LEMMA AppendLeavesRest ==
  ASSUME IsList(lines), NEW section, NEW key, NEW v, NEW s, s = Lower[section],
         NEW k, k = Lower[key], NEW new, new = LinesAnd(section, key, v)
  PROVE  Ini!Rest(new, s, k) =
           Ini!Rest(lines, s, k)
             \cup {<<Ini!Cardinality(Ini!Others(lines, s, k)) + 1, Ini!Header(section)>>}
<1>1. PICK m \in Nat : DOMAIN lines = 1 .. m
  BY DEF IsList
<1>2. PICK e : e = Ini!Within(Ini!Line(key, v), s)
  OBVIOUS
<1>3. e.kind = "key" /\ e.name = key /\ e.in = s
  BY <1>2 DEF Ini!Within, Ini!Line
<1>4. PICK d : d = Ini!Header(section)
  OBVIOUS
<1>5. d.kind = "section"
  BY <1>4 DEF Ini!Header
<1>6. /\ DOMAIN new = 1 .. m + 2 /\ new[m + 1] = d /\ new[m + 2] = e
      /\ \A i \in 1 .. m : new[i] = lines[i]
  <2>1. PICK U : lines \in Seq(U)
    BY DEF IsList
  <2>2. PICK V : V = U \cup {d, e}
    OBVIOUS
  <2>3. lines \in Seq(V) /\ Len(lines) = m /\ <<d, e>> \in Seq(V) /\ Len(<<d, e>>) = 2
    BY <1>1, <2>1, <2>2
  <2>4. new = lines \o <<d, e>>
    BY <1>2, <1>4 DEF LinesAnd
  <2>5. new \in Seq(V) /\ Len(new) = m + 2
    BY <2>3, <2>4
  <2>6. /\ new[m + 1] = d /\ new[m + 2] = e
        /\ \A i \in 1 .. m : new[i] = lines[i]
    BY <1>1, <2>3, <2>4
  <2>. QED
    BY <2>5, <2>6
<1>7. PICK A : A = Ini!Others(lines, s, k)
  OBVIOUS
<1>8. PICK B : B = Ini!Others(new, s, k)
  OBVIOUS
<1>9. A \in SUBSET (1 .. m) /\ m + 1 \notin A
  BY <1>1, <1>7 DEF Ini!Others
<1>10. B = A \cup {m + 1}
  <2>1. B \subseteq 1 .. m + 2 /\ m + 1 \in B /\ m + 2 \notin B
    BY <1>3, <1>5, <1>6, <1>8 DEF Ini!Others
  <2>2. \A i \in 1 .. m : i \in B <=> i \in A
    BY <1>1, <1>6, <1>7, <1>8 DEF Ini!Others
  <2>3. \A i \in 1 .. m + 2 : i \in 1 .. m \/ i = m + 1 \/ i = m + 2
    OBVIOUS
  <2>. QED
    BY <1>9, <2>1, <2>2, <2>3
<1>11. \A i \in A : Ini!Number(B, i) = Ini!Number(A, i)
  <2>1. TAKE i \in A
  <2>2. {j \in B : j <= i} = {j \in A : j <= i}
    <3>1. i \in 1 .. m /\ ~ (m + 1 <= i)
      BY <1>9, <2>1
    <3>. QED
      BY <1>10, <3>1
  <2>. QED
    BY <2>2 DEF Ini!Number
<1>12. Ini!Number(B, m + 1) = Ini!Cardinality(A) + 1
  <2>1. {j \in B : j <= m + 1} = A \cup {m + 1}
    <3>1. \A j \in B : j <= m + 1
      BY <1>9, <1>10
    <3>. QED
      BY <1>10, <3>1
  <2>2. IsFiniteSet(A)
    BY <1>9, FiniteIs
  <2>3. Cardinality(A \cup {m + 1}) = Cardinality(A) + 1
    BY <1>9, <2>2, FS_AddElement
  <2>. QED
    BY <2>1, <2>3 DEF Ini!Number, Ini!Cardinality, Cardinality
<1>13. {<<Ini!Number(B, j), new[j]>> : j \in B} =
         {<<Ini!Number(A, i), lines[i]>> : i \in A} \cup {<<Ini!Cardinality(A) + 1, d>>}
  <2>1. \A i \in A : <<Ini!Number(B, i), new[i]>> = <<Ini!Number(A, i), lines[i]>>
    BY <1>6, <1>9, <1>11
  <2>2. <<Ini!Number(B, m + 1), new[m + 1]>> = <<Ini!Cardinality(A) + 1, d>>
    BY <1>6, <1>12
  <2>. QED
    BY <1>10, <2>1, <2>2
<1>14. Ini!Rest(new, s, k) = {<<Ini!Number(B, j), new[j]>> : j \in B}
  BY <1>8 DEF Ini!Rest
<1>15. Ini!Rest(lines, s, k) = {<<Ini!Number(A, i), lines[i]>> : i \in A}
  BY <1>7 DEF Ini!Rest
<1>. QED
  BY <1>4, <1>7, <1>13, <1>14, <1>15

\* GameIni, for any files: a set touches the lines of its own key alone, and may add a
\* header at the end; comments, blanks and every other key stay, in their order.
THEOREM SetsLeaveOthers == IniSpec => [][Ini!OthersStayStep]_(Ini!iniVars)
<1>1. Ini!IniInit => IniInv
  BY FilesAreLists DEF Ini!IniInit, IniInv, IsList
<1>2. IniInv /\ [Ini!IniNext]_(Ini!iniVars) => IniInv'
  <2>1. CASE UNCHANGED Ini!iniVars
    BY <2>1 DEF IniInv, Ini!iniVars
  <2>. QED
    BY <2>1, LoadKeeps, SetKeeps, SaveKeeps DEF Ini!IniNext
<1>3. IniInv /\ [Ini!IniNext]_(Ini!iniVars) => [Ini!OthersStayStep]_(Ini!iniVars)
  <2>1. SUFFICES ASSUME IniInv, Ini!SetKey PROVE Ini!OthersStayStep
    BY DEF Ini!IniNext, Ini!Load, Ini!Save, Ini!SaveStops, Ini!OthersStayStep, Ini!iniVars
  <2>2. PICK section \in Sections, key \in Keys, v \in Values :
          lines' = Ini!WithKey(section, key, v)
    BY <2>1 DEF Ini!SetKey
  <2>3. IsList(lines) /\ WellFiled(lines)
    BY <2>1 DEF IniInv, Ini!SetKey
  <2>4. PICK m \in Nat : DOMAIN lines = 1 .. m
    BY <2>3 DEF IsList
  <2>5. PICK s : s = Lower[section]
    OBVIOUS
  <2>6. PICK k : k = Lower[key]
    OBVIOUS
  <2>7. PICK new : new = Ini!WithKey(section, key, v)
    OBVIOUS
  <2>8. PICK next : next = Ini!Cardinality(Ini!Others(lines, s, k)) + 1
    OBVIOUS
  <2>9. SUFFICES Ini!Rest(new, s, k) \in
                   {Ini!Rest(lines, s, k),
                    Ini!Rest(lines, s, k) \cup {<<next, Ini!Header(section)>>}}
    BY <2>2, <2>5, <2>6, <2>7, <2>8 DEF Ini!OthersStayStep
  <2>10. CASE Ini!Hits(s, k) # {}
    <3>1. new = LinesWith(s, k, v)
      BY <2>5, <2>6, <2>7, <2>10 DEF Ini!WithKey, LinesWith
    <3>. QED
      BY <2>3, <2>10, <3>1, ChangeLeavesRest
  <2>11. CASE Ini!Hits(s, k) = {} /\ Ini!Heads(s) # {}
    <3>1. PICK q : q = Ini!LastLineOfSection(s) + 1
      OBVIOUS
    <3>2. PICK e : e = Ini!Within(Ini!Line(key, v), s)
      OBVIOUS
    <3>3. e.kind = "key" /\ e.in = s /\ Lower[e.name] = k
      BY <2>6, <3>2 DEF Ini!Within, Ini!Line
    <3>4. q \in 1 .. m + 1
      BY <2>3, <2>4, <2>11, <3>1, PlaceOfLine
    <3>5. new = Ini!InsertAt(lines, q, e)
      BY <2>5, <2>6, <2>7, <2>11, <3>1, <3>2 DEF Ini!WithKey
    <3>6. Ini!Rest(new, s, k) = Ini!Rest(lines, s, k)
      BY <2>3, <2>4, <3>3, <3>4, <3>5, InsertLeavesRest
    <3>. QED
      BY <3>6
  <2>12. CASE Ini!Hits(s, k) = {} /\ Ini!Heads(s) = {}
    <3>1. new = LinesAnd(section, key, v)
      BY <2>5, <2>6, <2>7, <2>12 DEF Ini!WithKey, LinesAnd
    <3>. QED
      BY <2>3, <2>5, <2>6, <2>8, <3>1, AppendLeavesRest
  <2>. QED
    BY <2>10, <2>11, <2>12
<1>. QED
  BY <1>1, <1>2, <1>3, PTL DEF IniSpec

(***************************************************************************)
(* WineRegistry: the reader and the writer of user.reg.                    *)
(***************************************************************************)

RegSpec == Registry!RegInit /\ [][Registry!RegNext]_(Registry!regVars)

\* What is written is what write_dll_overrides makes of the file.
RegInv ==
  /\ IsList(reg)
  /\ regTmp = <<>> \/ regTmp = Registry!WithOverrides(reg)

LEMMA SameExtremes ==
  ASSUME NEW S
  PROVE  /\ Registry!Max(S) = Ini!Max(S) /\ Registry!Min(S) = Ini!Min(S)
         /\ Registry!Cardinality(S) = Cardinality(S)
BY DEF Registry!Max, Ini!Max, Registry!Min, Ini!Min, Registry!Cardinality, Cardinality

Counted(S, c) ==
  /\ c \in Nat /\ (S = {} => c = 0)
  /\ \A i \in S : Cardinality({j \in S : j <= i}) \in 1 .. c
  /\ \A i, k \in S :
       Cardinality({j \in S : j <= i}) = Cardinality({j \in S : j <= k}) => i = k
  /\ \A k \in 1 .. c : \E i \in S : Cardinality({j \in S : j <= i}) = k

\* The members of a set of positions are counted from 1 on, each by a number of its own.
LEMMA Counting ==
  ASSUME NEW n \in Nat, NEW S \in SUBSET (1 .. n)
  PROVE  Counted(S, Cardinality(S))
<1>0. PICK c : c = Cardinality(S)
  OBVIOUS
<1>1. IsFiniteSet(S) /\ c \in Nat /\ (S = {} => c = 0)
  BY <1>0, FiniteIs, FS_CardinalityType, FS_EmptySet
<1>2. PICK f : f = [i \in S |-> Cardinality({j \in S : j <= i})]
  OBVIOUS
<1>3. \A i \in S : f[i] = Cardinality({j \in S : j <= i})
  BY <1>2
<1>4. \A i \in S : IsFiniteSet({j \in S : j <= i}) /\ f[i] \in Nat /\ f[i] <= c /\ f[i] # 0
  <2>1. TAKE i \in S
  <2>2. {j \in S : j <= i} \in SUBSET S /\ i \in {j \in S : j <= i}
    OBVIOUS
  <2>3. IsFiniteSet({j \in S : j <= i}) /\ Cardinality({j \in S : j <= i}) <= c
    BY <1>0, <1>1, <2>2, FS_Subset
  <2>4. Cardinality({j \in S : j <= i}) \in Nat /\ Cardinality({j \in S : j <= i}) # 0
    BY <2>2, <2>3, FS_CardinalityType, FS_EmptySet
  <2>. QED
    BY <1>3, <2>3, <2>4
<1>5. \A i, k \in S : i < k => f[i] # f[k]
  <2>1. SUFFICES ASSUME NEW i \in S, NEW k \in S, i < k PROVE f[i] # f[k]
    OBVIOUS
  <2>2. PICK A : A = {j \in S : j <= i}
    OBVIOUS
  <2>3. PICK B : B = {j \in S : j <= k}
    OBVIOUS
  <2>4. A \in SUBSET B /\ k \in B /\ k \notin A
    <3>1. \A j \in S : j \in Nat
      OBVIOUS
    <3>2. i \in Nat /\ k \in Nat /\ k <= k /\ ~ (k <= i)
      BY <2>1, <3>1
    <3>3. \A j \in S : j <= i => j <= k
      BY <2>1, <3>1, <3>2
    <3>. QED
      BY <2>2, <2>3, <3>2, <3>3
  <2>5. IsFiniteSet(B) /\ f[i] = Cardinality(A) /\ f[k] = Cardinality(B)
    BY <1>3, <1>4, <2>2, <2>3
  <2>. QED
    BY <2>4, <2>5, FS_Subset
<1>6. \A i, k \in S : f[i] = f[k] => i = k
  <2>1. TAKE i, k \in S
  <2>2. i < k \/ i = k \/ k < i
    OBVIOUS
  <2>. QED
    BY <1>5, <2>2
<1>7. \A i \in S : f[i] \in 1 .. c
  <2>1. TAKE i \in S
  <2>2. f[i] \in Nat /\ f[i] <= c /\ f[i] # 0 /\ c \in Nat
    BY <1>1, <1>4
  <2>. QED
    BY <2>2
<1>8. f \in [S -> 1 .. c]
  BY <1>2, <1>3, <1>7
<1>9. f \in Injection(S, 1 .. c)
  BY <1>6, <1>8 DEF Injection, IsInjective
<1>10. IsFiniteSet(1 .. c) /\ Cardinality(1 .. c) = c
  <2>1. c \in Int /\ 1 \in Int
    BY <1>1
  <2>2. IsFiniteSet(1 .. c) /\ Cardinality(1 .. c) = IF 1 > c THEN 0 ELSE c - 1 + 1
    BY <2>1, FS_Interval
  <2>. QED
    BY <1>1, <2>2
<1>11. f \in Surjection(S, 1 .. c)
  BY <1>0, <1>9, <1>10, FS_Injection
<1>12. \A k \in 1 .. c : \E i \in S : f[i] = k
  BY <1>11 DEF Surjection
<1>. QED
  BY <1>0, <1>1, <1>3, <1>6, <1>7, <1>12 DEF Counted

LinesOf(b, places) ==
  /\ IsList(b) /\ \E c \in Nat : DOMAIN b = 1 .. c
  /\ \A j \in DOMAIN b : \E i \in places : b[j] = Registry!Value(Dlls[i], Native)
  /\ \A i \in places : \E j \in DOMAIN b : b[j] = Registry!Value(Dlls[i], Native)

\* The lines for some DLLs are a list of them.
LEMMA LinesForAre ==
  ASSUME NEW n \in Nat, NEW places \in SUBSET (1 .. n)
  PROVE  LinesOf(Registry!LinesFor(places), places)
<1>0. PICK b : b = Registry!LinesFor(places)
  OBVIOUS
<1>1. PICK c : c = Cardinality(places)
  OBVIOUS
<1>2. /\ c \in Nat /\ (places = {} => c = 0)
      /\ \A i \in places : Cardinality({j \in places : j <= i}) \in 1 .. c
      /\ \A i, k \in places : Cardinality({j \in places : j <= i})
                                = Cardinality({j \in places : j <= k}) => i = k
      /\ \A k \in 1 .. c : \E i \in places : Cardinality({j \in places : j <= i}) = k
  BY <1>1, Counting DEF Counted
<1>3. PICK nth : nth = [k \in 1 .. c |->
                          CHOOSE i \in places : Cardinality({j \in places : j <= i}) = k]
  OBVIOUS
<1>4. \A k \in 1 .. c : nth[k] \in places
                        /\ Cardinality({j \in places : j <= nth[k]}) = k
  BY <1>2, <1>3
<1>5. \A i \in places : \E k \in 1 .. c : nth[k] = i
  <2>1. TAKE i \in places
  <2>2. PICK k \in 1 .. c : k = Cardinality({j \in places : j <= i})
    BY <1>2
  <2>. QED
    BY <1>2, <1>4, <2>2
<1>6. b = [k \in 1 .. c |-> Registry!Value(Dlls[nth[k]], Native)]
  BY <1>0, <1>1, <1>3 DEF Registry!LinesFor, Registry!Cardinality, Cardinality
<1>7. DOMAIN b = 1 .. c /\ \A k \in 1 .. c : b[k] = Registry!Value(Dlls[nth[k]], Native)
  BY <1>6
<1>8. b = [k \in 1 .. c |-> b[k]]
  BY <1>6
<1>9. IsList(b)
  BY <1>2, <1>8, ListIs
<1>. QED
  BY <1>0, <1>2, <1>4, <1>5, <1>7, <1>9 DEF LinesOf

\* The lines that begin a key up to a line are those that were there.
SameOpens(old, new, go, i) ==
  /\ \A j \in 1 .. i : Registry!Opens(old[j]) => new[go[j]] = old[j]
  /\ \A k \in 1 .. go[i] : Registry!Opens(new[k]) =>
       \E j \in 1 .. i : k = go[j] /\ Registry!Opens(old[j])

\* A line is in the key of the last one that begins a key.
LEMMA KeyIs ==
  ASSUME NEW t, NEW i \in Nat, NEW a \in 1 .. i, Registry!Opens(t[a]),
         \A j \in 1 .. i : Registry!Opens(t[j]) => j <= a
  PROVE  Registry!KeyAt(t, i) = IF t[a].kind = "removal" THEN Nowhere ELSE t[a].key
<1>1. PICK H : H = {j \in 1 .. i : Registry!Opens(t[j])}
  OBVIOUS
<1>2. H \in SUBSET (1 .. i) /\ a \in H /\ \A j \in H : j <= a
  BY <1>1
<1>3. Ini!Max(H) = a
  BY <1>2, LastIs
<1>4. Registry!Max(H) = a /\ H # {}
  BY <1>2, <1>3, SameExtremes
<1>. QED
  BY <1>1, <1>4 DEF Registry!KeyAt

LEMMA KeysMove ==
  ASSUME NEW old, NEW new, NEW m, NEW n, NEW go, Spread(go, m, n),
         NEW i \in 1 .. m, SameOpens(old, new, go, i)
  PROVE  Registry!KeyAt(new, go[i]) = Registry!KeyAt(old, i)
<1>1. /\ m \in Nat /\ n \in Nat /\ go \in [1 .. m -> 1 .. n]
      /\ \A a, b \in 1 .. m : a < b => go[a] < go[b]
  BY DEF Spread
<1>2. /\ \A j \in 1 .. i : Registry!Opens(old[j]) => new[go[j]] = old[j]
      /\ \A k \in 1 .. go[i] : Registry!Opens(new[k]) =>
           \E j \in 1 .. i : k = go[j] /\ Registry!Opens(old[j])
  BY DEF SameOpens
<1>3. \A a, b \in 1 .. m : a <= b => go[a] <= go[b] /\ go[a] \in 1 .. go[b] /\ go[b] \in Nat
  <2>1. SUFFICES ASSUME NEW a \in 1 .. m, NEW b \in 1 .. m, a <= b
                 PROVE  go[a] <= go[b] /\ go[a] \in 1 .. go[b] /\ go[b] \in Nat
    OBVIOUS
  <2>2. go[a] \in 1 .. n /\ go[b] \in 1 .. n /\ go[a] \in Nat /\ go[b] \in Nat
    BY <1>1
  <2>3. go[a] <= go[b]
    <3>1. CASE a = b
      BY <2>2, <3>1
    <3>2. CASE a < b
      BY <1>1, <2>2, <3>2
    <3>. QED
      BY <2>1, <3>1, <3>2
  <2>. QED
    BY <2>2, <2>3
<1>4. PICK H : H = {j \in 1 .. i : Registry!Opens(old[j])}
  OBVIOUS
<1>5. i \in Nat /\ H \in SUBSET (1 .. i) /\ \A j \in 1 .. i : j \in 1 .. m
  BY <1>1, <1>4
<1>6. CASE H = {}
  <2>1. {k \in 1 .. go[i] : Registry!Opens(new[k])} = {}
    BY <1>2, <1>4, <1>6
  <2>. QED
    BY <1>4, <1>6, <2>1 DEF Registry!KeyAt
<1>7. CASE H # {}
  <2>1. PICK h : h = Ini!Max(H)
    OBVIOUS
  <2>2. h \in H /\ \A j \in H : j <= h
    BY <1>5, <1>7, <2>1, LastPosition
  <2>3. h \in 1 .. i /\ h \in 1 .. m /\ i \in 1 .. m /\ h <= i /\ Registry!Opens(old[h])
    BY <1>4, <1>5, <2>2
  <2>4. new[go[h]] = old[h] /\ go[h] \in 1 .. go[i] /\ go[i] \in Nat
    BY <1>2, <1>3, <2>3
  <2>5. \A k \in 1 .. go[i] : Registry!Opens(new[k]) => k <= go[h]
    <3>1. SUFFICES ASSUME NEW k \in 1 .. go[i], Registry!Opens(new[k]) PROVE k <= go[h]
      OBVIOUS
    <3>2. PICK j \in 1 .. i : k = go[j] /\ Registry!Opens(old[j])
      BY <1>2, <3>1
    <3>3. j \in H /\ j \in 1 .. m
      BY <1>4, <1>5, <3>2
    <3>. QED
      BY <1>3, <2>2, <2>3, <3>2, <3>3
  <2>6. Registry!KeyAt(old, i) = IF old[h].kind = "removal" THEN Nowhere ELSE old[h].key
    <3>1. \A j \in 1 .. i : Registry!Opens(old[j]) => j <= h
      BY <1>4, <2>2
    <3>. QED
      BY <1>5, <2>3, <3>1, KeyIs
  <2>7. Registry!Opens(new[go[h]])
    BY <2>3, <2>4
  <2>8. Registry!KeyAt(new, go[i])
          = IF new[go[h]].kind = "removal" THEN Nowhere ELSE new[go[h]].key
    BY <2>4, <2>5, <2>7, KeyIs
  <2>. QED
    BY <2>4, <2>6, <2>8
<1>. QED
  BY <1>6, <1>7

LEMMA ListDomain ==
  ASSUME NEW t, IsList(t)
  PROVE  /\ Len(t) \in Nat /\ DOMAIN t = 1 .. Len(t)
         /\ t = [i \in 1 .. Len(t) |-> t[i]]
BY DEF IsList

\* Lists with the same lines are the same.
LEMMA SameLists ==
  ASSUME NEW s, NEW t, IsList(s), IsList(t), NEW n, DOMAIN s = 1 .. n, DOMAIN t = 1 .. n,
         \A i \in 1 .. n : s[i] = t[i]
  PROVE  s = t
<1>1. s = [i \in 1 .. n |-> s[i]] /\ t = [i \in 1 .. n |-> t[i]]
  BY ListDomain
<1>. QED
  BY <1>1

Concat(z, s, t) == z = s \o t

LEMMA ConcatIs ==
  ASSUME NEW s, IsList(s), NEW t, IsList(t), NEW z, Concat(z, s, t)
  PROVE  /\ IsList(z) /\ Len(z) = Len(s) + Len(t)
         /\ \A i \in 1 .. Len(s) : z[i] = s[i]
         /\ \A j \in 1 .. Len(t) : z[Len(s) + j] = t[j]
<1>. USE DEF Concat
<1>1. PICK U : s \in Seq(U)
  BY DEF IsList
<1>2. PICK W : t \in Seq(W)
  BY DEF IsList
<1>3. PICK V : V = U \cup W
  OBVIOUS
<1>4. s \in Seq(V) /\ t \in Seq(V)
  BY <1>1, <1>2, <1>3
<1>5. s \o t \in Seq(V) /\ Len(s \o t) = Len(s) + Len(t)
  BY <1>4
<1>6. \A i \in 1 .. Len(s) : (s \o t)[i] = s[i]
  BY <1>4
<1>7. \A j \in 1 .. Len(t) : (s \o t)[Len(s) + j] = t[j]
  BY <1>4
<1>. QED
  BY <1>5, <1>6, <1>7 DEF IsList

LEMMA SubSeqIs ==
  ASSUME NEW t, IsList(t), NEW m, m = Len(t), NEW i \in 1 .. m + 1, NEW k \in 0 .. m,
         i <= k + 1
  PROVE  /\ IsList(SubSeq(t, i, k)) /\ Len(SubSeq(t, i, k)) = k - i + 1
         /\ \A j \in 1 .. k - i + 1 : SubSeq(t, i, k)[j] = t[i + j - 1]
<1>1. PICK U : t \in Seq(U)
  BY DEF IsList
<1>2. SubSeq(t, i, k) \in Seq(U) /\ Len(SubSeq(t, i, k)) = k - i + 1
  BY <1>1
<1>3. \A j \in 1 .. k - i + 1 : SubSeq(t, i, k)[j] = t[i + j - 1]
  BY <1>1
<1>. QED
  BY <1>2, <1>3 DEF IsList

Joined(t, e, b) == SubSeq(t, 1, e - 1) \o b \o SubSeq(t, e, Len(t))

\* Lines that come between.
LEMMA BlockIs ==
  ASSUME NEW t, IsList(t), NEW m \in Nat, DOMAIN t = 1 .. m, NEW e \in 1 .. m + 1,
         NEW b, IsList(b), NEW c \in Nat, DOMAIN b = 1 .. c,
         NEW new, new = Joined(t, e, b)
  PROVE  /\ IsList(new) /\ DOMAIN new = 1 .. m + c
         /\ \A i \in 1 .. m : i < e => new[i] = t[i]
         /\ \A i \in 1 .. m : i >= e => new[i + c] = t[i]
         /\ \A j \in 1 .. c : new[e - 1 + j] = b[j]
<1>1. Len(t) = m /\ Len(b) = c
  BY ListDomain
<1>2. PICK x : x = SubSeq(t, 1, e - 1)
  OBVIOUS
<1>3. PICK y : y = SubSeq(t, e, m)
  OBVIOUS
<1>4. IsList(x) /\ Len(x) = e - 1 /\ \A i \in 1 .. e - 1 : x[i] = t[i]
  <2>1. e - 1 \in 0 .. m /\ 1 \in 1 .. m + 1 /\ 1 <= (e - 1) + 1
    OBVIOUS
  <2>2. /\ IsList(x) /\ Len(x) = (e - 1) - 1 + 1
        /\ \A j \in 1 .. (e - 1) - 1 + 1 : x[j] = t[1 + j - 1]
    BY <1>1, <1>2, <2>1, SubSeqIs
  <2>3. (e - 1) - 1 + 1 = e - 1 /\ \A j \in 1 .. e - 1 : 1 + j - 1 = j
    OBVIOUS
  <2>. QED
    BY <2>2, <2>3
<1>5. IsList(y) /\ Len(y) = m - e + 1 /\ \A j \in 1 .. m - e + 1 : y[j] = t[e + j - 1]
  <2>1. m \in 0 .. m /\ e <= m + 1
    OBVIOUS
  <2>. QED
    BY <1>1, <1>3, <2>1, SubSeqIs
<1>6. PICK z : Concat(z, x, b)
  BY DEF Concat
<1>7. /\ IsList(z) /\ Len(z) = e - 1 + c
      /\ \A i \in 1 .. e - 1 : z[i] = t[i]
      /\ \A j \in 1 .. c : z[e - 1 + j] = b[j]
  <2>1. /\ IsList(z) /\ Len(z) = Len(x) + Len(b)
        /\ \A i \in 1 .. Len(x) : z[i] = x[i]
        /\ \A j \in 1 .. Len(b) : z[Len(x) + j] = b[j]
    <3>1. IsList(x) /\ IsList(b)
      BY <1>4
    <3>. QED
      BY <1>6, <3>1, ConcatIs
  <2>. QED
    BY <1>1, <1>4, <2>1
<1>8. Concat(new, z, y)
  BY <1>1, <1>2, <1>3, <1>6 DEF Joined, Concat
<1>9. /\ IsList(new) /\ Len(new) = Len(z) + Len(y)
      /\ \A i \in 1 .. Len(z) : new[i] = z[i]
      /\ \A j \in 1 .. Len(y) : new[Len(z) + j] = y[j]
  <2>1. IsList(z) /\ IsList(y)
    BY <1>5, <1>7
  <2>. QED
    BY <1>8, <2>1, ConcatIs
<1>10. DOMAIN new = 1 .. m + c
  <2>1. DOMAIN new = 1 .. Len(new) /\ Len(new) = m + c
    BY <1>5, <1>7, <1>9, ListDomain
  <2>. QED
    BY <2>1
<1>11. \A i \in 1 .. m : i < e => new[i] = t[i]
  <2>1. SUFFICES ASSUME NEW i \in 1 .. m, i < e PROVE new[i] = t[i]
    OBVIOUS
  <2>2. i \in 1 .. e - 1 /\ i \in 1 .. Len(z)
    BY <1>7, <2>1
  <2>. QED
    BY <1>7, <1>9, <2>2
<1>12. \A j \in 1 .. c : new[e - 1 + j] = b[j]
  <2>1. TAKE j \in 1 .. c
  <2>2. e - 1 + j \in 1 .. Len(z)
    BY <1>7, <2>1
  <2>. QED
    BY <1>7, <1>9, <2>2
<1>13. \A i \in 1 .. m : i >= e => new[i + c] = t[i]
  <2>1. SUFFICES ASSUME NEW i \in 1 .. m, i >= e PROVE new[i + c] = t[i]
    OBVIOUS
  <2>2. PICK j : j = i - e + 1
    OBVIOUS
  <2>3. j \in 1 .. Len(y) /\ j \in 1 .. m - e + 1 /\ i + c = Len(z) + j /\ e + j - 1 = i
    BY <1>5, <1>7, <2>1, <2>2
  <2>4. new[Len(z) + j] = y[j] /\ y[j] = t[e + j - 1]
    BY <1>5, <1>9, <2>3
  <2>. QED
    BY <2>3, <2>4
<1>. QED
  BY <1>9, <1>10, <1>11, <1>12, <1>13

\* The section of the overrides: its header at a, the next line with a bracket at e.
Section(t, m, a, e) ==
  /\ m \in Nat /\ a \in 1 .. m /\ e \in a + 1 .. m + 1
  /\ t[a] = Registry!Plain(Overrides)
  /\ \A j \in 1 .. m : j < a => t[j] # Registry!Plain(Overrides)
  /\ \A j \in 1 .. m : a < j /\ j < e => ~ Registry!Opens(t[j])
  /\ e \in 1 .. m => Registry!Opens(t[e])

LEMMA PlainOpens == Registry!Opens(Registry!Plain(Overrides))
BY DEF Registry!Opens, Registry!Plain

LEMMA SectionOf ==
  ASSUME NEW t, IsList(t), NEW m \in Nat, DOMAIN t = 1 .. m, Registry!Starts(t) # {}
  PROVE  Section(t, m, Registry!Min(Registry!Starts(t)), Registry!SectionEnd(t))
<1>1. PICK a : a = Registry!Min(Registry!Starts(t))
  OBVIOUS
<1>2. Registry!Starts(t) \subseteq 1 .. m /\ Registry!Starts(t) \subseteq Nat
  BY DEF Registry!Starts
<1>3. a \in Registry!Starts(t) /\ \A j \in Registry!Starts(t) : a <= j
  BY <1>1, <1>2, FirstIs, SameExtremes
<1>4. a \in 1 .. m /\ t[a] = Registry!Plain(Overrides)
      /\ \A j \in 1 .. m : j < a => t[j] # Registry!Plain(Overrides)
  BY <1>2, <1>3 DEF Registry!Starts
<1>5. PICK next : next = {i \in 1 .. m : i > a /\ Registry!Opens(t[i])}
  OBVIOUS
<1>6. CASE next = {}
  <2>1. Registry!SectionEnd(t) = m + 1
    <3>1. Len(t) = m
      BY ListDomain
    <3>. QED
      BY <1>1, <1>5, <1>6, <3>1 DEF Registry!SectionEnd
  <2>2. \A j \in 1 .. m : a < j => ~ Registry!Opens(t[j])
    BY <1>4, <1>5, <1>6
  <2>. QED
    BY <1>1, <1>4, <2>1, <2>2 DEF Section
<1>7. CASE next # {}
  <2>1. PICK e : e = Registry!Min(next)
    OBVIOUS
  <2>2. e \in next /\ \A j \in next : e <= j
    <3>1. next \subseteq Nat
      BY <1>5
    <3>. QED
      BY <1>7, <2>1, <3>1, FirstIs, SameExtremes
  <2>3. Registry!SectionEnd(t) = e
    BY <1>1, <1>5, <1>7, <2>1 DEF Registry!SectionEnd
  <2>4. e \in 1 .. m /\ e > a /\ Registry!Opens(t[e]) /\ e \in a + 1 .. m + 1
    BY <1>4, <1>5, <2>2
  <2>5. \A j \in 1 .. m : a < j /\ j < e => ~ Registry!Opens(t[j])
    <3>1. SUFFICES ASSUME NEW j \in 1 .. m, a < j, j < e, Registry!Opens(t[j]) PROVE FALSE
      OBVIOUS
    <3>2. j \in next
      BY <1>4, <1>5, <3>1
    <3>. QED
      BY <2>2, <2>4, <3>1, <3>2
  <2>. QED
    BY <1>1, <1>4, <2>3, <2>4, <2>5 DEF Section
<1>. QED
  BY <1>6, <1>7

LEMMA SectionIs ==
  ASSUME NEW t, IsList(t), NEW m, DOMAIN t = 1 .. m, NEW a, NEW e, Section(t, m, a, e)
  PROVE  /\ Registry!Starts(t) # {} /\ Registry!Min(Registry!Starts(t)) = a
         /\ Registry!SectionEnd(t) = e
<1>1. /\ m \in Nat /\ a \in 1 .. m /\ e \in a + 1 .. m + 1
      /\ t[a] = Registry!Plain(Overrides)
      /\ \A j \in 1 .. m : j < a => t[j] # Registry!Plain(Overrides)
      /\ \A j \in 1 .. m : a < j /\ j < e => ~ Registry!Opens(t[j])
      /\ e \in 1 .. m => Registry!Opens(t[e])
  BY DEF Section
<1>2. a \in Registry!Starts(t)
  BY <1>1 DEF Registry!Starts
<1>3. Section(t, m, Registry!Min(Registry!Starts(t)), Registry!SectionEnd(t))
  BY <1>1, <1>2, SectionOf
<1>4. PICK x : x = Registry!Min(Registry!Starts(t))
  OBVIOUS
<1>5. PICK y : y = Registry!SectionEnd(t)
  OBVIOUS
<1>6. /\ x \in 1 .. m /\ y \in x + 1 .. m + 1
      /\ t[x] = Registry!Plain(Overrides)
      /\ \A j \in 1 .. m : j < x => t[j] # Registry!Plain(Overrides)
      /\ \A j \in 1 .. m : x < j /\ j < y => ~ Registry!Opens(t[j])
      /\ y \in 1 .. m => Registry!Opens(t[y])
  BY <1>3, <1>4, <1>5 DEF Section
<1>7. x = a
  <2>1. ~ (x < a) /\ ~ (a < x) /\ x \in Nat /\ a \in Nat
    BY <1>1, <1>6
  <2>. QED
    BY <2>1
<1>8. y = e
  <2>1. ~ (y < e)
    <3>1. SUFFICES ASSUME y < e PROVE FALSE
      OBVIOUS
    <3>2. y \in 1 .. m /\ a < y
      BY <1>1, <1>6, <1>7, <3>1
    <3>. QED
      BY <1>1, <1>6, <3>1, <3>2
  <2>2. ~ (e < y)
    <3>1. SUFFICES ASSUME e < y PROVE FALSE
      OBVIOUS
    <3>2. e \in 1 .. m /\ a < e
      BY <1>1, <1>6, <1>7, <3>1
    <3>. QED
      BY <1>1, <1>6, <1>7, <3>1, <3>2
  <2>3. y \in Int /\ e \in Int
    BY <1>1, <1>6
  <2>. QED
    BY <2>1, <2>2, <2>3
<1>. QED
  BY <1>2, <1>4, <1>5, <1>7, <1>8

\* The lines of the section are values of the overrides.
LEMMA KeyInSection ==
  ASSUME NEW t, NEW m, NEW a, NEW e, Section(t, m, a, e), NEW j \in 1 .. m, a <= j, j < e
  PROVE  Registry!KeyAt(t, j) = Overrides
<1>1. /\ m \in Nat /\ a \in 1 .. m /\ e \in a + 1 .. m + 1
      /\ t[a] = Registry!Plain(Overrides)
      /\ \A i \in 1 .. m : a < i /\ i < e => ~ Registry!Opens(t[i])
  BY DEF Section
<1>2. \A i \in 1 .. j : Registry!Opens(t[i]) => i <= a
  <2>1. SUFFICES ASSUME NEW i \in 1 .. j, Registry!Opens(t[i]), ~ (i <= a) PROVE FALSE
    OBVIOUS
  <2>2. i \in 1 .. m /\ a < i /\ i < e
    BY <1>1, <2>1
  <2>. QED
    BY <1>1, <2>1, <2>2
<1>3. j \in Nat /\ a \in 1 .. j /\ Registry!Opens(t[a])
  BY <1>1, PlainOpens
<1>4. Registry!KeyAt(t, j) = IF t[a].kind = "removal" THEN Nowhere ELSE t[a].key
  BY <1>2, <1>3, KeyIs
<1>5. t[a].kind # "removal" /\ t[a].key = Overrides
  BY <1>1 DEF Registry!Plain
<1>. QED
  BY <1>4, <1>5

\* The section has a line for every DLL.
AllThere(t, a, e) ==
  \A i \in DOMAIN Dlls : \E j \in DOMAIN t :
    a <= j /\ j < e /\ t[j].kind = "value" /\ t[j].name = Dlls[i]

\* What write_dll_overrides does to a file: its lines stay, in their keys, and what
\* comes to them is the section of the overrides, or lines of it.
Wrote(t, new, m, n, go, a, e) ==
  /\ DOMAIN t = 1 .. m /\ IsList(new) /\ DOMAIN new = 1 .. n /\ Spread(go, m, n)
  /\ \A i \in 1 .. m : new[go[i]] = t[i] /\ SameOpens(t, new, go, i)
  /\ Section(new, n, a, e) /\ AllThere(new, a, e)
  /\ \A j \in 1 .. n : new[j].kind = "value" =>
       \/ \E i \in 1 .. m : j = go[i]
       \/ /\ a <= j /\ j < e
          /\ \E i \in DOMAIN Dlls : new[j] = Registry!Value(Dlls[i], Native)

LEMMA DllsAreList == IsList(Dlls)
BY FilesAreLists DEF IsList

LEMMA ValueIs ==
  ASSUME NEW name, NEW v
  PROVE  /\ Registry!Value(name, v).kind = "value" /\ Registry!Value(name, v).name = name
         /\ Registry!Value(name, v).value = v /\ ~ Registry!Opens(Registry!Value(name, v))
         /\ Registry!Value(name, v) # Registry!Plain(Overrides)
<1>1. /\ Registry!Value(name, v).kind = "value" /\ Registry!Value(name, v).name = name
      /\ Registry!Value(name, v).value = v
  BY DEF Registry!Value
<1>2. Registry!Plain(Overrides).kind = "header"
  BY DEF Registry!Plain
<1>. QED
  BY <1>1, <1>2 DEF Registry!Opens

\* The section is there: the lines that are missing come at its end.
LEMMA WriteMissing ==
  ASSUME NEW t, IsList(t), NEW m \in Nat, DOMAIN t = 1 .. m, Registry!Starts(t) # {}
  PROVE  \E n, go, a, e : Wrote(t, Registry!WithOverrides(t), m, n, go, a, e)
<1>1. PICK a : a = Registry!Min(Registry!Starts(t))
  OBVIOUS
<1>2. PICK d : d = Registry!SectionEnd(t)
  OBVIOUS
<1>3. /\ a \in 1 .. m /\ d \in a + 1 .. m + 1
      /\ t[a] = Registry!Plain(Overrides)
      /\ \A j \in 1 .. m : j < a => t[j] # Registry!Plain(Overrides)
      /\ \A j \in 1 .. m : a < j /\ j < d => ~ Registry!Opens(t[j])
      /\ d \in 1 .. m => Registry!Opens(t[d])
  BY <1>1, <1>2, SectionOf DEF Section
<1>4. PICK places : places = {i \in DOMAIN Dlls : Dlls[i] \notin Registry!Present(t)}
  OBVIOUS
<1>5. PICK b : b = Registry!LinesFor(places)
  OBVIOUS
<1>6. PICK l \in Nat : DOMAIN Dlls = 1 .. l
  BY DllsAreList DEF IsList
<1>7. /\ IsList(b) /\ \E k \in Nat : DOMAIN b = 1 .. k
      /\ \A j \in DOMAIN b : \E i \in places : b[j] = Registry!Value(Dlls[i], Native)
      /\ \A i \in places : \E j \in DOMAIN b : b[j] = Registry!Value(Dlls[i], Native)
  <2>1. places \in SUBSET (1 .. l)
    BY <1>4, <1>6
  <2>. QED
    BY <1>5, <1>6, <2>1, LinesForAre DEF LinesOf
<1>8. PICK c \in Nat : DOMAIN b = 1 .. c
  BY <1>7
<1>9. PICK new : new = Registry!WithOverrides(t)
  OBVIOUS
<1>10. new = Joined(t, d, b)
  BY <1>2, <1>4, <1>5, <1>9 DEF Registry!WithOverrides, Registry!Missing, Joined
<1>11. d \in 1 .. m + 1 /\ d \in Nat /\ a \in Nat /\ a < d
  BY <1>3
<1>12. /\ IsList(new) /\ DOMAIN new = 1 .. m + c
       /\ \A i \in 1 .. m : i < d => new[i] = t[i]
       /\ \A i \in 1 .. m : i >= d => new[i + c] = t[i]
       /\ \A j \in 1 .. c : new[d - 1 + j] = b[j]
  <2>1. d \in 1 .. m + 1
    BY <1>11
  <2>. QED
    BY <1>7, <1>8, <1>10, <2>1, BlockIs
<1>13. PICK n \in Nat : n = m + c
  OBVIOUS
<1>14. PICK e : e = d + c
  OBVIOUS
<1>15. PICK go : go = [i \in 1 .. m |-> IF i < d THEN i ELSE i + c]
  OBVIOUS
<1>16. \A i \in 1 .. m : /\ i < d => go[i] = i
                         /\ i >= d => go[i] = i + c
  BY <1>11, <1>15
<1>17. \A i \in 1 .. m : go[i] \in 1 .. n /\ new[go[i]] = t[i]
  <2>1. TAKE i \in 1 .. m
  <2>2. CASE i < d
    BY <1>11, <1>12, <1>13, <1>16, <2>2
  <2>3. CASE i >= d
    BY <1>11, <1>12, <1>13, <1>16, <2>3
  <2>. QED
    BY <1>11, <2>2, <2>3
<1>18. Spread(go, m, n)
  <2>1. go \in [1 .. m -> 1 .. n]
    BY <1>15, <1>17
  <2>2. \A i, j \in 1 .. m : i < j => go[i] < go[j]
    <3>1. TAKE i, j \in 1 .. m
    <3>2. (go[i] = i \/ go[i] = i + c) /\ (go[j] = j \/ go[j] = j + c)
          /\ (i < d => go[i] = i) /\ (j >= d => go[j] = j + c)
      BY <1>11, <1>16
    <3>. QED
      BY <1>8, <1>11, <3>2
  <2>. QED
    BY <1>13, <2>1, <2>2 DEF Spread
<1>19. \A j \in 1 .. n :
         \/ j < d /\ j \in 1 .. m /\ go[j] = j /\ new[j] = t[j]
         \/ d <= j /\ j < e /\ \E i \in places : new[j] = Registry!Value(Dlls[i], Native)
         \/ e <= j /\ j - c \in 1 .. m /\ j - c >= d /\ go[j - c] = j /\ new[j] = t[j - c]
  <2>1. TAKE j \in 1 .. n
  <2>2. CASE j < d
    <3>1. j \in 1 .. m
      BY <1>11, <2>2
    <3>. QED
      BY <1>12, <1>16, <2>2, <3>1
  <2>3. CASE d <= j /\ j < e
    <3>1. PICK i : i = j - d + 1
      OBVIOUS
    <3>2. i \in 1 .. c /\ d - 1 + i = j
      BY <1>8, <1>11, <1>14, <2>3, <3>1
    <3>3. new[j] = b[i] /\ i \in DOMAIN b
      BY <1>8, <1>12, <3>2
    <3>. QED
      BY <1>7, <2>3, <3>3
  <2>4. CASE e <= j
    <3>1. PICK i : i = j - c
      OBVIOUS
    <3>2. i \in 1 .. m /\ i >= d /\ i + c = j
      BY <1>8, <1>11, <1>13, <1>14, <2>4, <3>1
    <3>3. new[j] = t[i] /\ go[i] = j
      BY <1>12, <1>16, <3>2
    <3>. QED
      BY <2>4, <3>1, <3>2, <3>3
  <2>5. j < d \/ (d <= j /\ j < e) \/ e <= j
    BY <1>8, <1>11, <1>14
  <2>. QED
    BY <2>2, <2>3, <2>4, <2>5
<1>20. \A j \in 1 .. n : Registry!Opens(new[j]) => \E i \in 1 .. m : j = go[i] /\ new[j] = t[i]
  <2>1. SUFFICES ASSUME NEW j \in 1 .. n, Registry!Opens(new[j])
                 PROVE  \E i \in 1 .. m : j = go[i] /\ new[j] = t[i]
    OBVIOUS
  <2>. QED
    BY <1>19, <2>1, ValueIs
<1>21. \A i \in 1 .. m : SameOpens(t, new, go, i)
  <2>1. TAKE i \in 1 .. m
  <2>2. \A j \in 1 .. i : j \in 1 .. m
    OBVIOUS
  <2>3. \A k \in 1 .. go[i] : Registry!Opens(new[k]) =>
          \E j \in 1 .. i : k = go[j] /\ Registry!Opens(t[j])
    <3>1. SUFFICES ASSUME NEW k \in 1 .. go[i], Registry!Opens(new[k])
                   PROVE  \E j \in 1 .. i : k = go[j] /\ Registry!Opens(t[j])
      OBVIOUS
    <3>2. k \in 1 .. n /\ k <= go[i] /\ go[i] \in Nat /\ k \in Nat
      BY <1>13, <1>17, <2>1
    <3>3. PICK j \in 1 .. m : k = go[j] /\ new[k] = t[j]
      BY <1>20, <3>1, <3>2
    <3>4. ~ (i < j)
      BY <1>18, <3>2, <3>3 DEF Spread
    <3>5. j \in 1 .. i
      BY <3>4
    <3>. QED
      BY <3>1, <3>3, <3>5
  <2>. QED
    BY <1>17, <2>2, <2>3 DEF SameOpens
<1>22. Section(new, n, a, e)
  <2>1. a \in 1 .. n /\ e \in a + 1 .. n + 1
    BY <1>3, <1>8, <1>13, <1>14
  <2>2. new[a] = Registry!Plain(Overrides)
    BY <1>3, <1>11, <1>12
  <2>3. \A j \in 1 .. n : j < a => new[j] # Registry!Plain(Overrides)
    <3>1. SUFFICES ASSUME NEW j \in 1 .. n, j < a PROVE new[j] # Registry!Plain(Overrides)
      OBVIOUS
    <3>2. j < d /\ j \in 1 .. m
      BY <1>3, <1>11, <3>1
    <3>. QED
      BY <1>3, <1>12, <3>1, <3>2
  <2>4. \A j \in 1 .. n : a < j /\ j < e => ~ Registry!Opens(new[j])
    <3>1. SUFFICES ASSUME NEW j \in 1 .. n, a < j, j < e PROVE ~ Registry!Opens(new[j])
      OBVIOUS
    <3>2. CASE j < d
      BY <1>3, <1>11, <1>19, <3>1, <3>2, ValueIs
    <3>3. CASE d <= j
      <4>1. \E i \in places : new[j] = Registry!Value(Dlls[i], Native)
        <5>1. ~ (j < d) /\ ~ (e <= j)
          BY <1>8, <1>11, <1>14, <3>1, <3>3
        <5>. QED
          BY <1>19, <5>1
      <4>. QED
        BY <4>1, ValueIs
    <3>. QED
      BY <1>11, <3>2, <3>3
  <2>5. e \in 1 .. n => Registry!Opens(new[e])
    <3>1. SUFFICES ASSUME e \in 1 .. n PROVE Registry!Opens(new[e])
      OBVIOUS
    <3>2. d \in 1 .. m
      BY <1>8, <1>11, <1>13, <1>14, <3>1
    <3>. QED
      BY <1>3, <1>11, <1>12, <1>14, <3>2
  <2>. QED
    BY <1>13, <2>1, <2>2, <2>3, <2>4, <2>5 DEF Section
<1>23. AllThere(new, a, e)
  <2>1. SUFFICES ASSUME NEW i \in DOMAIN Dlls
                 PROVE  \E j \in 1 .. n :
                          a <= j /\ j < e /\ new[j].kind = "value" /\ new[j].name = Dlls[i]
    BY <1>12, <1>13 DEF AllThere
  <2>2. CASE i \in places
    <3>1. PICK k \in 1 .. c : b[k] = Registry!Value(Dlls[i], Native)
      BY <1>7, <1>8, <2>2
    <3>2. PICK j : j = d - 1 + k
      OBVIOUS
    <3>3. j \in 1 .. n /\ a <= j /\ j < e
      BY <1>8, <1>11, <1>13, <1>14, <3>2
    <3>4. new[j] = Registry!Value(Dlls[i], Native)
      BY <1>12, <3>1, <3>2
    <3>. QED
      BY <3>3, <3>4, ValueIs
  <2>3. CASE i \notin places
    <3>1. Dlls[i] \in Registry!Present(t)
      BY <1>4, <2>3
    <3>2. PICK j \in a .. d - 1 : t[j].kind = "value" /\ t[j].name = Dlls[i]
      BY <1>1, <1>2, <3>1 DEF Registry!Present
    <3>3. j \in 1 .. n /\ j \in 1 .. m /\ a <= j /\ j < e /\ j < d
      BY <1>3, <1>8, <1>11, <1>13, <1>14
    <3>4. new[j] = t[j]
      BY <1>12, <3>3
    <3>. QED
      BY <3>2, <3>3, <3>4
  <2>. QED
    BY <2>2, <2>3
<1>24. \A j \in 1 .. n : new[j].kind = "value" =>
         \/ \E i \in 1 .. m : j = go[i]
         \/ /\ a <= j /\ j < e
            /\ \E i \in DOMAIN Dlls : new[j] = Registry!Value(Dlls[i], Native)
  <2>1. TAKE j \in 1 .. n
  <2>2. CASE d <= j /\ j < e /\ \E i \in places : new[j] = Registry!Value(Dlls[i], Native)
    <3>1. a <= j
      BY <1>11, <2>2
    <3>. QED
      BY <1>4, <2>2, <3>1
  <2>3. CASE \E i \in 1 .. m : j = go[i]
    BY <2>3
  <2>. QED
    BY <1>19, <2>2, <2>3
<1>25. DOMAIN new = 1 .. n
  BY <1>12, <1>13
<1>26. Wrote(t, new, m, n, go, a, e)
  BY <1>12, <1>17, <1>18, <1>21, <1>22, <1>23, <1>24, <1>25 DEF Wrote
<1>. QED
  BY <1>9, <1>26

\* There is no section: it comes at the end of the file, with all of its lines.
LEMMA WriteSection ==
  ASSUME NEW t, IsList(t), NEW m \in Nat, DOMAIN t = 1 .. m, Registry!Starts(t) = {}
  PROVE  \E n, go, a, e : Wrote(t, Registry!WithOverrides(t), m, n, go, a, e)
<1>1. PICK b : b = [i \in DOMAIN Dlls |-> Registry!Value(Dlls[i], Native)]
  OBVIOUS
<1>2. PICK l \in Nat : DOMAIN Dlls = 1 .. l
  BY DllsAreList DEF IsList
<1>3. DOMAIN b = 1 .. l /\ \A i \in 1 .. l : b[i] = Registry!Value(Dlls[i], Native)
  BY <1>1, <1>2
<1>4. IsList(b) /\ Len(b) = l
  <2>1. b = [i \in 1 .. l |-> b[i]]
    BY <1>1, <1>2
  <2>2. IsList(b)
    BY <2>1, ListIs
  <2>. QED
    BY <1>3, <2>2, ListDomain
<1>5. PICK h : h = <<Registry!Other, Registry!Plain(Overrides), Registry!Other>>
  OBVIOUS
<1>6. IsList(h) /\ Len(h) = 3 /\ h[1] = Registry!Other /\ h[3] = Registry!Other
      /\ h[2] = Registry!Plain(Overrides)
  <2>1. h \in Seq({Registry!Other, Registry!Plain(Overrides)})
    BY <1>5
  <2>. QED
    BY <1>5, <2>1 DEF IsList
<1>7. PICK x : Concat(x, t, h)
  BY DEF Concat
<1>8. PICK new : new = Registry!WithOverrides(t)
  OBVIOUS
<1>9. Concat(new, x, b)
  BY <1>1, <1>5, <1>7, <1>8 DEF Concat, Registry!WithOverrides
<1>10. Len(t) = m
  BY ListDomain
<1>11. /\ IsList(x) /\ Len(x) = m + 3
       /\ \A i \in 1 .. m : x[i] = t[i]
       /\ \A j \in 1 .. 3 : x[m + j] = h[j]
  <2>1. IsList(t) /\ IsList(h)
    BY <1>6
  <2>2. /\ IsList(x) /\ Len(x) = Len(t) + Len(h)
        /\ \A i \in 1 .. Len(t) : x[i] = t[i]
        /\ \A j \in 1 .. Len(h) : x[Len(t) + j] = h[j]
    BY <1>7, <2>1, ConcatIs
  <2>. QED
    BY <1>6, <1>10, <2>2
<1>12. /\ IsList(new) /\ Len(new) = m + 3 + l
       /\ \A i \in 1 .. m + 3 : new[i] = x[i]
       /\ \A j \in 1 .. l : new[m + 3 + j] = b[j]
  <2>1. IsList(x) /\ IsList(b)
    BY <1>4, <1>11
  <2>2. /\ IsList(new) /\ Len(new) = Len(x) + Len(b)
        /\ \A i \in 1 .. Len(x) : new[i] = x[i]
        /\ \A j \in 1 .. Len(b) : new[Len(x) + j] = b[j]
    BY <1>9, <2>1, ConcatIs
  <2>. QED
    BY <1>4, <1>11, <2>2
<1>13. PICK n \in Nat : n = m + 3 + l
  OBVIOUS
<1>14. DOMAIN new = 1 .. n
  BY <1>12, <1>13, ListDomain
<1>15. PICK go : go = [i \in 1 .. m |-> i]
  OBVIOUS
<1>16. \A i \in 1 .. m : go[i] = i /\ new[i] = t[i] /\ i \in 1 .. n
  BY <1>11, <1>12, <1>13, <1>15
<1>17. PICK a \in Nat : a = m + 2
  OBVIOUS
<1>18. PICK e \in Nat : e = n + 1
  OBVIOUS
<1>19. /\ new[m + 1] = Registry!Other /\ new[a] = Registry!Plain(Overrides)
       /\ new[m + 3] = Registry!Other
  <2>1. x[m + 1] = h[1] /\ x[m + 2] = h[2] /\ x[m + 3] = h[3]
    BY <1>11
  <2>2. new[m + 1] = x[m + 1] /\ new[m + 2] = x[m + 2] /\ new[m + 3] = x[m + 3]
    BY <1>12
  <2>. QED
    BY <1>6, <1>17, <2>1, <2>2
<1>20. \A j \in 1 .. n :
         \/ j \in 1 .. m
         \/ j = m + 1
         \/ j = a
         \/ j = m + 3
         \/ j > m + 3 /\ j - (m + 3) \in 1 .. l
              /\ new[j] = Registry!Value(Dlls[j - (m + 3)], Native)
  <2>1. TAKE j \in 1 .. n
  <2>2. CASE j > m + 3
    <3>1. j - (m + 3) \in 1 .. l /\ m + 3 + (j - (m + 3)) = j
      BY <1>13, <2>2
    <3>2. new[j] = b[j - (m + 3)]
      BY <1>12, <3>1
    <3>. QED
      BY <1>3, <2>2, <3>1, <3>2
  <2>3. CASE ~ (j > m + 3)
    BY <1>17, <2>3
  <2>. QED
    BY <2>2, <2>3
<1>21. Registry!Other.kind = "other" /\ ~ Registry!Opens(Registry!Other)
  BY DEF Registry!Other, Registry!Opens
<1>22. \A j \in 1 .. n : j > a => ~ Registry!Opens(new[j])
  <2>1. SUFFICES ASSUME NEW j \in 1 .. n, j > a PROVE ~ Registry!Opens(new[j])
    OBVIOUS
  <2>2. j = m + 3 \/ \E i \in 1 .. l : new[j] = Registry!Value(Dlls[i], Native)
    BY <1>17, <1>20, <2>1
  <2>. QED
    BY <1>19, <1>21, <2>2, ValueIs
<1>23. \A j \in 1 .. m : new[j] # Registry!Plain(Overrides)
  BY <1>16 DEF Registry!Starts
<1>24. Section(new, n, a, e)
  <2>1. a \in 1 .. n /\ e \in a + 1 .. n + 1 /\ e \notin 1 .. n
    BY <1>13, <1>17, <1>18
  <2>2. \A j \in 1 .. n : j < a => new[j] # Registry!Plain(Overrides)
    <3>1. SUFFICES ASSUME NEW j \in 1 .. n, j < a PROVE new[j] # Registry!Plain(Overrides)
      OBVIOUS
    <3>2. j \in 1 .. m \/ j = m + 1
      BY <1>17, <3>1
    <3>3. Registry!Other # Registry!Plain(Overrides)
      BY <1>21, PlainOpens
    <3>. QED
      BY <1>19, <1>23, <3>2, <3>3
  <2>. QED
    BY <1>19, <1>22, <2>1, <2>2 DEF Section
<1>25. AllThere(new, a, e)
  <2>1. SUFFICES ASSUME NEW i \in 1 .. l
                 PROVE  \E j \in 1 .. n :
                          a <= j /\ j < e /\ new[j].kind = "value" /\ new[j].name = Dlls[i]
    BY <1>2, <1>14 DEF AllThere
  <2>2. new[m + 3 + i] = Registry!Value(Dlls[i], Native)
    BY <1>3, <1>12
  <2>3. m + 3 + i \in 1 .. n /\ a <= m + 3 + i /\ m + 3 + i < e
    BY <1>13, <1>17, <1>18
  <2>. QED
    BY <2>2, <2>3, ValueIs
<1>26. \A i \in 1 .. m : SameOpens(t, new, go, i)
  <2>1. TAKE i \in 1 .. m
  <2>2. \A j \in 1 .. i : j \in 1 .. m
    OBVIOUS
  <2>. QED
    BY <1>16, <2>2 DEF SameOpens
<1>27. \A j \in 1 .. n : new[j].kind = "value" =>
         \/ \E i \in 1 .. m : j = go[i]
         \/ /\ a <= j /\ j < e
            /\ \E i \in DOMAIN Dlls : new[j] = Registry!Value(Dlls[i], Native)
  <2>1. SUFFICES ASSUME NEW j \in 1 .. n, new[j].kind = "value", j \notin 1 .. m
                 PROVE  /\ a <= j /\ j < e
                        /\ \E i \in DOMAIN Dlls : new[j] = Registry!Value(Dlls[i], Native)
    BY <1>16
  <2>2. new[a].kind = "header"
    BY <1>19 DEF Registry!Plain
  <2>3. j > m + 3 /\ \E i \in 1 .. l : new[j] = Registry!Value(Dlls[i], Native)
    BY <1>19, <1>20, <1>21, <2>1, <2>2
  <2>. QED
    BY <1>2, <1>17, <1>18, <2>3
<1>28. Spread(go, m, n)
  <2>1. go \in [1 .. m -> 1 .. n]
    BY <1>15, <1>16
  <2>. QED
    BY <1>16, <2>1 DEF Spread
<1>29. Wrote(t, new, m, n, go, a, e)
  BY <1>12, <1>14, <1>16, <1>24, <1>25, <1>26, <1>27, <1>28 DEF Wrote
<1>. QED
  BY <1>8, <1>29

LEMMA WriteIs ==
  ASSUME NEW t, IsList(t)
  PROVE  \E m, n, go, a, e : Wrote(t, Registry!WithOverrides(t), m, n, go, a, e)
<1>1. PICK m \in Nat : DOMAIN t = 1 .. m
  BY DEF IsList
<1>2. CASE Registry!Starts(t) = {}
  <2>1. PICK n, go, a, e : Wrote(t, Registry!WithOverrides(t), m, n, go, a, e)
    BY <1>1, <1>2, WriteSection
  <2>. QED
    BY <2>1
<1>3. CASE Registry!Starts(t) # {}
  <2>1. PICK n, go, a, e : Wrote(t, Registry!WithOverrides(t), m, n, go, a, e)
    BY <1>1, <1>3, WriteMissing
  <2>. QED
    BY <2>1
<1>. QED
  BY <1>2, <1>3

\* The entry of a key that the reader takes: the last one.
LastEntry(t, p, i) ==
  /\ i \in Registry!Entries(t) /\ Registry!EntryAt(t, i) = p
  /\ \A j \in Registry!Entries(t) : Registry!EntryAt(t, j) = p => j <= i

LEMMA ReadIs ==
  ASSUME NEW t, NEW m \in Nat, DOMAIN t = 1 .. m, NEW p, NEW i, LastEntry(t, p, i)
  PROVE  Registry!Read(t, p) = t[i].value
<1>1. PICK S : S = {j \in Registry!Entries(t) : Registry!EntryAt(t, j) = p}
  OBVIOUS
<1>2. S \in SUBSET (1 .. m) /\ i \in S /\ \A j \in S : j <= i
  BY <1>1 DEF LastEntry, Registry!Entries
<1>3. Registry!Max(S) = i
  BY <1>2, LastIs, SameExtremes
<1>4. PICK K : K = {Registry!EntryAt(t, j) : j \in Registry!Entries(t)}
  OBVIOUS
<1>5. p \in K
  BY <1>4 DEF LastEntry
<1>6. Registry!Hive(t) =
        [q \in K |-> t[Registry!Max({j \in Registry!Entries(t) :
                                       Registry!EntryAt(t, j) = q})].value]
  BY <1>4 DEF Registry!Hive
<1>7. DOMAIN Registry!Hive(t) = K
  BY <1>6
<1>8. Registry!Hive(t)[p] = t[Registry!Max(S)].value
  BY <1>1, <1>5, <1>6
<1>. QED
  BY <1>3, <1>5, <1>7, <1>8 DEF Registry!Read

LEMMA ReadsNothing ==
  ASSUME NEW t, NEW p, \A j \in Registry!Entries(t) : Registry!EntryAt(t, j) # p
  PROVE  Registry!Read(t, p) = Nowhere
<1>1. DOMAIN Registry!Hive(t) = {Registry!EntryAt(t, j) : j \in Registry!Entries(t)}
  BY DEF Registry!Hive
<1>. QED
  BY <1>1 DEF Registry!Read

LEMMA OneIsLast ==
  ASSUME NEW t, NEW m \in Nat, DOMAIN t = 1 .. m, NEW p,
         NEW j \in Registry!Entries(t), Registry!EntryAt(t, j) = p
  PROVE  \E i : LastEntry(t, p, i)
<1>1. PICK S : S = {k \in Registry!Entries(t) : Registry!EntryAt(t, k) = p}
  OBVIOUS
<1>2. S \in SUBSET (1 .. m) /\ S # {}
  BY <1>1 DEF Registry!Entries
<1>3. PICK i : i = Ini!Max(S)
  OBVIOUS
<1>4. i \in S /\ \A k \in S : k <= i
  BY <1>2, <1>3, LastPosition
<1>5. LastEntry(t, p, i)
  BY <1>1, <1>4 DEF LastEntry
<1>. QED
  BY <1>5

LEMMA WroteIs ==
  ASSUME NEW t, NEW new, NEW m, NEW n, NEW go, NEW a, NEW e, Wrote(t, new, m, n, go, a, e)
  PROVE  /\ m \in Nat /\ n \in Nat /\ DOMAIN t = 1 .. m /\ DOMAIN new = 1 .. n
         /\ IsList(new) /\ go \in [1 .. m -> 1 .. n]
         /\ \A i, j \in 1 .. m : i < j => go[i] < go[j]
         /\ \A i \in 1 .. m : new[go[i]] = t[i]
BY DEF Wrote, Spread

\* The entries of the file stay, each in its key.
LEMMA EntriesStay ==
  ASSUME NEW t, NEW new, NEW m, NEW n, NEW go, NEW a, NEW e, Wrote(t, new, m, n, go, a, e),
         NEW i \in 1 .. m
  PROVE  /\ i \in Registry!Entries(t) <=> go[i] \in Registry!Entries(new)
         /\ Registry!EntryAt(new, go[i]) = Registry!EntryAt(t, i)
<1>1. /\ DOMAIN t = 1 .. m /\ DOMAIN new = 1 .. n /\ go[i] \in 1 .. n
      /\ new[go[i]] = t[i]
  BY WroteIs
<1>2. Registry!KeyAt(new, go[i]) = Registry!KeyAt(t, i)
  <2>1. Spread(go, m, n) /\ SameOpens(t, new, go, i)
    BY DEF Wrote
  <2>. QED
    BY <2>1, KeysMove
<1>. QED
  BY <1>1, <1>2 DEF Registry!Entries, Registry!EntryAt

\* An entry is one of the file's, or the override of a DLL.
LEMMA EntriesAre ==
  ASSUME NEW t, NEW new, NEW m, NEW n, NEW go, NEW a, NEW e, Wrote(t, new, m, n, go, a, e),
         NEW j \in Registry!Entries(new)
  PROVE  \/ \E i \in 1 .. m : i \in Registry!Entries(t) /\ j = go[i]
         \/ new[j].value = Native /\ Registry!EntryAt(new, j) \in Registry!Ours
<1>1. j \in 1 .. n /\ new[j].kind = "value"
  BY WroteIs DEF Registry!Entries
<1>2. \/ \E i \in 1 .. m : j = go[i]
      \/ /\ a <= j /\ j < e
         /\ \E i \in DOMAIN Dlls : new[j] = Registry!Value(Dlls[i], Native)
  BY <1>1 DEF Wrote
<1>3. CASE \E i \in 1 .. m : j = go[i]
  BY <1>3, EntriesStay
<1>4. CASE a <= j /\ j < e /\ \E i \in DOMAIN Dlls : new[j] = Registry!Value(Dlls[i], Native)
  <2>1. PICK i \in DOMAIN Dlls : new[j] = Registry!Value(Dlls[i], Native)
    BY <1>4
  <2>2. Registry!KeyAt(new, j) = Overrides
    <3>1. Section(new, n, a, e)
      BY DEF Wrote
    <3>. QED
      BY <1>1, <1>4, <3>1, KeyInSection
  <2>3. Registry!EntryAt(new, j) = <<Overrides, Lower[Dlls[i]]>>
    BY <2>1, <2>2, ValueIs DEF Registry!EntryAt
  <2>. QED
    BY <2>1, <2>3, ValueIs DEF Registry!Ours
<1>. QED
  BY <1>2, <1>3, <1>4

\* What is not an override of a DLL reads as before.
LEMMA OthersRead ==
  ASSUME NEW t, NEW new, NEW m, NEW n, NEW go, NEW a, NEW e, Wrote(t, new, m, n, go, a, e),
         NEW p, p \notin Registry!Ours
  PROVE  Registry!Read(new, p) = Registry!Read(t, p)
<1>1. /\ m \in Nat /\ n \in Nat /\ DOMAIN t = 1 .. m /\ DOMAIN new = 1 .. n
      /\ go \in [1 .. m -> 1 .. n]
      /\ \A i, j \in 1 .. m : i < j => go[i] < go[j]
      /\ \A i \in 1 .. m : new[go[i]] = t[i]
  BY WroteIs
<1>2. \A j \in Registry!Entries(new) : Registry!EntryAt(new, j) = p =>
        \E i \in 1 .. m : /\ i \in Registry!Entries(t) /\ j = go[i]
                          /\ Registry!EntryAt(t, i) = p
  <2>1. SUFFICES ASSUME NEW j \in Registry!Entries(new), Registry!EntryAt(new, j) = p
                 PROVE  \E i \in 1 .. m : /\ i \in Registry!Entries(t) /\ j = go[i]
                                          /\ Registry!EntryAt(t, i) = p
    OBVIOUS
  <2>2. PICK i \in 1 .. m : i \in Registry!Entries(t) /\ j = go[i]
    BY <2>1, EntriesAre
  <2>. QED
    BY <2>1, <2>2, EntriesStay
<1>3. CASE \A j \in Registry!Entries(t) : Registry!EntryAt(t, j) # p
  BY <1>2, <1>3, ReadsNothing
<1>4. CASE \E j \in Registry!Entries(t) : Registry!EntryAt(t, j) = p
  <2>1. PICK i : LastEntry(t, p, i)
    BY <1>1, <1>4, OneIsLast
  <2>2. i \in 1 .. m /\ i \in Registry!Entries(t) /\ Registry!EntryAt(t, i) = p
        /\ \A j \in Registry!Entries(t) : Registry!EntryAt(t, j) = p => j <= i
    BY <1>1, <2>1 DEF LastEntry, Registry!Entries
  <2>3. go[i] \in Registry!Entries(new) /\ Registry!EntryAt(new, go[i]) = p
    BY <2>2, EntriesStay
  <2>4. \A j \in Registry!Entries(new) : Registry!EntryAt(new, j) = p => j <= go[i]
    <3>1. SUFFICES ASSUME NEW j \in Registry!Entries(new), Registry!EntryAt(new, j) = p
                   PROVE  j <= go[i]
      OBVIOUS
    <3>2. PICK k \in 1 .. m : k \in Registry!Entries(t) /\ j = go[k]
                              /\ Registry!EntryAt(t, k) = p
      BY <1>2, <3>1
    <3>3. k <= i /\ k \in Nat /\ i \in Nat /\ go[k] \in Nat /\ go[i] \in Nat
      BY <1>1, <2>2, <3>2
    <3>4. k = i \/ k < i
      BY <3>3
    <3>5. go[k] <= go[i]
      BY <1>1, <2>2, <3>3, <3>4
    <3>. QED
      BY <3>2, <3>5
  <2>5. LastEntry(new, p, go[i])
    BY <2>3, <2>4 DEF LastEntry
  <2>6. Registry!Read(new, p) = new[go[i]].value /\ Registry!Read(t, p) = t[i].value
    BY <1>1, <2>1, <2>5, ReadIs
  <2>. QED
    BY <1>1, <2>2, <2>6
<1>. QED
  BY <1>3, <1>4

\* Every DLL reads as overridden: as written, or as a line of the file has it.
LEMMA OursRead ==
  ASSUME NEW t, NEW new, NEW m, NEW n, NEW go, NEW a, NEW e, Wrote(t, new, m, n, go, a, e),
         NEW p \in Registry!Ours
  PROVE  Registry!Read(new, p) \in {Native} \cup
           {t[i].value : i \in {j \in Registry!Entries(t) : Registry!EntryAt(t, j) = p}}
<1>1. /\ m \in Nat /\ n \in Nat /\ DOMAIN t = 1 .. m /\ DOMAIN new = 1 .. n
      /\ \A i \in 1 .. m : new[go[i]] = t[i]
  BY WroteIs
<1>2. PICK d \in DOMAIN Dlls : p = <<Overrides, Lower[Dlls[d]]>>
  BY DEF Registry!Ours
<1>3. PICK j \in 1 .. n : a <= j /\ j < e /\ new[j].kind = "value" /\ new[j].name = Dlls[d]
  <2>1. AllThere(new, a, e)
    BY DEF Wrote
  <2>. QED
    BY <1>1, <2>1 DEF AllThere
<1>4. Registry!KeyAt(new, j) = Overrides
  <2>1. Section(new, n, a, e)
    BY DEF Wrote
  <2>. QED
    BY <1>3, <2>1, KeyInSection
<1>5. j \in Registry!Entries(new) /\ Registry!EntryAt(new, j) = p
  <2>1. Overrides # Nowhere
    BY FilesAreLists
  <2>. QED
    BY <1>1, <1>2, <1>3, <1>4, <2>1 DEF Registry!Entries, Registry!EntryAt
<1>6. PICK k : LastEntry(new, p, k)
  BY <1>1, <1>5, OneIsLast
<1>7. Registry!Read(new, p) = new[k].value
  BY <1>1, <1>6, ReadIs
<1>8. k \in Registry!Entries(new) /\ Registry!EntryAt(new, k) = p
  BY <1>6 DEF LastEntry
<1>9. CASE \E i \in 1 .. m : i \in Registry!Entries(t) /\ k = go[i]
  <2>1. PICK i \in 1 .. m : i \in Registry!Entries(t) /\ k = go[i]
    BY <1>9
  <2>2. Registry!EntryAt(t, i) = p /\ new[k].value = t[i].value
    BY <1>1, <1>8, <2>1, EntriesStay
  <2>. QED
    BY <1>7, <2>1, <2>2
<1>10. CASE new[k].value = Native
  BY <1>7, <1>10
<1>. QED
  BY <1>8, <1>9, <1>10, EntriesAre

\* A file that has been written is left as it is.
LEMMA WritesOnce ==
  ASSUME NEW t, NEW new, NEW m, NEW n, NEW go, NEW a, NEW e, Wrote(t, new, m, n, go, a, e)
  PROVE  Registry!WithOverrides(new) = new
<1>1. IsList(new) /\ n \in Nat /\ DOMAIN new = 1 .. n
  BY WroteIs
<1>2. Section(new, n, a, e) /\ AllThere(new, a, e)
  BY DEF Wrote
<1>3. /\ Registry!Starts(new) # {} /\ Registry!Min(Registry!Starts(new)) = a
      /\ Registry!SectionEnd(new) = e
  BY <1>1, <1>2, SectionIs
<1>4. a \in 1 .. n /\ e \in a + 1 .. n + 1
  BY <1>2 DEF Section
<1>5. \A i \in DOMAIN Dlls : Dlls[i] \in Registry!Present(new)
  <2>1. TAKE i \in DOMAIN Dlls
  <2>2. PICK j \in 1 .. n : a <= j /\ j < e /\ new[j].kind = "value" /\ new[j].name = Dlls[i]
    BY <1>1, <1>2 DEF AllThere
  <2>3. j \in a .. e - 1
    BY <1>4, <2>2
  <2>. QED
    BY <1>3, <2>2, <2>3 DEF Registry!Present
<1>6. PICK places : places = {i \in DOMAIN Dlls : Dlls[i] \notin Registry!Present(new)}
  OBVIOUS
<1>7. places = {}
  BY <1>5, <1>6
<1>8. PICK b : b = Registry!LinesFor(places)
  OBVIOUS
<1>9. IsList(b) /\ DOMAIN b = 1 .. 0
  <2>1. places \in SUBSET (1 .. 0)
    BY <1>7
  <2>2. LinesOf(b, places)
    BY <1>8, <2>1, LinesForAre
  <2>3. PICK c \in Nat : DOMAIN b = 1 .. c
    BY <2>2 DEF LinesOf
  <2>4. DOMAIN b = {}
    BY <1>7, <2>2 DEF LinesOf
  <2>5. c = 0
    <3>1. ~ (1 \in 1 .. c)
      BY <2>3, <2>4
    <3>. QED
      BY <3>1
  <2>. QED
    BY <2>2, <2>3, <2>5 DEF LinesOf
<1>10. PICK again : again = Registry!WithOverrides(new)
  OBVIOUS
<1>11. again = Joined(new, e, b)
  BY <1>3, <1>6, <1>8, <1>10 DEF Registry!WithOverrides, Registry!Missing, Joined
<1>12. /\ IsList(again) /\ DOMAIN again = 1 .. n + 0
       /\ \A i \in 1 .. n : i < e => again[i] = new[i]
       /\ \A i \in 1 .. n : i >= e => again[i + 0] = new[i]
  <2>1. e \in 1 .. n + 1
    BY <1>1, <1>4
  <2>. QED
    BY <1>1, <1>9, <1>11, <2>1, BlockIs
<1>13. DOMAIN again = 1 .. n /\ \A i \in 1 .. n : again[i] = new[i]
  <2>1. n + 0 = n /\ \A i \in 1 .. n : i + 0 = i /\ (i < e \/ i >= e)
    BY <1>1, <1>4
  <2>. QED
    BY <1>12, <2>1
<1>14. again = new
  BY <1>1, <1>12, <1>13, SameLists
<1>. QED
  BY <1>10, <1>14

LEMMA RegInitially == Registry!RegInit => RegInv
BY FilesAreLists DEF Registry!RegInit, RegInv, IsList

LEMMA RegStep == RegInv /\ [Registry!RegNext]_(Registry!regVars) => RegInv'
<1>1. CASE UNCHANGED Registry!regVars
  BY <1>1 DEF RegInv, Registry!regVars
<1>2. CASE RegInv /\ Registry!WriteTmp
  BY <1>2 DEF RegInv, Registry!WriteTmp
<1>3. CASE RegInv /\ Registry!RenameTmp
  <2>1. IsList(Registry!WithOverrides(reg))
    BY <1>3, WriteIs, WroteIs DEF RegInv
  <2>2. reg' = Registry!WithOverrides(reg) /\ regTmp' = <<>>
    BY <1>3 DEF RegInv, Registry!RenameTmp
  <2>3. IsList(reg')
    BY <2>1, <2>2
  <2>. QED
    BY <2>2, <2>3 DEF RegInv
<1>4. CASE RegInv /\ Registry!RenameFails
  BY <1>4 DEF RegInv, Registry!RenameFails
<1>. QED
  BY <1>1, <1>2, <1>3, <1>4 DEF Registry!RegNext

\* WineRegistry, for any registry, names and DLLs: writing the overrides again changes
\* nothing, and after a write the reader finds every DLL overridden.
THEOREM WritesAreRead ==
  RegSpec => [](Registry!WriteIsIdempotent /\ Registry!OverridesRead)
<1>1. RegInv => Registry!WriteIsIdempotent /\ Registry!OverridesRead
  <2>1. SUFFICES ASSUME RegInv, regTmp # <<>>
                 PROVE  /\ Registry!WithOverrides(regTmp) = regTmp
                        /\ \A p \in Registry!Ours :
                             Registry!Read(regTmp, p) \in {Native} \cup
                               {reg[i].value : i \in {j \in Registry!Entries(reg) :
                                                        Registry!EntryAt(reg, j) = p}}
    BY DEF Registry!WriteIsIdempotent, Registry!OverridesRead
  <2>2. PICK m, n, go, a, e : Wrote(reg, Registry!WithOverrides(reg), m, n, go, a, e)
    BY <2>1, WriteIs DEF RegInv
  <2>3. Wrote(reg, regTmp, m, n, go, a, e)
    BY <2>1, <2>2 DEF RegInv
  <2>. QED
    BY <2>3, WritesOnce, OursRead
<1>. QED
  BY <1>1, RegInitially, RegStep, PTL DEF RegSpec

\* WineRegistry, for any registry, names and DLLs: a write changes no value that the
\* reader finds but the overrides of its DLLs.
THEOREM WritesLeaveOthers == RegSpec => [][Registry!OthersReadStep]_(Registry!regVars)
<1>1. RegInv /\ [Registry!RegNext]_(Registry!regVars)
        => [Registry!OthersReadStep]_(Registry!regVars)
  <2>1. SUFFICES ASSUME RegInv, Registry!RegNext PROVE Registry!OthersReadStep
    OBVIOUS
  <2>2. CASE Registry!WriteTmp \/ Registry!RenameFails
    BY <2>2 DEF Registry!WriteTmp, Registry!RenameFails, Registry!OthersReadStep
  <2>3. CASE Registry!RenameTmp
    <3>1. PICK m, n, go, a, e : Wrote(reg, Registry!WithOverrides(reg), m, n, go, a, e)
      BY <2>1, WriteIs DEF RegInv
    <3>2. Wrote(reg, reg', m, n, go, a, e)
      BY <2>1, <2>3, <3>1 DEF RegInv, Registry!RenameTmp
    <3>3. PICK new : new = reg'
      OBVIOUS
    <3>4. \A p : p \notin Registry!Ours => Registry!Read(new, p) = Registry!Read(reg, p)
      BY <3>2, <3>3, OthersRead
    <3>. QED
      BY <3>3, <3>4 DEF Registry!OthersReadStep
  <2>. QED
    BY <2>1, <2>2, <2>3 DEF Registry!RegNext
<1>. QED
  BY <1>1, RegInitially, RegStep, PTL DEF RegSpec

(***************************************************************************)
(* Library: one part moves by its own steps, the others stay.              *)
(***************************************************************************)

LEMMA PartStays == [Next]_vars => part' = part
BY DEF Next, vars

\* The overview, mods and profiles pages, for any profiles, mods and number of
\* clicks: one profile stays active, and once the last read is shown every page says
\* what the database holds.
THEOREM PagesCatchUp == Spec => []PagesHold
<1>1. Init /\ part = "pages" => Pg!PagesInit
  BY DEF Init
<1>2. [Next]_vars /\ part = "pages" => [Pg!PagesNext]_(Pg!pageVars)
  BY DEF Next, vars, pagesPart, Pg!pageVars, Pg!tables, Pg!widgets, Pg!reloads
<1>3. [Next]_vars /\ part = "pages" => (part = "pages")'
  BY PartStays
<1>4. [Next]_vars /\ ~ (part = "pages") => ~ (part = "pages")'
  BY PartStays
<1>5. PagesHold <=> (part = "pages" => Pg!PagesHold)
  BY DEF PagesHold
<1>. QED
  BY <1>1, <1>2, <1>3, <1>4, <1>5, PagesAreTrue, PTL DEF Spec, PagesSpec

\* set_mod_enabled from the mods and overview pages: while no profile comes or goes,
\* what a switch changes is the profile its page was built for, also when another
\* one has become active since.
THEOREM SwitchesHit == Spec => SwitchesHitShown
<1>1. Init /\ part = "pages" => Pg!PagesInit
  BY DEF Init
<1>2. [Next]_vars /\ part = "pages" => [Pg!PagesNext]_(Pg!pageVars)
  BY DEF Next, vars, pagesPart, Pg!pageVars, Pg!tables, Pg!widgets, Pg!reloads
<1>3. [Next]_vars /\ part = "pages" => (part = "pages")'
  BY PartStays
<1>4. [Next]_vars /\ ~ (part = "pages") => ~ (part = "pages")'
  BY PartStays
<1>5. [Pg!ClickHitsShownStep]_(Pg!pageVars) => Pg!ClickHitsShownStep
  BY DEF Pg!ClickHitsShownStep, Pg!pageVars, Pg!tables
<1>. QED
  BY <1>1, <1>2, <1>3, <1>4, <1>5, ClicksHitShown, PTL DEF Spec, PagesSpec, SwitchesHitShown

\* GameIni, for any files, names and values: however many sets there were, what get answers
\* is what a reader of the saved file finds, unless the file came with a key twice.
THEOREM SetsAreRead == Spec => []SetSticks
<1>1. Init /\ part = "ini" => Ini!IniInit
  BY DEF Init
<1>2. [Next]_vars /\ part = "ini" => [Ini!IniNext]_(Ini!iniVars)
  BY DEF Next, vars, iniPart, Ini!iniVars
<1>3. [Next]_vars /\ part = "ini" => (part = "ini")'
  BY PartStays
<1>4. [Next]_vars /\ ~ (part = "ini") => ~ (part = "ini")'
  BY PartStays
<1>5. SetSticks <=> (part = "ini" => Ini!SetSticks)
  BY DEF SetSticks
<1>. QED
  BY <1>1, <1>2, <1>3, <1>4, <1>5, SetsStick, PTL DEF Spec, IniSpec

\* write_dll_overrides, for any registry and DLLs: written twice is written once, and
\* the reader, which searches the text another way, finds every DLL overridden.
THEOREM OverridesAreRead == Spec => []OverridesHold
<1>1. Init /\ part = "reg" => Registry!RegInit
  BY DEF Init
<1>2. [Next]_vars /\ part = "reg" => [Registry!RegNext]_(Registry!regVars)
  BY DEF Next, vars, regPart, Registry!regVars
<1>3. [Next]_vars /\ part = "reg" => (part = "reg")'
  BY PartStays
<1>4. [Next]_vars /\ ~ (part = "reg") => ~ (part = "reg")'
  BY PartStays
<1>5. OverridesHold <=> (part = "reg" => Registry!WriteIsIdempotent /\ Registry!OverridesRead)
  BY DEF OverridesHold
<1>. QED
  BY <1>1, <1>2, <1>3, <1>4, <1>5, WritesAreRead, PTL DEF Spec, RegSpec

\* A set of a game INI, a write of the overrides and a switch of a page change nothing
\* but what they are about, for any files, registries and profiles.
THEOREM OthersAreLeft == Spec => OthersUntouched
<1>1. Spec => [][part = "ini" => Ini!OthersStayStep]_vars
  <2>1. Init /\ part = "ini" => Ini!IniInit
    BY DEF Init
  <2>2. [Next]_vars /\ part = "ini" => [Ini!IniNext]_(Ini!iniVars)
    BY DEF Next, vars, iniPart, Ini!iniVars
  <2>3. [Next]_vars /\ part = "ini" => (part = "ini")'
    BY PartStays
  <2>4. [Next]_vars /\ ~ (part = "ini") => ~ (part = "ini")'
    BY PartStays
  <2>5. [Ini!OthersStayStep]_(Ini!iniVars) => Ini!OthersStayStep
    BY DEF Ini!iniVars, Ini!OthersStayStep
  <2>. QED
    BY <2>1, <2>2, <2>3, <2>4, <2>5, SetsLeaveOthers, PTL DEF Spec, IniSpec
<1>2. Spec => [][part = "reg" => Registry!OthersReadStep]_vars
  <2>1. Init /\ part = "reg" => Registry!RegInit
    BY DEF Init
  <2>2. [Next]_vars /\ part = "reg" => [Registry!RegNext]_(Registry!regVars)
    BY DEF Next, vars, regPart, Registry!regVars
  <2>3. [Next]_vars /\ part = "reg" => (part = "reg")'
    BY PartStays
  <2>4. [Next]_vars /\ ~ (part = "reg") => ~ (part = "reg")'
    BY PartStays
  <2>5. UNCHANGED Registry!regVars => Registry!OthersReadStep
    <3>1. SUFFICES ASSUME reg' = reg PROVE Registry!OthersReadStep
      BY DEF Registry!regVars
    <3>2. \A p : Registry!Read(reg', p) = Registry!Read(reg, p)
      BY <3>1
    <3>. QED
      BY <3>2 DEF Registry!OthersReadStep
  <2>6. [Registry!OthersReadStep]_(Registry!regVars) => Registry!OthersReadStep
    BY <2>5
  <2>. QED
    BY <2>1, <2>2, <2>3, <2>4, <2>6, WritesLeaveOthers, PTL DEF Spec, RegSpec
<1>3. [(part = "ini" => Ini!OthersStayStep) /\ (part = "reg" => Registry!OthersReadStep)]_vars
        <=> /\ [part = "ini" => Ini!OthersStayStep]_vars
            /\ [part = "reg" => Registry!OthersReadStep]_vars
  OBVIOUS
<1>. QED
  BY <1>1, <1>2, <1>3, SwitchesHit, PTL DEF OthersUntouched

=============================================================================
