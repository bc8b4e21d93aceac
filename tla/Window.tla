------------------------------- MODULE Window -------------------------------
(***************************************************************************)
(* How the window follows the database: the state worker and its reload    *)
(* threads (mantle_ui/state_worker.rs), the event bus                      *)
(* (mantle_core/plugin/event.rs), the channel of snapshots the idle loop   *)
(* drains (mantle_ui/window.rs), the switches and activate buttons of the  *)
(* mods, profiles and overview pages, and installs, which run beside them. *)
(*                                                                         *)
(* The worker and every reload open the database for themselves, and the   *)
(* first of them on a new file runs the migration (data/schema.rs).        *)
(*                                                                         *)
(* The threads are connections of Profiles: every statement they run is a  *)
(* step of that module.  A snapshot is read statement by statement.        *)
(***************************************************************************)
EXTENDS Profiles, Sequences

CONSTANTS
  Gtk,          \* the thread of the window: handlers and the idle loop
  Worker,       \* the thread of state_worker::spawn
  Reloads,      \* the threads of trigger_reload; none starts twice, so this
                \* bounds the clicks
  Installers    \* the threads of install_mod_archive

ASSUME WindowAssumption ==
  /\ Conns = {Gtk, Worker} \cup Reloads \cup Installers
  /\ Gtk # Worker /\ {Gtk, Worker} \cap (Reloads \cup Installers) = {}
  /\ Reloads \cap Installers = {}

VARIABLES
  schema,       \* the one migration, m001, is applied
  load,         \* load[c]: where thread c is in load_state, and what it read
  subs,         \* how many of the four subscriptions the worker has made
  gtk,          \* what the handler that runs on the GTK thread does next
  chan,         \* the mpsc channel of snapshots
  shown,        \* the snapshot the pages were built from
  scanned,      \* CACHED_PLUGINS holds the result of a scan
  failed        \* a reload gave up on an error and only logged it

windowVars == <<schema, load, subs, gtk, chan, shown, scanned, failed>>
allVars == <<vars, windowVars>>

Loaders == {Gtk, Worker} \cup Reloads

\* In the order of their subscription.
Subscriptions == <<"ModInstalled", "ModEnabled", "ModDisabled", "ProfileChanged">>
Events == {Subscriptions[i] : i \in 1 .. 4}
Subscribed(e) == \E i \in 1 .. subs : Subscriptions[i] = e

\* ModEnabled and ModDisabled reload with RefreshScope::ModsOnly.
ScopeOf(e) == IF e \in {"ModEnabled", "ModDisabled"} THEN "ModsOnly" ELSE "Full"

\* AppState, and what it is before the first reload.
Snapshots ==
  [profiles : SUBSET ProfileIds,          \* the rows of the profiles page
   flagged  : SUBSET ProfileIds,          \* those with the active badge
   profile  : ProfileIds \cup {None},     \* active_profile
   order    : Orders, on : SUBSET ModIds, \* its mods and their switches
   plugins  : BOOLEAN]                    \* the list of a scan, not an empty one
Placeholder == [profiles |-> {}, flagged |-> {}, profile |-> None,
                order |-> << >>, on |-> {}, plugins |-> FALSE]

WindowTypeOK ==
  /\ TypeOK
  /\ schema \in BOOLEAN
  /\ load \in [Loaders ->
       [at    : {"idle", "open", "migrate", "dead", "ensure", "ensuring", "list", "active", "mods",
                 "plugins", "send", "gone"},
        scope : {"Full", "ModsOnly"},
        snap  : Snapshots]]
  /\ subs \in 0 .. 4
  /\ gtk \in [at    : {"idle", "setActive", "publish", "refresh"},
              event : Events \cup {None}]
  /\ chan \in Seq(Snapshots) /\ shown \in Snapshots
  /\ scanned \in BOOLEAN /\ failed \in BOOLEAN

\* The database of an earlier session, its mods in every profile.
EarlierSession ==
  \E p \in ProfileIds, f \in [ModIds -> 1 .. Cardinality(ModIds)] :
    /\ OneToOne(f)
    /\ profiles = ProfileIds /\ active = {p} /\ mods = ModIds
    /\ prio = [q \in ProfileIds |-> f]
    /\ enabled = [q \in ProfileIds |-> ModIds]
    /\ spent = [profiles |-> ProfileIds, mods |-> ModIds]

\* Where a thread begins that opens the database.
AtOpen(migrated) == IF migrated THEN "ensure" ELSE "open"

WindowInit ==
  /\ \/ EmptyDb /\ schema = FALSE
     \/ EarlierSession /\ schema = TRUE
  /\ call = [c \in Conns |-> Idle]
  /\ load = [c \in Loaders |->
       [at |-> IF c = Worker THEN AtOpen(schema) ELSE "idle", scope |-> "Full",
        snap |-> Placeholder]]
  /\ subs = 0 /\ gtk = [at |-> "idle", event |-> None]
  /\ chan = << >> /\ shown = Placeholder
  /\ scanned = FALSE /\ failed = FALSE

(***************************************************************************)
(* load_state, run by resend_state: one step per statement.                *)
(***************************************************************************)

At(c, a) == c \in Loaders /\ load[c].at = a
GoTo(c, a) == load' = [load EXCEPT ![c].at = a]
Fill(c, a, s) == load' = [load EXCEPT ![c].at = a, ![c].snap = s]

\* resend_state is over; only the GTK thread will run it again.
Resent(c) ==
  load' = [load EXCEPT ![c].at = IF c = Gtk THEN "idle" ELSE "gone",
                       ![c].snap = Placeholder]

RestOfWindow == UNCHANGED <<schema, subs, gtk, chan, shown, scanned, failed>>

\* run_migrations reads the version outside the transaction of the script.
ReadVersion(c) ==
  /\ At(c, "open")
  /\ GoTo(c, IF schema THEN "ensure" ELSE "migrate") /\ RestOfWindow
  /\ UNCHANGED vars

\* BEGIN EXCLUSIVE ... COMMIT.  Another thread has come first: its tables are
\* there, CREATE TABLE fails, and the thread ends without a connection.
Migrate(c) ==
  /\ At(c, "migrate")
  /\ schema' = TRUE
  /\ GoTo(c, IF schema THEN "dead" ELSE "ensure")
  /\ UNCHANGED <<subs, gtk, chan, shown, scanned, failed, vars>>

\* ensure_default finds a profile.
FoundProfiles(c) ==
  /\ At(c, "ensure") /\ profiles # {}
  /\ GoTo(c, "list") /\ RestOfWindow
  /\ UNCHANGED vars

\* ensure_default finds none: it inserts Default and activates it.
Ensure(c) ==
  /\ \/ At(c, "ensure") /\ EnsureDefault(c) /\ GoTo(c, "ensuring")
     \/ At(c, "ensuring") /\ InsertDefault(c) /\ UNCHANGED load
     \/ At(c, "ensuring") /\ ActivateDefault(c) /\ call'[c] # Idle /\ UNCHANGED load
     \/ At(c, "ensuring") /\ CommitActive(c) /\ GoTo(c, "list")
  /\ RestOfWindow

\* An error of ensure_default ends the reload: another one inserted Default
\* first, or the new row is gone.
EnsureRefused(c) ==
  /\ At(c, "ensuring")
  /\ InsertNameRefused(c) \/ (ActivateDefault(c) /\ call'[c] = Idle)
  /\ Resent(c)
  /\ RestOfWindow

ReadProfiles(c) ==
  /\ At(c, "list")
  /\ Fill(c, "active", [load[c].snap EXCEPT !.profiles = profiles, !.flagged = active])
  /\ RestOfWindow
  /\ UNCHANGED vars

ReadActiveProfile(c) ==
  /\ At(c, "active")
  /\ \/ active = {} /\ GoTo(c, "plugins")
     \/ \E p \in active : Fill(c, "mods", [load[c].snap EXCEPT !.profile = p])
  /\ RestOfWindow
  /\ UNCHANGED vars

ReadMods(c) ==
  LET p == load[c].snap.profile IN
  /\ At(c, "mods")
  /\ Fill(c, "plugins", [load[c].snap EXCEPT !.order = ListOf(p), !.on = enabled[p]])
  /\ RestOfWindow
  /\ UNCHANGED vars

\* Mutant of ReadPlugins: the result of a scan is not kept.
ScanOnly(c) ==
  /\ At(c, "plugins")
  /\ Fill(c, "send", [load[c].snap EXCEPT !.plugins = scanned \/ load[c].scope = "Full"])
  /\ RestOfWindow
  /\ UNCHANGED vars

\* Full scans and fills the cache, ModsOnly takes what is there.
ReadPlugins(c) ==
  /\ At(c, "plugins")
  /\ scanned' = (scanned \/ load[c].scope = "Full")
  /\ Fill(c, "send", [load[c].snap EXCEPT !.plugins = scanned'])
  /\ UNCHANGED <<schema, subs, gtk, chan, shown, failed>>
  /\ UNCHANGED vars

SendSnapshot(c) ==
  /\ At(c, "send")
  /\ chan' = Append(chan, load[c].snap)
  /\ Resent(c)
  /\ UNCHANGED <<schema, subs, gtk, shown, scanned, failed>>
  /\ UNCHANGED vars

\* A query fails (the database is busy): resend_state logs it.  A failure
\* between two writes of ensure_default is the Abort of ModList, explored there.
ReloadFails(c) ==
  /\ load[c].at \in {"ensure", "list", "active", "mods"}
  /\ failed' = TRUE
  /\ Resent(c)
  /\ UNCHANGED <<schema, subs, gtk, chan, shown, scanned>>
  /\ UNCHANGED vars

LoadStep(c) ==
  \/ ReadVersion(c) \/ Migrate(c) \/ FoundProfiles(c) \/ Ensure(c) \/ EnsureRefused(c)
  \/ ReadProfiles(c) \/ ReadActiveProfile(c) \/ ReadMods(c)
  \/ ReadPlugins(c) \/ SendSnapshot(c)

(***************************************************************************)
(* The worker subscribes once its first reload is over.                    *)
(***************************************************************************)

Subscribe ==
  /\ At(Worker, "gone") /\ subs < 4
  /\ subs' = subs + 1
  /\ UNCHANGED <<schema, load, gtk, chan, shown, scanned, failed>>
  /\ UNCHANGED vars

(***************************************************************************)
(* The GTK thread.                                                         *)
(***************************************************************************)

\* The main loop is between two callbacks.
GtkIdle == gtk.at = "idle"

\* A click is explored when a thread is left for its reload.
MayClick == GtkIdle /\ \E c \in Reloads : At(c, "idle")

Handler(a, e) == gtk' = [at |-> a, event |-> e]
RestOfGtk == UNCHANGED <<schema, load, subs, chan, shown, scanned, failed>>

\* A mod's switch writes to the profile the row was built from.  The switches
\* of the mods page publish; those of the overview page only refresh.
FlipSwitch ==
  /\ MayClick
  /\ \E m \in DOMAIN shown.order, b \in BOOLEAN :
       /\ SetEnabledFlag(shown.profile, m, b)
       /\ \/ Handler("publish", IF b THEN "ModEnabled" ELSE "ModDisabled")
          \/ Handler("refresh", None)
  /\ UNCHANGED call
  /\ RestOfGtk

\* The activate button of the profiles page, or a row of the overview's switcher.
Activate ==
  /\ MayClick
  /\ SetActive(Gtk) /\ call'[Gtk].pid \in shown.profiles
  /\ Handler("setActive", None)
  /\ RestOfGtk

\* The profiles page, whose button a row with the badge lacks, publishes; the
\* switcher does not.
Activated ==
  /\ gtk.at = "setActive"
  /\ CommitActive(Gtk)
  /\ \/ call[Gtk].pid \notin shown.flagged /\ Handler("publish", "ProfileChanged")
     \/ Handler("refresh", None)
  /\ RestOfGtk

\* A button that changes nothing here and refreshes, as those of the downloads.
PressOther ==
  /\ MayClick
  /\ Handler("refresh", None)
  /\ RestOfGtk /\ UNCHANGED vars

\* EventBus::publish runs the handlers on the calling thread: the GTK thread
\* reloads by itself.  An event nobody subscribed to is gone.
Publish ==
  /\ gtk.at = "publish"
  /\ load' = IF Subscribed(gtk.event)
             THEN [load EXCEPT ![Gtk].at = "ensure", ![Gtk].scope = ScopeOf(gtk.event)]
             ELSE load
  /\ Handler("refresh", None)
  /\ UNCHANGED <<schema, subs, chan, shown, scanned, failed>>
  /\ UNCHANGED vars

\* Mutant of Refresh: a handler whose event was published does not refresh.
RefreshUnheard ==
  /\ gtk.at = "refresh" /\ At(Gtk, "idle")
  /\ Handler("idle", None)
  /\ RestOfGtk /\ UNCHANGED vars

\* refresh(): trigger_reload spawns a thread, and the handler returns.
Refresh ==
  /\ gtk.at = "refresh" /\ At(Gtk, "idle")
  /\ \E c \in Reloads : At(c, "idle") /\ GoTo(c, AtOpen(schema))
  /\ Handler("idle", None)
  /\ UNCHANGED <<schema, subs, chan, shown, scanned, failed>>
  /\ UNCHANGED vars

\* The idle source: one snapshot, whichever thread it is from.
ShowSnapshot ==
  /\ GtkIdle /\ chan # << >>
  /\ shown' = Head(chan) /\ chan' = Tail(chan)
  /\ UNCHANGED <<schema, load, subs, gtk, scanned, failed>>
  /\ UNCHANGED vars

GtkStep == Activated \/ Publish \/ LoadStep(Gtk) \/ Refresh \/ ShowSnapshot

(***************************************************************************)
(* An install registers the mod and publishes nothing.                     *)
(***************************************************************************)

\* A re-install changes nothing the window shows; it is explored in Profiles.
\* The database is there before an archive is chosen and unpacked.
Install(c) ==
  /\ schema
  /\ \/ InstallMod(c) /\ call'[c].at = "insertMod"
     \/ InsertMod(c) \/ InsertModRefused(c) \/ ReadActive(c) \/ CountRow(c)
     \/ ReadMaxPriority(c) \/ InsertProfileMod(c) \/ InsertRefused(c)
  /\ UNCHANGED windowVars

(***************************************************************************)
(* Specification: threads run to their end and the main loop goes on;      *)
(* nobody has to click or install.                                         *)
(***************************************************************************)

WindowNext ==
  \/ \E c \in Loaders : LoadStep(c) \/ ReloadFails(c)
  \/ Subscribe
  \/ FlipSwitch \/ Activate \/ PressOther \/ GtkStep
  \/ \E c \in Installers : Install(c)

WindowSpec ==
  /\ WindowInit
  /\ [][WindowNext]_allVars
  /\ \A c \in Reloads : WF_allVars(LoadStep(c))
  /\ WF_allVars(LoadStep(Worker) \/ Subscribe)
  /\ WF_allVars(GtkStep)

(***************************************************************************)
(* Properties.                                                             *)
(***************************************************************************)

\* The first reload fills the plugin cache before the first switch can be
\* flipped: no snapshot comes with the empty list the cache starts with,
\* whichever scope it was read with and whichever reload failed.
PluginsKnown == \A i \in DOMAIN chan : chan[i].plugins

\* The window always leaves its placeholder for a profile, however the worker
\* and the reloads race through the migration and ensure_default on a new
\* database: who loses the migration ends, and who wins delivers.
StartShown == <>(shown.profile # None \/ failed)

\* trigger_reload's documentation: what a click wrote reaches the window, also
\* when its event is published before the worker has subscribed.
ClickShown ==
  \A S \in SUBSET ModIds :
    LET Holds == \E p \in active : enabled[p] = S IN
    gtk.at \in {"publish", "refresh"} /\ Holds
      ~> (shown.profile \in active /\ shown.on = S) \/ ~ Holds \/ failed

\* What the threads read, write and send is fit to be shown.
StateSound == WindowTypeOK /\ OneActiveWhenQuiet /\ PluginsKnown
=============================================================================
