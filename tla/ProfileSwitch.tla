--------------------------- MODULE ProfileSwitch ---------------------------
(***************************************************************************)
(* Switching profiles: activate_profile of profile/mod.rs with the INI      *)
(* files of game/ini.rs (apply_profile_ini, snapshot_profile_ini).  The     *)
(* mount and the teardown are those of module Vfs, each as one step: an     *)
(* overlay file system, or a farm of links, which no list of mounts shows.  *)
(* The calls come one at a time, as their caller holds the connection.      *)
(***************************************************************************)
EXTENDS Naturals, Sequences

CONSTANTS
  Profiles, Inis,   \* the profiles, and the INI files of the game
  Contents,         \* what an INI file may hold
  MaxCalls,         \* bound: switches and snapshots
  MaxWrites,        \* bound: the game's own writes
  None, Torn        \* no such file, and half of one

VARIABLES
  active,     \* the row that is active
  farms,      \* the backend is the farm of links
  escaped,    \* the game directory's path is one mountinfo writes with escapes
  overlay,    \* whose mods are mounted on the game directory, the top first
  links,      \* the profiles whose links lie in the game directory
  handle,     \* whose MountHandle the caller holds
  gameIni,    \* the INI files of the game
  snap,       \* those kept for each profile
  call,       \* the call in progress
  told,       \* the profile of the last ProfileChanged, until the next call
  mixed,      \* history: an INI file has not been copied, or the game wrote one, since
              \* the last switch began
  stranded,   \* history: links or overlays lie there that teardown has left
  calls, written

switchVars == <<active, farms, escaped, overlay, links, handle, stranded, gameIni, snap,
                call, told, mixed, calls, written>>
bounds == <<calls, written>>
mounts == <<farms, escaped, overlay, links, handle, stranded>>

NoCall == [at |-> "idle", to |-> None, left |-> {}]

SwitchInit ==
  /\ active = None /\ farms \in BOOLEAN /\ escaped \in BOOLEAN
  /\ overlay = <<>> /\ links = {} /\ handle = None /\ stranded = FALSE
  /\ gameIni \in [Inis -> Contents \cup {None}]
  /\ snap = [p \in Profiles |-> [f \in Inis |-> None]]
  /\ call = NoCall /\ told = None /\ mixed = FALSE
  /\ calls = 0 /\ written = 0

Goto(step) == call' = [call EXCEPT !.at = step]

Activate(p) ==
  /\ call.at = "idle" /\ calls < MaxCalls /\ calls' = calls + 1
  /\ call' = [NoCall EXCEPT !.at = "teardown", !.to = p]
  /\ told' = None /\ mixed' = FALSE
  /\ UNCHANGED <<active, mounts, gameIni, snap, written>>

\* An error ends the call with what was done so far.
Return ==
  /\ call' = NoCall
  /\ UNCHANGED <<told, mixed>>

\* Mutant of Teardown: an overlay that cannot be unmounted is only logged.
TeardownLogged ==
  /\ call.at = "teardown"
  /\ overlay' \in {<<>>, overlay}
  /\ Goto("activate") /\ UNCHANGED <<told, mixed>>
  /\ stranded' = (stranded \/ links # {})
  /\ UNCHANGED <<active, farms, escaped, links, handle, gameIni, snap, bounds>>

\* is_mounted of vfs/cleanup.rs, which does not know an escaped path again.
IsMounted == overlay # <<>> /\ ~ escaped

\* teardown_stale: the overlay on top, if one is found, is unmounted, or the call
\* ends.  A farm, and an overlay that is not found, stay.
Teardown ==
  /\ call.at = "teardown"
  /\ \/ Return /\ UNCHANGED <<overlay, stranded>>
     \/ /\ overlay' = IF IsMounted THEN Tail(overlay) ELSE overlay
        /\ stranded' = (stranded \/ links # {} \/ overlay' # <<>>)
        /\ Goto("activate") /\ UNCHANGED <<told, mixed>>
  /\ UNCHANGED <<active, farms, escaped, links, handle, gameIni, snap, bounds>>

SetActive ==
  /\ call.at = "activate"
  /\ \/ active' = call.to /\ Goto("mount") /\ UNCHANGED <<told, mixed>>
     \/ UNCHANGED active /\ Return
  /\ UNCHANGED <<mounts, gameIni, snap, bounds>>

\* The enabled mods of the profile are read and mounted, over what is mounted still.
Overlaid ==
  /\ overlay' = IF farms THEN overlay ELSE <<call.to>> \o overlay
  /\ links' = IF farms THEN links \cup {call.to} ELSE links
  /\ handle' = call.to
  /\ UNCHANGED stranded

\* Then the snapshot is opened, if the caller has given the directory of the game's
\* INI files: without a snapshot there is nothing to copy.  A farm may fail half-way
\* and leave its links.
Mount ==
  /\ call.at = "mount"
  /\ \/ /\ Overlaid
        /\ call' = [call EXCEPT !.at = "apply",
                                !.left = {f \in Inis : snap[call.to][f] # None}]
        /\ UNCHANGED <<told, mixed>>
     \/ Overlaid /\ Goto("apply") /\ mixed' = TRUE /\ UNCHANGED told
     \/ Return /\ UNCHANGED <<overlay, handle, links, stranded>>
     \/ /\ farms /\ links' = links \cup {call.to} /\ stranded' = TRUE
        /\ Return /\ UNCHANGED <<overlay, handle>>
  /\ UNCHANGED <<active, farms, escaped, gameIni, snap, bounds>>

ApplyFile ==
  /\ call.at = "apply"
  /\ \E f \in call.left :
       /\ gameIni' = [gameIni EXCEPT ![f] = snap[call.to][f]]
       /\ call' = [call EXCEPT !.left = @ \ {f}]
  /\ UNCHANGED <<active, mounts, snap, told, mixed, bounds>>

\* A copy stops with nothing or half of the file written: a warning, and the call
\* goes on without the other files.
ApplyFails ==
  /\ call.at = "apply"
  /\ \E f \in call.left :
       gameIni' \in {gameIni, [gameIni EXCEPT ![f] = Torn]}
  /\ call' = [call EXCEPT !.left = {}] /\ mixed' = TRUE
  /\ UNCHANGED <<active, mounts, snap, told, bounds>>

\* ProfileChanged is published and the handle given to the caller.
Publish ==
  /\ call.at = "apply" /\ call.left = {}
  /\ told' = call.to /\ call' = NoCall
  /\ UNCHANGED <<active, mounts, gameIni, snap, mixed, bounds>>

\* snapshot_profile_ini of the active profile: it copies what the game has, one file
\* after the other, and removes nothing from the snapshot.
BeginSnapshot ==
  /\ call.at = "idle" /\ active # None /\ calls < MaxCalls /\ calls' = calls + 1
  /\ call' = [at |-> "snapshot", to |-> active,
              left |-> {f \in Inis : gameIni[f] # None}]
  /\ told' = None
  /\ UNCHANGED <<active, mounts, gameIni, snap, mixed, written>>

KeepFile ==
  /\ call.at = "snapshot"
  /\ \E f \in call.left :
       /\ snap' = [snap EXCEPT ![call.to][f] = gameIni[f]]
       /\ call' = [call EXCEPT !.left = @ \ {f}]
  /\ UNCHANGED <<active, mounts, gameIni, told, mixed, bounds>>

KeepFails ==
  /\ call.at = "snapshot"
  /\ \E f \in call.left : snap' \in {snap, [snap EXCEPT ![call.to][f] = Torn]}
  /\ call' = NoCall
  /\ UNCHANGED <<active, mounts, gameIni, told, mixed, bounds>>

SnapshotDone ==
  /\ call.at = "snapshot" /\ call.left = {}
  /\ call' = NoCall
  /\ UNCHANGED <<active, mounts, gameIni, snap, told, mixed, bounds>>

\* The caller unmounts, and the game writes its settings whenever it likes.
Unmount ==
  /\ call.at = "idle" /\ handle # None
  /\ handle' = None /\ told' = None
  /\ IF farms THEN links' = links \ {handle} /\ UNCHANGED overlay
              ELSE /\ overlay' = IF overlay = <<>> THEN overlay ELSE Tail(overlay)
                   /\ UNCHANGED links
  /\ UNCHANGED <<active, farms, escaped, stranded, gameIni, snap, call, mixed, bounds>>

GameWrites ==
  /\ written < MaxWrites /\ written' = written + 1
  /\ \E f \in Inis, c \in Contents : gameIni' = [gameIni EXCEPT ![f] = c]
  /\ mixed' = TRUE
  /\ UNCHANGED <<active, mounts, snap, call, told, calls>>

SwitchNext ==
  \/ \E p \in Profiles : Activate(p)
  \/ Teardown \/ SetActive \/ Mount \/ ApplyFile \/ ApplyFails \/ Publish
  \/ BeginSnapshot \/ KeepFile \/ KeepFails \/ SnapshotDone \/ Unmount \/ GameWrites

-----------------------------------------------------------------------------
Shown == links \cup IF overlay = <<>> THEN {} ELSE {Head(overlay)}

\* Whatever step of activate_profile fails, the game directory shows the mods of the
\* active profile or none, never those of the profile that was left, unless teardown
\* has left something there: the links of a farm that failed or was not unmounted
\* before the switch, or an overlay it could not find under an escaped path.
ShownIsActive == ~ stranded => Shown \subseteq {active}

\* Whoever is told of a switch finds the profile active and mounted and, unless a
\* file was not copied or the game wrote one meanwhile, every INI file of its
\* snapshot in place of the former profile's.
ChangedMeansAll ==
  told # None =>
    /\ active = told /\ told \in Shown
    /\ ~ mixed =>
         \A f \in Inis : snap[told][f] # None => gameIni[f] = snap[told][f]

\* activate_profile shows no mods of another profile, and tells of a switch only
\* when it is complete.
SwitchTrue == ShownIsActive /\ ChangedMeansAll
=============================================================================
