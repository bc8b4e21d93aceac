--------------------------- MODULE GameDetection ---------------------------
(***************************************************************************)
(* Finding the game: detect_all of game/steam.rs, by_app_id of              *)
(* game/games.rs, the prefix of game/proton.rs, and the one scan per        *)
(* process that load_game_state of state_worker.rs keeps.                   *)
(*                                                                          *)
(* Steam is another program: it changes its libraries while the scan reads  *)
(* one manifest after the other.                                            *)
(***************************************************************************)
EXTENDS Naturals, Sequences, SequencesExt

CONSTANTS
  Manifests,   \* the manifests in the order they are read: [lib, app]
  KnownApps,   \* the Steam ids of KNOWN_GAMES
  Loaders,     \* the threads that load a state
  MaxChanges,  \* bound: what Steam does
  MaxRestarts, \* bound
  None

Places == DOMAIN Manifests
Libraries == {Manifests[i].lib : i \in Places}
Apps == {Manifests[i].app : i \in Places}

VARIABLES
  disk,      \* what is behind every manifest
  readable,  \* the libraries whose list of apps can be read
  prefix,    \* the apps with a Proton prefix
  cell,      \* CACHED_GAME: empty, being filled by a loader, or its value
  scan,      \* the scan: how far it is, and the games so far
  got,       \* what load_game_state gave each loader
  everGot,   \* history: all that it gave in this process
  stirred,   \* history: Steam has changed something since the scan began
  changes, restarts

detectVars == <<disk, readable, prefix, cell, scan, got, everGot, stirred,
                changes, restarts>>

NoScan == [at |-> 0, games |-> <<>>, extras |-> <<>>]
Empty == [state |-> "empty", by |-> None, game |-> None]
NoGame == [app |-> None, at |-> None, proton |-> FALSE]

DetectInit ==
  /\ disk \in [Places -> {"nothing", "broken", "noexe", "game"}]
  /\ readable = Libraries /\ prefix = {}
  /\ cell = Empty /\ scan = NoScan
  /\ got = [t \in Loaders |-> None] /\ everGot = {} /\ stirred = FALSE
  /\ changes = 0 /\ restarts = 0

\* by_app_id knows the game, the library and the manifest can be read, and the
\* executable is there.
Detected(i) ==
  /\ Manifests[i].app \in KnownApps
  /\ Manifests[i].lib \in readable
  /\ disk[i] = "game"

Info(i) ==
  [app |-> Manifests[i].app, at |-> i, proton |-> Manifests[i].app \in prefix]

\* Mutant of CanFill: what was found is not kept.
CanFillAgain(t) == cell.state # "busy"

\* get_or_init runs one scan; who comes meanwhile waits for it.
CanFill(t) == cell.state = "empty"

StartScan(t) ==
  /\ got[t] = None /\ CanFill(t)
  /\ cell' = [state |-> "busy", by |-> t, game |-> None]
  /\ scan' = [NoScan EXCEPT !.at = 1] /\ stirred' = FALSE
  /\ UNCHANGED <<disk, readable, prefix, got, everGot, changes, restarts>>

\* No Steam, or no list of libraries: no game, for the life of the process.
ScanFails ==
  /\ cell.state = "busy" /\ scan.at = 1
  /\ cell' = [cell EXCEPT !.state = "failed", !.game = NoGame]
  /\ scan' = NoScan
  /\ got' = [got EXCEPT ![cell.by] = NoGame]
  /\ everGot' = everGot \cup {NoGame}
  /\ UNCHANGED <<disk, readable, prefix, stirred, changes, restarts>>

ReadManifest ==
  /\ cell.state = "busy" /\ scan.at \in Places
  /\ scan' = [scan EXCEPT !.at = @ + 1,
                          !.games = IF Detected(scan.at) THEN Append(@, Info(scan.at))
                                                         ELSE @]
  /\ UNCHANGED <<disk, readable, prefix, cell, got, everGot, stirred, changes, restarts>>

\* The i-th element of a set of positions, in their order.
Nth(at, i) == CHOOSE k \in at : Cardinality({j \in at : j <= k}) = i

\* The registry of a game's prefix may name another directory for it.
ReadRegistries ==
  /\ cell.state = "busy" /\ scan.at = Len(Manifests) + 1
  /\ \E more \in SUBSET {i \in DOMAIN scan.games : scan.games[i].proton} :
       scan' = [scan EXCEPT !.at = @ + 1,
                  !.extras = [i \in 1 .. Cardinality(more) |->
                     [scan.games[Nth(more, i)] EXCEPT !.at = None]]]
  /\ UNCHANGED <<disk, readable, prefix, cell, got, everGot, stirred, changes, restarts>>

\* The first of every game is kept: what a registry named never is.
Unique(games) ==
  LET at == {i \in DOMAIN games : \A j \in 1 .. i - 1 : games[j].app # games[i].app}
  IN [i \in 1 .. Cardinality(at) |-> games[Nth(at, i)]]

FirstOf(games) == IF games = <<>> THEN NoGame ELSE Head(games)

EndScan ==
  /\ cell.state = "busy" /\ scan.at = Len(Manifests) + 2
  /\ LET game == FirstOf(Unique(scan.games \o scan.extras))
     IN /\ cell' = [state |-> "full", by |-> cell.by, game |-> game]
        /\ got' = [got EXCEPT ![cell.by] = game]
        /\ everGot' = everGot \cup {game}
  /\ scan' = NoScan
  /\ UNCHANGED <<disk, readable, prefix, stirred, changes, restarts>>

TakeCached(t) ==
  /\ got[t] = None /\ cell.state \in {"full", "failed"}
  /\ got' = [got EXCEPT ![t] = cell.game] /\ everGot' = everGot \cup {cell.game}
  /\ UNCHANGED <<disk, readable, prefix, cell, scan, stirred, changes, restarts>>

\* The state is sent, and the thread will load another one.
Deliver(t) ==
  /\ got[t] # None /\ got' = [got EXCEPT ![t] = None]
  /\ UNCHANGED <<disk, readable, prefix, cell, scan, everGot, stirred, changes, restarts>>

SteamChanges ==
  /\ changes < MaxChanges /\ changes' = changes + 1 /\ stirred' = TRUE
  /\ \/ \E i \in Places, what \in {"nothing", "noexe", "game"} :
          disk' = [disk EXCEPT ![i] = what] /\ UNCHANGED <<readable, prefix>>
     \/ \E l \in Libraries :
          /\ readable' = IF l \in readable THEN readable \ {l} ELSE readable \cup {l}
          /\ UNCHANGED <<disk, prefix>>
     \/ \E a \in Apps : prefix' = prefix \cup {a} /\ UNCHANGED <<disk, readable>>
  /\ UNCHANGED <<cell, scan, got, everGot, restarts>>

Restart ==
  /\ restarts < MaxRestarts /\ restarts' = restarts + 1
  /\ cell' = Empty /\ scan' = NoScan
  /\ got' = [t \in Loaders |-> None] /\ everGot' = {}
  /\ UNCHANGED <<disk, readable, prefix, stirred, changes>>

ScanStep == ScanFails \/ ReadManifest \/ ReadRegistries \/ EndScan

DetectNext ==
  \/ \E t \in Loaders : StartScan(t) \/ TakeCached(t) \/ Deliver(t)
  \/ ScanStep \/ SteamChanges \/ Restart

-----------------------------------------------------------------------------
\* Every state of a process is about the same game: no loader ever sees another one
\* than the loaders before it, whatever Steam does and whoever comes during the scan.
OneGamePerProcess == \A a, b \in everGot : a = b

\* When nothing changed during the scan, the game is the one behind the first
\* manifest of a known game whose executable is there, and a registry has no say.
FirstGameWins ==
  LET there == {i \in Places : Detected(i)}
  IN cell.state = "full" /\ ~ stirred =>
       cell.game = IF there = {} THEN NoGame ELSE Info(Min(there))
=============================================================================
