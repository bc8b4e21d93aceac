-------------------------------- MODULE Skse --------------------------------
(***************************************************************************)
(* Installing the script extender: the button of skse.rs, install_skse and  *)
(* extract_and_flatten of skse/mod.rs, download_file of skse/download.rs,   *)
(* the versions of skse/version.rs and the registry of skse/proton.rs.      *)
(*                                                                          *)
(* The button passes the path of Data to install_skse as its game_dir, and   *)
(* so all of a release goes there, the version file too.  The root of the    *)
(* game, which the documentation of install_skse means and in which the      *)
(* worker looks for the version file, is another directory, and not modelled. *)
(*                                                                          *)
(* A version is a number, 0 for none, and a file of Data has the version it *)
(* came with.  Releases only go up, and the address of the archive gives    *)
(* what is newest when it is asked.  The renaming of all of Data to lower    *)
(* case is the one of module Install; the names here are in lower case.     *)
(* Every state the window is sent makes the button sensitive again, so that  *)
(* two installs can run at a time; they share the archive and everything     *)
(* that comes after it.                                                      *)
(***************************************************************************)
EXTENDS Naturals

CONSTANTS
  Jobs,              \* bound: the threads that may run at a time
  SeFiles, Loader,   \* what a release consists of, and its loader
  MaxVersion,        \* bound: the last release
  MaxRetries,        \* DownloadConfig::max_retries
  MaxClicks,         \* bound on the clicks
  Bad, Torn          \* no archive; half a file

ASSUME SkseAssumption ==
  /\ Loader \in SeFiles /\ MaxVersion \in Nat \ {0} /\ MaxRetries \in Nat
  /\ Bad \notin Nat /\ Torn \notin Nat

Versions == 0 .. MaxVersion

VARIABLES
  server,     \* the newest release
  game,       \* the version of each file in Data
  marker,     \* the version file in Data
  archive,    \* the file in the temporary directory
  prefix,     \* the Proton prefix: none, without user.reg, or with it
  overrides,  \* the DLL overrides are in user.reg
  seJob,      \* the installs, one per thread
  button,     \* it can be pressed
  told,       \* what the last message said
  overlapped, \* history: two installs have run at a time
  clicks, seCrashes

seVars == <<server, game, marker, archive, prefix, overrides, seJob, button, told,
            overlapped, clicks, seCrashes>>
gameDisk == <<game, marker, archive, overrides>>
outside == <<server, prefix, overlapped, clicks, seCrashes>>

Idle == [at |-> "idle", latest |-> 0, attempt |-> 0, bring |-> 0, todo |-> {},
         wrote |-> FALSE, answer |-> "none"]
Untold == [what |-> "nothing", version |-> 0, wrote |-> FALSE]

SeInit ==
  /\ server = 1
  /\ game = [f \in SeFiles |-> 0] /\ marker = 0 /\ archive = 0
  /\ prefix = "none" /\ overrides = FALSE
  /\ seJob = [j \in Jobs |-> Idle] /\ button = TRUE /\ told = Untold
  /\ overlapped = FALSE /\ clicks = 0 /\ seCrashes = 0

Running == {j \in Jobs : seJob[j].at # "idle"}

\* The button is insensitive until the install is over or a state arrives.  The
\* install is given game_data_path, which is Data.
Press(j) ==
  /\ seJob[j].at = "idle" /\ button /\ clicks < MaxClicks
  /\ clicks' = clicks + 1 /\ button' = FALSE
  /\ seJob' = [seJob EXCEPT ![j] = [Idle EXCEPT !.at = "check"]]
  /\ overlapped' = (overlapped \/ Running # {})
  /\ told' = Untold
  /\ UNCHANGED <<server, prefix, seCrashes>> /\ UNCHANGED gameDisk

\* The idle loop of the window: the game supports a script extender.
DeliverState ==
  /\ ~ button /\ button' = TRUE
  /\ UNCHANGED <<seJob, told>> /\ UNCHANGED gameDisk /\ UNCHANGED outside

\* The thread sends its result and ends ...
Answer(j, what, version) ==
  seJob' = [seJob EXCEPT ![j] = [@ EXCEPT !.at = "sent", !.answer = what,
    !.latest = version, !.todo = {}, !.attempt = 0, !.bring = 0]]
Fail(j) == Answer(j, "failed", 0)
Quiet == UNCHANGED <<button, told>> /\ UNCHANGED outside

\* ... or panics when it has no runtime, and the channel is disconnected.
Panics(j) ==
  /\ seJob[j].at = "check"
  /\ seJob' = [seJob EXCEPT ![j] = [@ EXCEPT !.at = "lost"]]
  /\ UNCHANGED gameDisk /\ Quiet

Result(j) ==
  IF seJob[j].at = "lost" THEN told
  ELSE [what |-> seJob[j].answer, version |-> seJob[j].latest, wrote |-> seJob[j].wrote]

\* Mutant of Poll: a disconnected channel ends the loop without on_done.
PollAnswers(j) ==
  /\ seJob[j].at \in {"sent", "lost"}
  /\ button' = (seJob[j].at = "sent")
  /\ told' = Result(j) /\ seJob' = [seJob EXCEPT ![j] = Idle]
  /\ UNCHANGED gameDisk /\ UNCHANGED outside

\* The idle loop shows the message and calls on_done.
Poll(j) ==
  /\ seJob[j].at \in {"sent", "lost"}
  /\ button' = TRUE
  /\ told' = Result(j) /\ seJob' = [seJob EXCEPT ![j] = Idle]
  /\ UNCHANGED gameDisk /\ UNCHANGED outside

-----------------------------------------------------------------------------
\* latest_version, and the comparison with the version file.
CheckVersion(j) ==
  /\ seJob[j].at = "check"
  /\ \/ Fail(j)
     \/ marker >= server /\ Answer(j, "upToDate", marker)
     \/ /\ marker < server
        /\ seJob' = [seJob EXCEPT ![j] = [@ EXCEPT !.at = "request", !.latest = server]]
  /\ UNCHANGED gameDisk /\ Quiet

\* A network error, a status 5xx or a broken stream is tried again, a status 4xx
\* is not.  The temporary file of an attempt is gone, and dest as it was.
RequestFails(j) ==
  /\ seJob[j].at = "request"
  /\ \/ Fail(j)
     \/ /\ seJob[j].attempt < MaxRetries
        /\ seJob' = [seJob EXCEPT ![j].attempt = @ + 1]
  /\ UNCHANGED gameDisk /\ Quiet

\* The archive appears whole; what the server sent may be no archive.
Downloaded(j) ==
  /\ seJob[j].at = "request"
  /\ archive' \in {server, Bad}
  /\ seJob' = [seJob EXCEPT ![j] = [@ EXCEPT !.at = "format"]]
  /\ UNCHANGED <<game, marker, overrides>> /\ Quiet

CheckFormat(j) ==
  /\ seJob[j].at = "format"
  /\ IF archive \in {Bad, 0}
       THEN archive' = 0 /\ Fail(j)
       ELSE /\ seJob' = [seJob EXCEPT ![j] = [@ EXCEPT !.at = "extract"]]
            /\ UNCHANGED archive
  /\ UNCHANGED <<game, marker, overrides>> /\ Quiet

\* extract_and_flatten: into a directory of its own, which goes away with it ...
Extract(j) ==
  /\ seJob[j].at = "extract"
  /\ \/ Fail(j)
     \/ /\ archive \notin {Bad, 0}
        /\ seJob' = [seJob EXCEPT ![j] = [@ EXCEPT !.at = "move", !.bring = archive,
                                               !.todo = SeFiles]]
  /\ UNCHANGED gameDisk /\ Quiet

\* ... and from there one by one to Data.
MoveEntry(j) ==
  /\ seJob[j].at = "move"
  /\ \E f \in seJob[j].todo :
       /\ game' = [game EXCEPT ![f] = seJob[j].bring]
       /\ seJob' = [seJob EXCEPT ![j].todo = @ \ {f}]
  /\ UNCHANGED <<marker, archive, overrides>> /\ Quiet

\* Mutant of MoveFails: the error is logged and the next entry taken.
MoveFailsOn(j) ==
  /\ seJob[j].at = "move"
  /\ \E f \in seJob[j].todo :
       /\ game' = [game EXCEPT ![f] = Torn]
       /\ seJob' = [seJob EXCEPT ![j].todo = @ \ {f}]
  /\ UNCHANGED <<marker, archive, overrides>> /\ Quiet

\* An entry that cannot be renamed is copied, which may stop in the middle.
MoveFails(j) ==
  /\ seJob[j].at = "move"
  /\ \E f \in seJob[j].todo :
       \/ UNCHANGED game
       \/ game' = [game EXCEPT ![f] = Torn]
  /\ Fail(j)
  /\ UNCHANGED <<marker, archive, overrides>> /\ Quiet

\* Everything is there, the loader too.
Validate(j) ==
  /\ seJob[j].at = "move" /\ seJob[j].todo = {}
  /\ IF game[Loader] = 0 THEN Fail(j)
     ELSE seJob' = [seJob EXCEPT ![j] = [@ EXCEPT !.at = "reg"]]
  /\ UNCHANGED gameDisk /\ Quiet

\* write_dll_overrides: atomic, and nothing without a user.reg.
WriteOverrides(j) ==
  /\ seJob[j].at = "reg"
  /\ \/ /\ prefix = "none"
        /\ seJob' = [seJob EXCEPT ![j] = [@ EXCEPT !.at = "marker"]]
        /\ UNCHANGED overrides
     \/ /\ prefix # "none"
        /\ seJob' = [seJob EXCEPT ![j] = [@ EXCEPT !.at = "marker", !.wrote = TRUE]]
        /\ overrides' = (overrides \/ prefix = "ready")
     \/ prefix # "none" /\ Fail(j) /\ UNCHANGED overrides
  /\ UNCHANGED <<game, marker, archive>> /\ Quiet

\* The version file is cut off and then written: half of it reads as no version.
TruncateMarker(j) ==
  /\ seJob[j].at = "marker"
  /\ marker' = 0
  /\ \/ Fail(j)
     \/ seJob' = [seJob EXCEPT ![j] = [@ EXCEPT !.at = "version"]]
  /\ UNCHANGED <<game, archive, overrides>> /\ Quiet

WriteMarker(j) ==
  /\ seJob[j].at = "version"
  /\ marker' = seJob[j].latest
  /\ seJob' = [seJob EXCEPT ![j] = [@ EXCEPT !.at = "clean"]]
  /\ UNCHANGED <<game, archive, overrides>> /\ Quiet

\* The archive goes, or a warning is logged.
CleanUp(j) ==
  /\ seJob[j].at = "clean"
  /\ archive' \in {archive, 0}
  /\ Answer(j, "installed", seJob[j].latest)
  /\ UNCHANGED <<game, marker, overrides>> /\ Quiet

JobStep(j) ==
  \/ Panics(j) \/ CheckVersion(j) \/ RequestFails(j) \/ Downloaded(j)
  \/ CheckFormat(j) \/ Extract(j)
  \/ MoveEntry(j) \/ MoveFails(j) \/ Validate(j) \/ WriteOverrides(j)
  \/ TruncateMarker(j) \/ WriteMarker(j) \/ CleanUp(j)

-----------------------------------------------------------------------------
Release ==
  /\ server < MaxVersion /\ server' = server + 1
  /\ UNCHANGED <<prefix, seJob, button, told, overlapped, clicks, seCrashes>>
  /\ UNCHANGED gameDisk

\* Steam makes the prefix, and Wine its registry when the game starts.
MakePrefix ==
  /\ \/ prefix = "none" /\ prefix' = "bare"
     \/ prefix = "bare" /\ prefix' = "ready"
  /\ UNCHANGED <<server, seJob, button, told, overlapped, clicks, seCrashes>>
  /\ UNCHANGED gameDisk

\* What a thread stopped in the middle of a copy leaves half written.
Halves(j) ==
  {{}} \cup IF seJob[j].at = "move" THEN {{f} : f \in seJob[j].todo} ELSE {}

\* The program stops, and starts again when the user wants it.
SeCrash ==
  /\ seCrashes = 0 /\ Running # {}
  /\ seCrashes' = 1
  /\ seJob' = [j \in Jobs |-> Idle] /\ button' = TRUE /\ told' = Untold
  /\ \E half \in [Jobs -> UNION {Halves(j) : j \in Jobs}] :
       /\ \A j \in Jobs : half[j] \in Halves(j)
       /\ game' = [f \in SeFiles |->
                    IF \E j \in Jobs : f \in half[j] THEN Torn ELSE game[f]]
  /\ UNCHANGED <<server, prefix, marker, archive, overrides, overlapped, clicks>>

SeNext ==
  \/ \E j \in Jobs : Press(j) \/ JobStep(j) \/ Poll(j)
  \/ DeliverState \/ Release \/ MakePrefix \/ SeCrash

SeSpec ==
  /\ SeInit /\ [][SeNext]_seVars
  /\ \A j \in Jobs : WF_seVars(JobStep(j)) /\ WF_seVars(Poll(j))

-----------------------------------------------------------------------------
SeTypeOK ==
  /\ server \in 1 .. MaxVersion /\ prefix \in {"none", "bare", "ready"}
  /\ game \in [SeFiles -> Versions \cup {Torn}]
  /\ marker \in Versions /\ archive \in Versions \cup {Bad}
  /\ \A j \in Jobs :
       seJob[j].attempt \in 0 .. MaxRetries /\ seJob[j].todo \subseteq SeFiles
  /\ overrides \in BOOLEAN /\ button \in BOOLEAN

Holds(v) == \A f \in SeFiles : game[f] # Torn /\ game[f] >= v

\* Whoever is told that a version is installed or up to date has every file of
\* it or of a newer one in Data, where install_skse was told to put them, whatever
\* failed or crashed before, as long as no reload let a second install start while
\* one was running (skse.rs, wire_skse_button).
ToldIsTrue ==
  ~ overlapped /\ told.what \in {"installed", "upToDate"} /\ Running = {} =>
    Holds(told.version) /\ marker = told.version

\* Without such an overlap a version file never outlives its files: what it
\* names is complete, or the next check of install_skse finds a newer release
\* and installs again.
MarkerIsSafe == ~ overlapped /\ marker # 0 => Holds(marker) \/ server > marker

\* The button of wire_skse_button comes back, whatever happens to the installs.
ButtonReturns == ~ button ~> button

\* Neither the result nor the version file in Data promises files that are not there.
\* Nothing is said of the root of the game, which the button does not write to.
VersionsTrue == SeTypeOK /\ ToldIsTrue /\ MarkerIsSafe
=============================================================================
