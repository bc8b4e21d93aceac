-------------------------------- MODULE Vfs --------------------------------
(***************************************************************************)
(* The overlay over the game's Data directory: the launch handler of the   *)
(* window (mantle_ui/launch.rs), mount_with and MountHandle (vfs/mount.rs), *)
(* the three backends (vfs/backend/) and teardown_stale (vfs/cleanup.rs).  *)
(*                                                                         *)
(* The handler runs on the GTK thread from the click to the start of the   *)
(* game.  What it does not control: other threads change the mod list, the *)
(* fuse-overlayfs child mounts when it is ready, the game keeps files open *)
(* so that fusermount fails, and the process may end between any two       *)
(* steps.  Mounts and symlinks outlive the process.                        *)
(*                                                                         *)
(* Only files are modelled, by their relative path: a directory exists     *)
(* where a file needs it.  What the game writes is left out.               *)
(***************************************************************************)
EXTENDS Integers, FiniteSets, Sequences, SequencesExt

CONSTANTS
  Mods,         \* installed mods
  Paths,        \* relative paths below Data
  FilesOf,      \* the files of a mod's install_dir
  GameFiles,    \* the game's own files in Data
  Kinds,        \* backends select_backend may find
  MaxMounts,    \* bound on the mounts stacked over Data
  Escaped,      \* Data's path has a space or another character that
                \* /proc/self/mountinfo writes as an octal escape
  None          \* no file, no handle

ASSUME VfsAssumption ==
  /\ IsFiniteSet(Mods)
  /\ FilesOf \in [Mods -> SUBSET Paths]
  /\ GameFiles \subseteq Paths
  /\ Kinds \subseteq {"kernel", "fuse", "symlink"}
  /\ MaxMounts \in Nat /\ Escaped \in BOOLEAN
  /\ None \notin Mods /\ "game" \notin Mods

VARIABLES
  kind,         \* what select_backend finds: the machine does not change
  listed,       \* the enabled mods of the active profile, by priority
  entry,        \* entry[p]: what lies at Data/p below every mount: None, the
                \* game's own file, or a symlink into that mod
  mounts,       \* the mounts over Data, the last one on top
  child,        \* lower_dirs of the handle's fuse child before it mounts
  late,         \* lower_dirs of fuse children nobody waits for any more
  handle,       \* the window's mount_handle cell
  job           \* the launch handler: where it is, and its locals

diskVars == <<entry, mounts, child, late>>
vars == <<kind, listed, diskVars, handle, job>>

\* Lists of distinct mods; index 1 has the highest priority.
Lists == UNION {{s \in [1 .. n -> Mods] : IsInjective(s)} : n \in 0 .. Cardinality(Mods)}

ASSUME NoneAssumption == None \notin Lists \cup [lower : Lists, links : SUBSET Paths]

Rest == [at |-> "idle", next |-> "idle", lower |-> << >>, todo |-> << >>,
         files |-> {}, links |-> {}]

TypeOK ==
  /\ kind \in Kinds
  /\ listed \in Lists
  /\ entry \in [Paths -> Mods \cup {"game", None}]
  /\ mounts \in Seq([lower : Lists, own : BOOLEAN]) /\ Len(mounts) <= MaxMounts
  /\ child \in Lists \cup {None} /\ late \subseteq Lists
  /\ handle \in [lower : Lists, links : SUBSET Paths] \cup {None}
  /\ job \in [at    : {"idle", "unmount", "wait", "params", "stale", "mount",
                       "verify", "link", "launch"},
              next  : {"idle", "params", "launch"},  \* after an unmount
              lower : Lists,                  \* params.lower_dirs
              todo  : Lists,                  \* directories still to link
              files : SUBSET Paths,           \* files left of the current one
              links : SUBSET Paths]           \* created_links

Init ==
  /\ kind \in Kinds
  /\ listed = << >>
  /\ entry = [p \in Paths |-> IF p \in GameFiles THEN "game" ELSE None]
  /\ mounts = << >> /\ child = None /\ late = {}
  /\ handle = None
  /\ job = Rest

(***************************************************************************)
(* What a reader of Data sees.                                             *)
(***************************************************************************)

Provided(lower) == UNION {FilesOf[lower[i]] : i \in DOMAIN lower}

\* The highest-priority directory that has the file.
Winner(lower, p) ==
  lower[CHOOSE i \in DOMAIN lower :
          /\ p \in FilesOf[lower[i]]
          /\ \A k \in 1 .. i - 1 : p \notin FilesOf[lower[k]]]

\* lowerdir= holds the mods and nothing else.
Sees(p) ==
  IF mounts = << >> THEN entry[p]
  ELSE IF p \in Provided(Last(mounts).lower) THEN Winner(Last(mounts).lower, p)
  ELSE None

\* A handle is dropped: its mount stays, its child is left to itself.
Abandon ==
  /\ mounts' = [i \in DOMAIN mounts |-> [mounts[i] EXCEPT !.own = FALSE]]
  /\ child' = None
  /\ late' = IF child = None THEN late ELSE late \cup {child}

(***************************************************************************)
(* The handler.                                                            *)
(***************************************************************************)

Goes(from, to) == job.at = from /\ job' = [job EXCEPT !.at = to]

\* take() the previous handle and unmount it.
Click ==
  /\ job.at = "idle"
  /\ job' = IF handle = None THEN [Rest EXCEPT !.at = "params"]
            ELSE [Rest EXCEPT !.at = "unmount", !.next = "params",
                              !.links = handle.links]
  /\ handle' = None
  /\ UNCHANGED <<kind, listed, diskVars>>

\* SymlinkFarm::unmount: one remove_file per created link.
Unlink ==
  /\ kind = "symlink" /\ job.at = "unmount"
  /\ \E p \in job.links :
       /\ entry' = [entry EXCEPT ![p] = None]
       /\ job' = [job EXCEPT !.links = @ \ {p}]
  /\ UNCHANGED <<kind, listed, mounts, child, late, handle>>

\* remove_file fails: the error is kept for the caller, which logs it.
UnlinkFails ==
  /\ kind = "symlink" /\ job.at = "unmount"
  /\ \E p \in job.links : job' = [job EXCEPT !.links = @ \ {p}]
  /\ UNCHANGED <<kind, listed, diskVars, handle>>

Unlinked ==
  /\ kind = "symlink" /\ job.links = {}
  /\ Goes("unmount", job.next)
  /\ UNCHANGED <<kind, listed, diskVars, handle>>

\* umount2(MNT_DETACH), or fusermount -u and then child.wait().
Unmount ==
  /\ kind # "symlink" /\ mounts # << >>
  /\ Goes("unmount", IF kind = "fuse" THEN "wait" ELSE job.next)
  /\ mounts' = Front(mounts)
  /\ UNCHANGED <<kind, listed, entry, child, late, handle>>

\* child.wait() returns when the child has ended: it does so when its mount is
\* gone, but a child that has not mounted yet goes on.
Wait ==
  /\ child = None /\ \A i \in DOMAIN mounts : ~ mounts[i].own
  /\ Goes("wait", job.next)
  /\ UNCHANGED <<kind, listed, diskVars, handle>>

\* fusermount fails, because the game is running or nothing is mounted: the
\* handle is dropped all the same.  umount2 fails only if nothing is mounted.
UnmountFails ==
  /\ kind = "fuse" \/ (kind = "kernel" /\ mounts = << >>)
  /\ Goes("unmount", job.next)
  /\ Abandon
  /\ UNCHANGED <<kind, listed, entry, handle>>

\* build_mount_params: no mods, no profile or no database is no mount.
ReadParams ==
  /\ job.at = "params"
  /\ \/ job' = [job EXCEPT !.at = "launch"]
     \/ /\ listed # << >>
        /\ job' = [job EXCEPT !.at = "stale", !.lower = listed]
  /\ UNCHANGED <<kind, listed, diskVars, handle>>

\* Mutant of TeardownStale: whatever is mounted stays.
StaleStays ==
  /\ Goes("stale", "mount")
  /\ UNCHANGED <<kind, listed, diskVars, handle>>

\* is_mounted compares the path with what mountinfo has in its place, escapes and
\* all.
IsMounted == mounts # << >> /\ ~ Escaped

\* teardown_stale: the mount on top goes, if one is found.  A failure, which
\* fusermount may meet, is logged and ignored.
TeardownStale ==
  /\ Goes("stale", "mount")
  /\ \/ IsMounted /\ mounts' = Front(mounts)
     \/ ~ IsMounted /\ UNCHANGED mounts
     \/ kind = "fuse" /\ UNCHANGED mounts
  /\ UNCHANGED <<kind, listed, entry, child, late, handle>>

\* mount_with fails before it has changed anything: a directory is missing, a
\* temporary directory, a system call or the child cannot be had.
MountRefused ==
  /\ Goes("mount", "launch")
  /\ UNCHANGED <<kind, listed, diskVars, handle>>

\* KernelOverlay::mount and verify.
MountKernel ==
  /\ kind = "kernel" /\ Len(mounts) < MaxMounts
  /\ Goes("mount", "launch")
  /\ mounts' = Append(mounts, [lower |-> job.lower, own |-> TRUE])
  /\ handle' = [lower |-> job.lower, links |-> {}]
  /\ UNCHANGED <<kind, listed, entry, child, late>>

\* FuseOverlay::mount: spawn the child, sleep 150 ms.
SpawnFuse ==
  /\ kind = "fuse"
  /\ Goes("mount", "verify")
  /\ child' = job.lower
  /\ UNCHANGED <<kind, listed, entry, mounts, late, handle>>

\* FuseOverlay::verify: is Data a mount point?
Verified ==
  /\ mounts # << >>
  /\ Goes("verify", "launch")
  /\ handle' = [lower |-> job.lower, links |-> {}]
  /\ UNCHANGED <<kind, listed, diskVars>>

\* Mutant of NotVerified: verify polls until Data is a mount point.
VerifyPolls ==
  /\ mounts = << >>
  /\ Goes("verify", "verify")
  /\ UNCHANGED <<kind, listed, diskVars, handle>>

\* It is not: the backend is unmounted, and mount_with fails.
NotVerified ==
  /\ mounts = << >> /\ job.at = "verify"
  /\ job' = [job EXCEPT !.at = "unmount", !.next = "launch"]
  /\ UNCHANGED <<kind, listed, diskVars, handle>>

\* SymlinkFarm::mount, from the last directory to the first.
StartLinking ==
  /\ kind = "symlink" /\ job.at = "mount"
  /\ job' = [job EXCEPT !.at = "link", !.todo = job.lower,
                        !.files = FilesOf[Last(job.lower)]]
  /\ UNCHANGED <<kind, listed, diskVars, handle>>

\* Mutant of LinkFile: a file that is already there is left alone.
LinkMissing ==
  /\ job.at = "link"
  /\ \E p \in job.files :
       /\ entry' = [entry EXCEPT ![p] = IF @ = None THEN Last(job.todo) ELSE @]
       /\ job' = [job EXCEPT !.files = @ \ {p}, !.links = @ \cup {p}]
  /\ UNCHANGED <<kind, listed, mounts, child, late, handle>>

\* link_directory: what lies at the path goes, the link takes its place.
LinkFile ==
  /\ job.at = "link"
  /\ \E p \in job.files :
       /\ entry' = [entry EXCEPT ![p] = Last(job.todo)]
       /\ job' = [job EXCEPT !.files = @ \ {p}, !.links = @ \cup {p}]
  /\ UNCHANGED <<kind, listed, mounts, child, late, handle>>

\* A call of link_directory fails, before or after the old file is removed;
\* `?` drops created_links.
LinkFails ==
  /\ Goes("link", "launch")
  /\ \/ UNCHANGED entry
     \/ \E p \in job.files : entry' = [entry EXCEPT ![p] = None]
  /\ UNCHANGED <<kind, listed, mounts, child, late, handle>>

NextDirectory ==
  /\ job.at = "link" /\ job.files = {} /\ Len(job.todo) > 1
  /\ job' = [job EXCEPT !.todo = Front(@), !.files = FilesOf[Last(Front(job.todo))]]
  /\ UNCHANGED <<kind, listed, diskVars, handle>>

Linked ==
  /\ job.files = {} /\ Len(job.todo) = 1
  /\ Goes("link", "launch")
  /\ handle' = [lower |-> job.lower, links |-> job.links]
  /\ UNCHANGED <<kind, listed, diskVars>>

\* xdg-open steam://run/...
Launch ==
  /\ job.at = "launch"
  /\ job' = Rest
  /\ UNCHANGED <<kind, listed, diskVars, handle>>

HandlerStep ==
  \/ Unlink \/ UnlinkFails \/ Unlinked \/ Unmount \/ Wait \/ UnmountFails
  \/ ReadParams \/ TeardownStale \/ MountRefused \/ MountKernel
  \/ SpawnFuse \/ Verified \/ NotVerified
  \/ StartLinking \/ LinkFile \/ LinkFails \/ NextDirectory \/ Linked
  \/ Launch

(***************************************************************************)
(* Everything else.                                                        *)
(***************************************************************************)

\* The user switches profiles, or enables, disables or moves mods.
ChangeList ==
  /\ listed' \in Lists
  /\ UNCHANGED <<kind, diskVars, handle, job>>

\* The process ends, at any point, and is started again; a handle is dropped
\* without an unmount.
Quit ==
  /\ handle' = None /\ job' = Rest
  /\ Abandon
  /\ UNCHANGED <<kind, listed, entry>>

\* The child of the handler, or of its handle, mounts or ends.
ChildMounts ==
  /\ child # None /\ Len(mounts) < MaxMounts
  /\ mounts' = Append(mounts, [lower |-> child, own |-> TRUE])
  /\ child' = None
  /\ UNCHANGED <<kind, listed, entry, late, handle, job>>

ChildEnds ==
  /\ child # None /\ child' = None
  /\ UNCHANGED <<kind, listed, entry, mounts, late, handle, job>>

\* A child nobody waits for gets to its mount after all.
ChildMountsLate ==
  /\ Len(mounts) < MaxMounts
  /\ \E lower \in late :
       /\ late' = late \ {lower}
       /\ mounts' = Append(mounts, [lower |-> lower, own |-> FALSE])
  /\ UNCHANGED <<kind, listed, entry, child, handle, job>>

Next ==
  \/ Click \/ HandlerStep \/ ChangeList \/ Quit
  \/ ChildMounts \/ ChildEnds \/ ChildMountsLate

\* The GTK thread runs; a child may hang.
Spec == Init /\ [][Next]_vars /\ WF_vars(HandlerStep)

(***************************************************************************)
(* Properties.                                                             *)
(***************************************************************************)

\* Nothing an earlier launch, process or child mounted is left over Data.
NoStrays == \A i \in DOMAIN mounts : mounts[i].own

\* MountParams: lower_dirs[0] takes precedence.  While the window holds a
\* handle, the game sees every file some mod of it has, from the mod with the
\* highest priority, whatever crashes and failed mounts left in Data before.  A
\* fuse child that comes late covers it; what lies under a kernel mount does not.
WinnersShown ==
  handle # None /\ (NoStrays \/ kind = "kernel") =>
    \A p \in Provided(handle.lower) : Sees(p) = Winner(handle.lower, p)

\* teardown_stale before every mount keeps mounts from stacking up: with a
\* kernel that always unmounts there is one at most, also after crashes, as long
\* as mountinfo shows Data's path as it is.
NoStacking == kind = "kernel" /\ ~ Escaped => Len(mounts) <= 1

\* vfs/mod.rs, lines 41 and 42: teardown_stale before mounting removes any leftover
\* overlay.  It returned without an error and nothing is mounted.
StaleRemoved == kind = "kernel" /\ job.at = "mount" => mounts = << >>

\* A farm knows every link its mods have in Data, those a crashed process left
\* included: its unmount removes them all.
LinksTracked ==
  kind = "symlink" /\ handle # None =>
    \A p \in Provided(handle.lower) : entry[p] \in Mods => p \in handle.links

\* The click handler comes back to the main loop, whichever step fails; the
\* only place it can hang in is the wait for a fuse child.
HandlerReturns == job.at # "idle" ~> job.at \in {"idle", "wait"}

\* What lies over or in the game's directory is known and, where mountinfo can be
\* read, not more than one mount.
DataTracked == TypeOK /\ NoStacking /\ LinksTracked
=============================================================================
