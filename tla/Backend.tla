------------------------------- MODULE Backend -------------------------------
(***************************************************************************)
(* Which of the three backends a machine gets (vfs/detect.rs,              *)
(* backend/mod.rs), and the kernel mount call by call (backend/kernel.rs): *)
(* two file descriptors, two temporary directories and a mount, with every *)
(* call failing.  Vfs takes the backend as given and a kernel mount as one *)
(* step; what a launch does around it is there.                            *)
(***************************************************************************)
EXTENDS Naturals, FiniteSets

CONSTANTS
  Kernels,      \* the releases the machine may run: <<major, minor>>
  None

VARIABLES
  machine,      \* [flatpak, kernel, fsopen, binary]
  probed,       \* the OnceCells of this process: None or what was found
  tier,         \* what select_backend last answered in this process
  lastTier,     \* what it answered in an earlier process
  at,           \* where the kernel mount is
  fsfd, mntfd,  \* the descriptors are open
  dirs,         \* mantle-upper-* and mantle-work-* exist
  attached,     \* the overlay is at merge_dir
  orphan        \* attached, and nobody can take it off any more

backendVars ==
  <<machine, probed, tier, lastTier, at, fsfd, mntfd, dirs, attached, orphan>>
mountVars == <<at, fsfd, mntfd, dirs, attached, orphan>>

Tiers == <<"symlink-farm", "fuse-overlayfs", "kernel-overlayfs">>
Rank(t) == CHOOSE i \in 1 .. 3 : Tiers[i] = t

NotProbed == [flatpak |-> None, fsopen |-> None, binary |-> None]

BackendInit ==
  /\ machine \in
       [flatpak : BOOLEAN, kernel : Kernels, fsopen : BOOLEAN, binary : BOOLEAN]
  /\ probed = NotProbed /\ tier = None /\ lastTier = None
  /\ at = "none" /\ fsfd = FALSE /\ mntfd = FALSE
  /\ dirs = FALSE /\ attached = FALSE /\ orphan = FALSE

(***************************************************************************)
(* select_backend.                                                         *)
(***************************************************************************)

\* A OnceCell keeps the first answer for the life of the process.
Found(what) == IF probed[what] = None THEN machine[what] ELSE probed[what]

\* (major, minor) >= (6, 6), the order of tuples.
AtLeast(major, minor) ==
  \/ machine.kernel[1] > major
  \/ machine.kernel[1] = major /\ machine.kernel[2] >= minor

Choice ==
  IF Found("flatpak") THEN "fuse-overlayfs"
  ELSE IF AtLeast(6, 6) /\ Found("fsopen") THEN "kernel-overlayfs"
  ELSE IF AtLeast(5, 11) \/ Found("binary") THEN "fuse-overlayfs"
  ELSE "symlink-farm"

\* The probes the choice comes to.
Asked ==
  {"flatpak"}
  \cup (IF ~ Found("flatpak") /\ AtLeast(6, 6) THEN {"fsopen"} ELSE {})
  \cup (IF ~ Found("flatpak") /\ ~ AtLeast(5, 11) THEN {"binary"} ELSE {})

\* A reload, for the name it shows, or a launch, for the mount.
SelectBackend ==
  /\ tier' = Choice
  /\ probed' = [w \in DOMAIN probed |-> IF w \in Asked THEN Found(w) ELSE probed[w]]
  /\ UNCHANGED <<machine, lastTier, mountVars>>

\* The user installs fuse-overlayfs; there is a new kernel after the next boot.
InstallBinary ==
  /\ ~ machine.binary /\ machine' = [machine EXCEPT !.binary = TRUE]
  /\ UNCHANGED <<probed, tier, lastTier, mountVars>>

\* Mantle ends, and is started again, perhaps after a boot.  The temporary
\* directories of a handle that is not unmounted go, a crash leaves them.
Restart ==
  /\ tier # None
  /\ \/ machine' = machine /\ attached' = attached /\ orphan' = attached
        /\ dirs' \in {dirs, dirs /\ at # "mounted"}
     \/ /\ \E k \in Kernels :
             /\ \/ k[1] > machine.kernel[1]
                \/ k[1] = machine.kernel[1] /\ k[2] > machine.kernel[2]
             /\ \E f \in BOOLEAN :
                  machine' = [machine EXCEPT !.kernel = k, !.fsopen = @ \/ f]
        /\ attached' = FALSE /\ orphan' = FALSE /\ dirs' = FALSE
  /\ probed' = NotProbed /\ tier' = None /\ lastTier' = tier
  /\ at' = "none" /\ fsfd' = FALSE /\ mntfd' = FALSE

(***************************************************************************)
(* KernelOverlay::mount, verify and unmount.                               *)
(***************************************************************************)

Choosing == UNCHANGED <<machine, probed, tier, lastTier>>

\* An error: the directories go with the locals.
Fail == at' = "failed" /\ dirs' = FALSE

\* Both tempdirs, create_dir_all and sys_fsopen; what it asks for is there, but
\* each may fail.
Begin ==
  /\ tier = "kernel-overlayfs" /\ at \in {"none", "failed"} /\ ~ attached
  /\ \/ at' = "configure" /\ dirs' = TRUE /\ fsfd' = TRUE
     \/ Fail /\ UNCHANGED fsfd
  /\ Choosing /\ UNCHANGED <<mntfd, attached, orphan>>

\* lowerdir, upperdir, workdir, create, fsmount; userxattr may be refused.  fsfd
\* is closed before the result is looked at.
Configure ==
  /\ at = "configure" /\ fsfd' = FALSE
  /\ \/ at' = "move" /\ mntfd' = TRUE /\ UNCHANGED dirs
     \/ Fail /\ UNCHANGED mntfd
  /\ Choosing /\ UNCHANGED <<attached, orphan>>

\* sys_move_mount; mntfd is closed before the result is looked at.
MoveMount ==
  /\ at = "move" /\ mntfd' = FALSE
  /\ \/ at' = "verify" /\ attached' = TRUE /\ UNCHANGED dirs
     \/ Fail /\ UNCHANGED attached
  /\ Choosing /\ UNCHANGED <<fsfd, orphan>>

\* is_mount_point, which also says no when a path cannot be read.
Verify ==
  /\ at = "verify" /\ at' \in {"mounted", "undo"}
  /\ Choosing /\ UNCHANGED <<fsfd, mntfd, dirs, attached, orphan>>

\* Mutant of Undo: mount_with returns the error of verify at once.
UndoNothing ==
  /\ at = "undo" /\ Fail
  /\ Choosing /\ UNCHANGED <<fsfd, mntfd, attached, orphan>>

\* umount2, and the directories go whatever it says: unmount takes the overlay
\* by value.
Umount ==
  /\ dirs' = FALSE
  /\ \/ attached' = FALSE /\ UNCHANGED orphan
     \/ UNCHANGED attached /\ orphan' = TRUE

\* mount_with, after a verify that failed.
Undo ==
  /\ at = "undo" /\ at' = "failed" /\ Umount
  /\ Choosing /\ UNCHANGED <<fsfd, mntfd>>

\* MountHandle::unmount
Unmount ==
  /\ at = "mounted" /\ at' = "none" /\ Umount
  /\ Choosing /\ UNCHANGED <<fsfd, mntfd>>

\* teardown_stale, for what no handle is left of.
TeardownStale ==
  /\ orphan /\ at \in {"none", "failed"}
  /\ attached' = FALSE /\ orphan' = FALSE
  /\ Choosing /\ UNCHANGED <<at, fsfd, mntfd, dirs>>

BackendNext ==
  \/ SelectBackend \/ InstallBinary \/ Restart
  \/ Begin \/ Configure \/ MoveMount \/ Verify \/ Undo \/ Unmount \/ TeardownStale

(***************************************************************************)
(* Properties.                                                             *)
(***************************************************************************)

\* The backend a page names is the one the next launch uses: nothing that happens
\* on the machine changes the answer within a process.
SameTier == tier # None => Choice = tier

\* A machine that only gains, a newer kernel or the binary, is never given a
\* lower tier after the restart: 7.0 is not below 6.6.
NewerNeverLower ==
  tier # None /\ lastTier # None => Rank(tier) >= Rank(lastTier)

\* However the mount ends, neither descriptor is left open.
FdsClosed == at \in {"none", "failed", "mounted"} => ~ fsfd /\ ~ mntfd

\* An overlay is attached with its directories and a handle, or on its way
\* there, or known to be an orphan: a mount that failed leaves none.
MountAccounted ==
  attached /\ ~ orphan => dirs /\ at \in {"verify", "undo", "mounted"}

\* One backend per process, none lower than before, and no mount half made.
BackendSound == SameTier /\ NewerNeverLower /\ FdsClosed /\ MountAccounted
=============================================================================
