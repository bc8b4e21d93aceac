# Mantle Manager in TLA+

TLA+ modules for the core logic of Mantle Manager, a mod manager for Bethesda
games on Linux: mod lists and profiles in its SQLite database, the overlay it
lays over a game's `Data` directory, conflicts between mods, downloads and
installs, the plugin host, the settings, the script extender, and the window
that shows it all. TLC checks the modules on small instances; TLAPS proves for
every instance the safety properties of the database, the window and its pages,
the overlay, conflicts and stacked mounts, downloads, installs, settings and
search, the script extender, the plugin host, and the files of the game.

Paths below are relative to `src/`; `core` is `crates/mantle_core/src`, `ui` is
`crates/mantle_ui/src` and `net` is `crates/mantle_net/src`.

## The system

| Part | State it keeps | Operations | What is hard | What makes it correct |
|---|---|---|---|---|
| Mod list (`core/mod_list`) | `profile_mods`: priority and enabled flag per profile and mod | add, remove, move, reorder, enable | several statements without one transaction, gaps after a cascade | priorities unique, lists dense, no other mod touched |
| Profiles (`core/data/profiles.rs`, `core/profile`, `core/service`) | `profiles`, `is_active`, INI copies | create, clone, delete, activate, ensure_default | every UI action opens a connection on a thread of its own; a switch has five steps that may fail | at most one active, a default always there, the game never shows another profile's mods |
| Mods (`core/data/mods.rs`, `core/install`, `ui/install_dialog.rs`) | `mods`, `mod_files`, a directory per mod | install, delete | names that differ in case, two installs of one slug, a stop half-way | rows name files that are there, no file disappears |
| Overlay (`core/vfs`, `ui/launch.rs`) | mounts over `Data`, symlinks in it, the window's handle | select a backend, mount, verify, unmount, tear down stale mounts, stack | three backends, failures half-way, crashes, a child that is late, mounts that are not recognised | the game sees the mod with the highest priority, no mount is forgotten |
| Conflicts (`core/conflict`) | the conflict map of a reload | detect, roles, prune; DLLs and address libraries | a prune that stops between copy and removal | map, badges and mount agree on whose file is shown |
| Downloads (`ui/downloads/queue.rs`, `ui/pages/downloads.rs`, `net/download.rs`, `core/data/downloads.rs`) | the queue, worker threads, the temporary file and `dest`, the `downloads` table, the rows of the page | nxm link, enqueue, cancel, retry, clear, apply progress | workers that cancel does not stop, unordered database threads, rows that are out of date | a file at `dest` is whole when no other job has its temporary file, no job runs for ever |
| State worker, window (`ui/state_worker.rs`, `ui/window.rs`) | the last snapshot | reload on every event, show | snapshots out of order, events before the subscription, a migration by several threads | what a click wrote is shown |
| Pages (`ui/pages`) | widgets with captured ids | switch, add, clone, delete, activate | a row that is older than the database | a click reaches the profile it was shown for |
| Plugin host (`core/plugin`) | the bus, subscriptions, contexts, loaded plugins | load, init, publish, unload, drop | handlers that unsubscribe during a publish, an init that fails half-way, panics, ABI checks | no publish reaches a plugin that went before it, no foreign object |
| Settings (`core/config`, `core/secrets.rs`, `ui/settings.rs`, themes) | `settings.toml`, the key in the secret store, the open dialog | load, save, move the key, choose a theme | a stop between the store and the file, rows sharing one old copy, rows of deleted themes | a key that is never lost, the paths and theme chosen last |
| Nexus search (`ui/pages/nexus_search.rs`) | results, selection, threads, a channel | search, select, list files, queue | answers out of order | a file row asks for the mod it belongs to |
| Script extender (`core/skse`, `ui/skse.rs`) | version file, game files, DLL overrides | check, download, extract, flatten, install | two installs at a time, a stop half-way | the version file names what is there |
| Game (`core/game`, `core/diag`) | INI documents, Wine registry, the detected game, saves and cosaves | get, set, save, parse, detect, scan | two copies of one document, other programs that write | what is read is what was written |

How they interact: the GTK thread owns the window, the queue and the mount
handle. Buttons write to the database and publish on the event bus; the state
worker reloads on its own threads and sends snapshots back over a channel; the
launch handler reads the active profile's list and mounts it; download workers
send progress over a channel the idle loop drains. Connections are opened per
operation, so SQLite is where threads meet.

## Modules

A definition whose comment starts with "Mutant of" is a plausible bug of the
definition it names; a property is kept only if one of them breaks it.

**The database.** `ModOrder`: orders of mods as the Rust code computes them on a
`Vec` (`Ranked`, `Without`, `Moved`, `Clamped`, ...); an order is a function
from mods to positions. `MantleDb`: the tables and one operator per SQL statement
or transaction, constraints included. `ModList`: `core/mod_list/mod.rs` and
`core/data/mods.rs`; `call[c]` is the operation thread `c` is in, `at` the
statement it runs next, and every statement that commits is a step, so another
connection may commit between any two; `Abort` stops an operation between two
statements. `Profiles`: the operations on profiles and `ensure_default`, composed
with `ModList`. `ModVecs` is the abstract specification, a `Vec` per profile with
one step per operation, and `ModListVecs` the refinement mapping from the tables to it.

**The window.** `Window`: the state worker, the bus, the snapshot channel and the
migration of a new database, composed with `Profiles`: the worker, every reload
thread, the GTK thread and every install are connections of it, and what they
run are its steps. A subscription handler runs on the thread that publishes, so
a click reloads on the GTK thread and then on a thread of its own. `Pages`: rows,
switches and dialogs over an older snapshot; a write is one step there and what
the pages captured is what matters.

**Downloads.** `DownloadQueue`: queue, workers, channel, files and table. A file
is an inode that holds chunks, so that two workers on one temporary file write to
the same file, as they do under `File::create`. Which temporary file a job has is a
constant of its own, `TmpOf`: the code takes `dest.with_extension("tmp")`, so jobs of
one destination share it, and so do jobs whose destinations differ in the extension
only. No destination is itself a temporary path. `DownloadsPage`: the rows with
the buttons of the status they were built with, the sidebar that shows the
table instead, and the way of an nxm link through the open handler, the idle
loop and a thread into the queue.

**The overlay.** `Vfs`: the launch handler with `mount_with`, the three backends
and `teardown_stale`; `entry` is what lies in `Data`, `mounts` what is stacked
over it, `Sees(p)` what a reader of `Data/p` gets; the farm is linked and unlinked
file by file. The constant `Escaped` says whether mountinfo writes the path of `Data`
otherwise than it is, as it does for a space: `IsMounted` then sees no mount. `Backend`: the probes with their caches, `select_backend`, and the
kernel mount call by call with its descriptors and directories. `Conflicts`:
`detect`, the roles, `prune_losers` step by step; `Shown` is what a mount of the
list shows. `Overlay`: stacked mounts (`vfs/stacking.rs`) of the mods of
`Conflicts`, built and taken down while the scan and the pruning go on.

**Installing.** `Install`: extraction file by file, BSA files, `case_fold` with its
two-step renames, and the rows, with two threads, failures and a crash. A BSA is
unpacked beside itself; files that cannot be read or hashed are passed over, which
ends what is promised of the rows (`clean`). `Skse`: the button, the download with its
retries, the flattening, the DLL overrides and the version file. The button installs
into `Data`, which is what `game` and `marker` are of; the root of the game, where
`load_state` looks, is another directory, and nothing is claimed of it. `SkseConflicts`: the DLL and address-library detections.

**Plugins.** `PluginHost`: bus, registry, contexts and lifecycle hooks; `publish`
takes the handlers one after the other while others load and unload. It has collected
them before, so one that is under way still calls a plugin that has been unloaded, or
refused, since, also while its native library is on the way out; each call
keeps in `gone` who was gone when it began.
`PluginFiles`: how a library or a script becomes an object, check by check.

**Settings and search.** `Settings`: `settings.toml`, the secret store, the dialog,
the themes and the rows of the theme page, which may be older than the themes. `chosen`
keeps of the theme, the path and the key the values the user must reckon with: what was
in force, and from a choice on the new one too, until its save has come
through. The build has its default features, so there is a secret store, which may refuse.
`Search` extends it with the search page, its threads and messages; a mod is its
id with its game, `asked` is what the server was asked for and `of` what the page meant.

**Files of the game.** `GameIni`: lines and index of an INI document.
`WineRegistry`: the reader and the DLL override writer on one text.
`GameDetection`: the Steam scan and the cached result. `Diagnostics`: the scans of
saves and of the overwrite directory, entry by entry; a save and its cosave are two
files, and `is_file` on the one and `exists` on the other two steps. `ProfileSwitch`:
`activate_profile` with teardown, INI copies and mount, every step failing, with and
without a directory of the game's INI files, on paths mountinfo escapes and others.

**Instances.** `MCProfiles`, `MCWindow`, `MCDownloadQueue`, `MCDownloadsPage`,
`MCVfs`, `MCOverlay`, `MCInstall`, `MCPluginHost`. Two runs check two modules each that
share no state: `MCModList` is `ModListVecs` and `Search`, `MCLaunch` is `Vfs` and `Skse`;
in a behaviour one of the two moves and the other stays as it began. `Library` instantiates the nine parts that share no state with
any other (`GameIni`, `WineRegistry`, `GameDetection`, `Diagnostics`,
`ProfileSwitch`, `SkseConflicts`, `Pages`, `PluginFiles`, `Backend`); in a
behaviour one of them moves, so its states are the sum of theirs; `MCLibrary` gives
the constants.

**Proofs.** `WindowProofs` (first `Profiles`, with the lemmas on `ModOrder`),
`OverlayProofs` (with `Conflicts`), `VfsProofs`, `DownloadProofs`, `InstallProofs`
(`Install`, `Skse`, `Settings` and `Search`), `PluginProofs`, and about the parts of
`Library` and `Library` itself `EditProofs` (`Pages`, `GameIni`, `WineRegistry`) and
`LibraryProofs` (the other six).

## Runs

| Run | Instance | States | Shows |
|---|---|---|---|
| `ProfilesConcurrent` | two connections, two profiles, two mods | 1.4M | `TablesConsistent`: types, foreign keys, priorities unique, at most one profile active; `PlansAreDense`: every list about to be written is numbered 1..n |
| `GtkPages` | the mod list on one connection: two profiles, three mods, one of them a re-install; the search page and the settings: five acts of the user, two searches, two games, two keys, restarts | 870k | `ListsAreVecs`: the tables implement `ModVecs`; `PositionsAreVecs`: the arithmetic on positions, for every list with gaps; `ListsKept`: other rows and their flags stay, a clone keeps the order. `SettingsKept`: key, paths and theme are those chosen last, or, of what is not saved, chosen before; `AnswersMatch`: rows, files and what is queued belong together; `SpinnerStops` |
| `Refresh` | two profiles, one mod, two clicks, an install; a new database and a used one | 303k | `StateSound`: one active profile however reloads race, no snapshot with an unfilled plugin cache; `StartShown`: the window leaves its placeholder; `ClickShown`: what a click wrote is shown at some time |
| `Downloads` | two jobs with temporary files of their own, three workers, two chunks, nobody cancels | 996k | `AttemptsSafe`: one worker per job, nothing of an attempt on its way when the job is finished, `dest` whole, also over restarts |
| `DownloadsPage` | one link, two workers, cancel, retry and clear through old rows | 613k | `StatusTrue`: what is called complete has a file; `RowsSettle`: no row moves for ever; `LinksEnd`: no link is forgotten |
| `Launch` | two mods with a file in common, each backend, a path mountinfo shows as it is; the script extender button: two threads, two files, two releases, two clicks, a crash | 697k | `WinnersShown`: the right mod for every file; `DataTracked`: kernel mounts do not pile up, a farm knows its links; `HandlerReturns`. `VersionsTrue`: what is told is in `Data`, the version file names what is there unless two installs overlapped; `ButtonReturns` |
| `Overlay` | every way in which three mods have two paths, chunks of two | 950k | `MapIsTrue`: map and badges agree with the mount; `PruneIsSafe`: nothing lost, nothing silently left; `StackShowsFlat`: a stack shows what one mount shows; `MountsKnown`: what stays mounted refused to go |
| `Install` | two threads, three archives: BSA beside a file and in a directory, names that differ in case, a shared slug, a file that cannot be read | 819k | `InstalledIsKnown`: after an install that met no failure, no other thread and no file under a temporary name, rows and files agree and all is in lower case; `FoldKeepsFiles`: there, renaming loses no file; `InstallEnds` |
| `Plugins` | three files, two with one id, two publishers, two events | 580k | `RegistryHolds`: the first of each id, subscribers are loaded, a publish calls nobody who was gone when it began, shutdown in reverse; `ContextsCurrent`; `CallsReturn`: no publish, load or unload waits for itself |
| `Library` | nine parts, each for itself | 2.5M | `SetSticks`: what `get` answers is what the saved file says; `OverridesHold`: overrides written once and found; `OthersUntouched`: a set, an override or a switch changes nothing else; `OneGame`: all states of a process are about one game; `ScansTrue`: a save that lacks its cosave is named, one that never lacked it is not, every loose file counted once; `SwitchTrue`: no mods of another profile unless the teardown missed them, no early `ProfileChanged`; `SeConflictsExact`; `PagesHold`: old pages do not delete the active profile and catch up; `PluginFilesSound`: only plugins of this toolchain and version become objects; `BackendSound`: one backend per process, no mount half made |

Each takes between ten seconds and two minutes. Two more runs end in a violation, each of what
the code's documentation says (see "Where code and documentation differ"):

| Run | Instance | Violates |
|---|---|---|
| `SharedTmp` | two downloads to `mod.zip` and `mod.7z`, nobody cancels | `DestWhole`: a file at `dest` is whole |
| `StaleEscaped` | the kernel backend, a path with a space | `StaleRemoved`: nothing is left over `Data` when `teardown_stale` has returned |

### Bounds

- `ProfileIds`, `ModIds`: row ids are `AUTOINCREMENT`, so these sets bound how many
  rows are ever inserted. Two profiles let one be deleted, cloned or activated
  while the other is in use; two mods are enough for two rows to collide, and
  the serial run has three so that a move shifts a mod it does not name.
- `MaxPriority`: an add that races a remove raises `MAX(priority)` without limit.
  It bounds `ReadMaxPriority` only; above the number of mods it leaves room for gaps.
- `Conns`: two threads meet in every pair of statements.
- `Reloads`, `MaxReloads`: a reload thread is never reused, so this bounds the clicks;
  with two, one reload can overtake the other.
- `Workers`: a thread is never reused, so this bounds enqueues plus retries; three
  allow two jobs and a retry, two allow a retry while the first worker runs.
- `Chunks = 2`: a file can be empty, half or whole.
- `MaxMounts = 2`: one mount on top of a stale one.
- `Escaped = FALSE` in `Launch`: kernel mounts pile up otherwise, which `StaleEscaped` shows;
  `WinnersShown` holds for both and is proved for both.
- `TmpOf` in `Downloads` and `DownloadsPage`: jobs have temporary files of their own, as
  `SharedTmp` shows why.
- `Unreadable`: one name of a file that an install may fail to read, so that rows can
  lack a file.
- `ChunkSize = 2` with three mods: a full chunk and one that is not, a conflict
  within a chunk and one across.
- `Installs`, `Jobs` (Skse): two threads meet in every pair of steps.
- `MaxPublish = 2`: an event during another one's handlers.
- `MaxGame = 3`: the game writes both files of a save and deletes one, or the reverse,
  during a scan.
- `MaxActs`, `MaxSearches`, `MaxClicks`, `MaxSets`, `MaxWrites`, `MaxCalls`, `MaxGame`,
  `MaxScans`, `MaxChanges`, `MaxRestarts`: how often somebody acts; two is the
  least with which an act meets the traces of another one.
- `Permutations` of threads, jobs and mods is sound where it is used: the values
  are interchangeable there and no liveness is checked with it.
- Deadlock is not checked where the bound on what users do is a real end of the
  instance (the cfg says what has ended).

### Fairness

Threads that run get on: download workers and database threads
(`DownloadQueue`, `DownloadsPage`), the install threads, the threads and the poll
of `Skse`, the host and the publishers of `PluginHost`, the threads and the idle loop
of `Search`, the reload threads, the worker and the main loop of `Window`, the
GTK thread in the launch handler of `Vfs`. Nobody has to press a button, and no
fairness is assumed of users, crashes, restarts, other programs or failures. A
request or a chunk that never ends is excluded by the fairness of the worker: the HTTP
client has no timeout, so a silent server does keep a worker for ever. Nothing is
assumed of the fuse child: the handler may therefore hang in `child.wait()`,
and `HandlerReturns` says that it hangs nowhere else. A reload may still fail,
and `StartShown` and `ClickShown` then promise nothing.

## Proofs

Each module below has an inductive invariant, one lemma per action (or per group
of actions that disturb the same part), and the theorems that follow from it.
The theorems hold for all values of the constants that satisfy the assumptions
at the head of the modules; the assumptions say that ids, names and paths are
not the model's `None`, that sets of ids are finite, that the bounds are numbers,
that a directory or a list names nothing twice, and that a mapping has the domain it
is used on. Hypotheses beyond these are in the theorem and explained here.

**`WindowProofs`** begins with `Spec` of `Profiles`, any number of connections:

- `TablesCorrect`: `Spec => []TablesConsistent`
- `PlansCorrect`: `Spec => []PlansAreDense`
- `PositionsAreRight`: `Spec => []PositionsAreVecs`
- `ListsAreKept`: with one connection, `Spec => ListsKept` (an action property)
- `TablesImplementVecs`: with one connection, `Spec => ListsAreVecs`, that is, the tables
  implement `ModVecs`

`InvHolds` is the inductive invariant `IInv` behind the first two. The part about
operations in progress, `GoodCalls`, is what makes it inductive: a pending list is
an order without repetition or gap, so `replace_all_profile_mods` writes unique
priorities; a thread about to insert has a mod, a profile and a positive
priority; a clone's remaining list is an order. The uniqueness of priorities
does not rest on what a thread read before, only on the constraint at the
moment of the insert, which is why it survives every interleaving. There is
one lemma per statement (what it does to the tables). The module begins with the
lemmas on orders: `Ranked` of a function without repetition is an order `1..n` that
keeps its comparisons, and removing a mod, moving one and listing them again
each give such an order. Ranks are cardinalities, so these rest on the library's
theorems on finite sets.

`ListsAreKept` has the hypothesis `OneThread`, because with two connections it is
false (`reorder` drops a mod added in between, see below). `SerialInv` says that what
the thread has read is still true when it writes: a planned list has every mod of
the profile but the one to remove (`ReplacePlanned`), and a clone has copied
exactly the mods before its next one, at their positions in the source
(`Copied`). That the copy has the source's order needs that `MAX(priority) + 1` is the
position of the next mod (`NextIsPosition`), that a new profile has no rows, which
rests on ids never being handed out twice (`SpentInv`) and on the foreign keys, and that an
order without gaps is its own ranking (`OrderIsItsRanking`).

The `Vec` of a profile is defined as whatever sorts its mods by priority. Each
mod in it is at its rank, which is a count (`SortedIsRanked`), so there is one such `Vec`
(`SortedIsVec`) and it is the inverse of the order (`VecOfOrder`). `WithoutPlaces` and
`MovedPlaces` say on which position the arithmetic on ranks puts every mod,
`FilteredPlaces` and `InsertedPlaces` where `remove` and `insert` put it on a
`Vec`; that both agree is `PositionsAreRight`, for any number of connections. For the refinement
`WritesOfPriorities` lists the five steps that change a `Vec`, and each is an operation
of `ModVecs` (`WriteIsVecStep`): the next priority sorts last (`InsertAddsLast`),
a list that was read and is written whole has the same mods or all but the one
to remove (`CommitReorders`, `WithoutIsFiltered`), and the gap `delete_mod` leaves does not
show (`DropForgets`). `VecInv` is what that needs of the one thread: the priority it
has read is still the next one, and the list it will write is still the
profile's without that mod.

Then follows `WindowSpec`, any number of reload and install threads and a channel of
any length:

- `WindowIsSound`: `WindowSpec => []StateSound`

Every write of the window is a step of `Profiles`, so `IInv` holds here too
(`DatabaseKeeps`) and is not proved again. `FlowInv` follows a snapshot from the reload that
fills it to the channel; `ActiveInv` says that while no profile is active, somebody
who has inserted or found one is still about to activate it, which is what
makes "one profile is active" true whenever all are idle.

**`VfsProofs`**, about `Spec` of `Vfs`, any mods, files and bound on mounts:

- `WinnersAreShown`: `Spec => []WinnersShown`
- `DataIsTracked`: `Spec => []DataTracked`

The backend never changes, so the invariant has a part for each: `KernelInv` (at
most one mount, of the handle's list or a stale one, where mountinfo shows the path as it
is; elsewhere the newest one on top, which is what a reader sees), `FuseInv` (what the child
may have mounted, at each place of the handler that waits for it), `FarmInv` (the links
in `Data` are those the handler's or the handle's record names, and how far it
has come). `HandlerInv` ties them to the handler: while it works, it has the
lists in its own hands and the window has no handle.

**`OverlayProofs`** begins with `ConflictsSpec`, for any list of distinct mods, any set of
paths and any rows:

- `MapCorrect`: `ConflictsSpec => []MapIsTrue`
- `PruneCorrect`: `ConflictsSpec => []PruneIsSafe`

`ConflictsInvHolds` is the inductive invariant `CInv`. That the map agrees with the
mount while files are moved away needs three facts that a run does not show by
themselves: of the mods the scan has come by, it knows the first that has a
path (`ScanInv`); that mod's file is never touched (`WinnersStay`); and the
pruning's queue holds losers of the current entry only, with a whole backup
whenever a removal is next (`QueueInv`). `DoneInv` says of each entry already
done that its losers have no file, or an error, or are still in the queue.
Then follows `Spec` of `Overlay`, for any list longer than a chunk and any size of the
chunks:

- `StackImplementsConflicts`: `Spec => ConflictsSpec`, from which `StackMapCorrect` and
  `StackPruneCorrect` follow
- `StackCorrect`: `Spec => []StackShowsFlat`
- `StackMountsKnown`: `Spec => []MountsKnown`

The chunks cut the list into intervals in its order (`Cut`,
`EarlierChunkFirst`: the arithmetic of `chunks(CHUNK_SIZE)`), so the chunk with
the winner of a path shows it and every earlier one shows nothing there
(`ChunkShows`), whenever in the course of the pruning it was mounted. `MountInv` keeps
account of the mounts: each has a handle, is the final one, or is stuck, and no
handle is for a mount that is gone. Trying to prove the first step of
`mount_stacked` for an empty list is what brought the `debug_assert` of
`stacking.rs:134` into `ChunkAssumption`.

**`DownloadProofs`**, any number of jobs, threads, chunks and reloads:

- `StatusIsTrue`: `PageSpec => []StatusTrue`, with cancel, retry and clear
- `AttemptsAreOrdered`: `NoCancelSpec => [](QueueInv /\ JobsInv)`
- `AttemptsAreSafe`: `NoCancelSpec /\ []OneWorkerPerTmp => []AttemptsSafe`
- `OwnTmpsAreSafe`: if no two jobs share a temporary path, `NoCancelSpec => []AttemptsSafe`

`QueueInv` holds under every action: a thread that will report success has renamed its
file, and so has one whose report is in the channel. `JobsInv` is true without the
cancel button only: a job has one thread, and a job whose status is final has
none and no message on its way. `FilesInv` says which thread may touch which
inode: a thread's inode is its own, is not at any `dest` before the rename, and
holds what the thread has written. Two links with one CDN name share a temporary file, and
so do `foo.zip` and `foo.7z` (see below), so `FilesInv` needs that two jobs of one
temporary file do not run at a time; `OneWorkerPerTmp` says just that, and follows from
`JobsInv` if the temporary paths are distinct. Distinct destinations are not enough.

**`InstallProofs`** has three parts. About `Spec` of `Install`, any archives, names, BSA
files and number of threads:

- `InstalledIsTrue`: `Spec => []InstalledIsKnown`
- `FoldingKeepsFiles`: `Spec => FoldKeepsFiles`

`InstallInv` says of each thread that no other has come near (`ThreadInv`): the
directories already passed are settled (`FoldingFiles`, `FoldingDirs`), and of the
names a thread has still to rename that no two are alike and that only temporary names
are alike to them (`Apart`), so that a rename to lower case replaces nothing. Without an error
nothing at all is alike to them, and each other name is in lower case or alike to one
that stays (`Exact`). The proof found `FoldedAll` too strong: `rename_two_step` replaces
a file that has the temporary name (`case_fold.rs:228`), as an interrupted install leaves
one, and of `AB.__case_tmp__` and `Ab.__case_tmp__`, which are left alone because of each
other, `AB` takes the first with it and leaves the second neither in lower case nor alike
to any. The property is now about installs that meet no such file (`RenameAway`
keeps account of it in `clean`); the instance of the run was too small to show this.

About `SeSpec` of `Skse`, any number of releases, files, retries, clicks and threads:

- `VersionsAreTrue`: `SeSpec => []VersionsTrue`

`StepInv` follows the version a thread has looked up through its steps: which of
the files it has moved, and what the version file says meanwhile. It needs that
nobody else writes (`AloneInv`), which holds until two installs have overlapped
(`overlapped`); `AloneIsSafe` carries the case distinction through every step.

About `SearchSpec` of `Search` (which contains `Settings`), any themes, paths, keys, games
and number of acts:

- `SettingsAreKept`: `SearchSpec => []SettingsKept`
- `AnswersAreMatched`: `SearchSpec => []AnswersMatch`

`SettingsInv` adds to the properties what is true between two steps of a handler:
what is still to be saved (`HandlerInv`), that the file, the dialog and what is still to
be saved hold values that were `chosen` (`RowsInv`), and where the key is while it
moves from the file to the store (`KeyInv`): each copy of the settings has a key the
user has given, or the store has one. `FoundInv` ties every
request and message to the mod that was meant (`RequestsInv`); answers are sorted out by
its id, not by their order, so any order will do for the ids. Of the games it is true
only until a search in another game overtakes an answer (`crossed`), since the page keeps one
game for all of its results.

**`PluginProofs`**, about `Spec` of `PluginHost`, any directory, fates of its files,
subscriptions, publishers and events:

- `RegistryIsSound`: `Spec => []RegistryHolds`
- `ContextsAreCurrent`: `Spec => []ContextsCurrent`

`HostInv` is about the host thread: the registered plugins are the usable first of
each id among the files it has come by (`RegistryInv`), and who may own a
subscription at each step of a plugin's life (`LifeInv`, `BusInv`). `HookInv` is about
publishers: what a call has told the hooks (`CallInv`) and which contexts the one
hook that holds the list has yet to change (`AgreeInv`). `SilentInv` is about those who
are gone: they stay gone (`GoneGrows`) and own no subscription, so a publish that begins
after them collects none of theirs. A publish that has collected before is not covered: it
calls a plugin that has been unloaded since, and so does the code. The proof found an error of
the model: a publish that returned cleared the lock of the bus, also when
another thread held it. `Return` now leaves it alone, as the code does, and every property held
again.

**`LibraryProofs`** has six parts, each about the part's own initial states and
steps, and at its end what follows for `Spec` of `Library`, where one part moves and
the others stay (`PartStays`):

- `OneGameIsTrue`: `Spec => []OneGame`, any manifests and loaders. `CellInv`: nobody has a
  game before the cell of the process is full, and then it is the game in the
  cell. `ScanInv`: if Steam has changed nothing since the scan began, its list
  begins with the first game that is there among the manifests read so far;
  leaving out repetitions does not change the first (`UniqueKeepsFirst`).
- `SwitchesAreTrue`: `Spec => []SwitchTrue`, any profiles and INI files. `MountedInv` says
  what is mounted at each step of `activate_profile` (nothing between the teardown
  and the mount, unless links were left, or an overlay the teardown could not find); `AppliedInv` that the files copied so
  far are the snapshot's.
- `DiagnosticsAreTrue`: `Spec => []ScansTrue`, any saves, files and list of categories.
  `FoundInv`: a file of the walk is counted nowhere, one that has left it is counted
  under exactly one category. `MissingInv`: a save that is named was there at one moment of
  the scan and its cosave was not at one, perhaps another; one that lay there without
  it all the time has been named or is still to be looked at.
- `LoadersAreSound`: `Spec => []PluginFilesSound`, any files that give each question one
  of the answers it has (`FileAnswers`: a symbol is there or not, a version is
  one or is bad, a script fails in one of its six functions or in none).
  `FilesInv` has a part for libraries and one for scripts: what has been asked
  and answered when the loader is at a given check.
- `BackendsAreSound`: `Spec => []BackendSound`, any kernel releases. `ProbesInv`: what
  was probed is so still, unless the binary has come since, and the choice is a
  function of the probes; `GainsInv`: what is chosen now is no lower than what the
  process before chose; `MountInv`: a descriptor is open only in the step that has it.
- `ConflictsAreFound`: `Spec => []SeConflictsExact`, any mods, DLLs and address libraries.
  `OrderInv`: the entries come in the order of the priorities, since the rows do,
  and the mods a path has already are before those still to come, so that the
  first one is the one whose file the game sees. `GroupInv`: what has been read is in
  the entries, and an entry waits until each of its paths has its mod. `LibsInv`: of a type
  every version of a mod is known, or the mod is still to be read.

**`EditProofs`** has three parts, laid out in the same way, about what edits the work of
others. Each says that an edit is found when it is read again and that nothing else
has changed:

- `PagesCatchUp`: `Spec => []PagesHold`, and `SwitchesHit`: `Spec => SwitchesHitShown`, an
  action property, any profiles, mods and number of clicks. `ReadsInv` follows a
  read from the reload through the channel to the page: if it was made after
  the last click it tells the truth. `ComingInv` says that unless something
  failed such a read was shown or is on its way, which is why pages that rest
  have caught up.
- `SetsAreRead`: `Spec => []SetSticks`, any INI files, names and values. `IniInv`: each line
  knows the section it is in (`WellFiled`), and the index has the keys of the lines and, unless
  a key came twice, their values (`Indexed`). A new line is put into its section or
  behind a new header, so the sections of the other lines stay (`SectionsMove`).
- `OverridesAreRead`: `Spec => []OverridesHold`, any registry, spelling of names and table of
  DLLs. `WriteIs` says what the writer does to a file (`Wrote`): the lines stay, in
  their keys, and what comes is the section of the overrides or lines in it. So a
  second write finds a line for every DLL and adds none, and the reader, which
  takes the last line of a key, finds either an older value or the one written.
- `OthersAreLeft`: `Spec => OthersUntouched`, an action property of all three: the lines
  and values of others are the same before and after, at a place moved by as
  many lines as were put in before (`NumberMoves`, `Spread`).

The listings of `GameIni` and `WineRegistry` and the rows of `SkseConflicts` are defined by
positions and by counting what comes before, not with `SelectSeq`, so that what they contain
follows from facts about sets. The assumptions of both modules are those of `Library`:
`NoneIsNone`, `ListsAndNumbers`, `FilesAreLists` (a file is a list of lines),
`PlacesAreOnce` (a mod has one priority in a profile) and `FileAnswers`.

Only model-checked, and why:

- liveness and everything under fairness, which is out of the prover's reach:
  `StartShown`, `ClickShown`, `RowsSettle`, `LinksEnd`, `HandlerReturns`, `CallsReturn`,
  `InstallEnds`, `ButtonReturns` and `SpinnerStops`. Every
  invariant and every action property that a run checks is a theorem, and so are
  both refinements.

## Where code and documentation differ

Two of them are findings with a run. The temporary file of a download is not
`{dest}.tmp`, as `net/download.rs:55` says, but `dest.with_extension("tmp")` (line 97): two
downloads whose names differ in the extension write to one file, and the one that is
renamed to `dest` may be empty, short or the other one's (`SharedTmp`). And `is_mounted`
compares a path with field 4 of mountinfo as it is (`core/vfs/cleanup.rs:33`), where the kernel writes
a space as `\040`: on a game like `.../Skyrim Special Edition/Data` `teardown_stale`
returns `false`, against line 85, and a launch after a crash mounts over the old mount
(`StaleEscaped`). `activate_profile` relies on the same call (`core/profile/mod.rs:209`); when its own
mount then fails, the former profile's mods stay in the game while the new one is active, and
`SwitchTrue` makes an exception for what the teardown could not find.

What follows the models show, or made one look at, and no run is kept for it.

Downloads. After cancel and retry two workers share `dest.tmp`, and a truncated file
can be renamed to `dest` (`net/download.rs:55`); `AttemptsSafe` is therefore
checked without cancellation, and `StatusTrue` asks only for a file. The `UPDATE`
of a finished download may run before its `INSERT`, and the row stays queued
(`ui/downloads/queue.rs:153`, `:421`). A message on its way takes a job out of
Cancelled (`queue.rs:396`). A restart forgets the queue (`queue.rs:200`). Two links
with one CDN name share `dest` and the temporary file. A terminal progress message
triggers no reload, so the sidebar follows later. Every nxm link builds a
further window (`ui/main.rs`, `connect_open` calls `activate`).

Overlay. A kernel overlay hides the game's own files and a farm does not
(`core/vfs/types.rs:7`). A farm mount that fails half-way leaves its links
(`core/vfs/mount.rs:28`). `activate_profile` says that it tears down the overlay
of the active profile, but `teardown_stale` sees mounts only: a farm stays
(`core/profile/mod.rs:206`). `KernelOverlay::unmount` takes `self`, so its directories go
even when the unmount fails. A temporary directory that cannot be made drops the
handles of `mount_stacked` without an unmount (`core/vfs/stacking.rs:156`).

Window and pages. A reload that read before a click may deliver after the
click's own reload, and the window keeps the older state until the next one
(`ui/state_worker.rs:228`, `:237`). An install publishes no event and refreshes
nothing (`ui/install_dialog.rs:148`, against `standards/PLUGIN_API.md:370`). The
overview page publishes nothing, so plugins do not hear of its switches; the mods
page publishes also when no row was changed. The UI activates profiles in the
database only (`ui/pages/profiles.rs:357`); `activate_profile`,
`snapshot_profile_ini`, `GameIni` and the DLL detections have no caller in it. When a
write fails the GTK switch moves all the same.

Mod list. `reorder_profile_mods` checks its list outside the transaction that
writes it and drops a mod added in between (`core/mod_list/mod.rs:238`, against
line 226). A clone enables every mod (`core/profile/mod.rs:116`, against line 81),
and one that fails half-way keeps what it has. `delete_profile` may delete a
profile that is activated after its check (`core/profile/mod.rs:144`). A process
that ends inside `ensure_default` leaves a profile and none active
(`core/service/profile.rs:85`, against `m001_initial.sql:64`).

Installing. A second install under one slug meets `UNIQUE(mod_id, rel_path)` and
its rows are refused (`ui/install_dialog.rs:163`); rows are said to last until the
next full rescan, and there is none.

Script extender. The button passes `game_data_path`, the `Data` directory, as `game_dir`
(`ui/skse.rs:48`, `ui/state_worker.rs:504`), which `core/skse/mod.rs:49` documents as the root of the
game: all of a release goes to `Data`, and since every supported game has a `Data` directory
it is never the root. `load_state` looks for the version file in the root (`ui/state_worker.rs:445`),
so the game is not launched through an extender the button has installed, against
line 440. `Data` may also be under a mounted overlay during an install, whose files then go
where that overlay writes; that is not modelled. One mod with two versions of an address library is
reported as a mismatch between mods (`core/conflict/address_lib.rs:181`, against lines 20 and 48).

Plugins. A publish under way calls the handlers it has collected, also of plugins that
have been unloaded or refused meanwhile (`core/plugin/event.rs:283`). Subscriptions go
to a bus made for one scan and dropped with it (`ui/state_worker.rs:812`); `a.so` and
`a.rhai` share `a.toml`.

Game files. Of two lines for one key `set` changes the first and `parse` takes the last
(`core/game/ini.rs`). The override writer looks for a header with single
backslashes while `registry.rs:26` documents double ones: it may append a
section that the reader prefers to the older one (`core/skse/proton.rs:46` says that existing
entries are never modified). `detect_all` drops what the registry adds, by app
id (`core/game/steam.rs:144`); a game that was not found is cached until the
next start. A whole save that is deleted between `is_file` and `exists` is named as one
without cosave (`core/diag/cosave.rs:182`, `:196`); the case of a cosave's name is exact and
that of a save's extension is not; the directory is read as one snapshot.

Settings and search. A key the secret store refuses leaves the user with none, since the legacy
key is cleared anyway (`ui/settings.rs:475`); where that save fails, the legacy key is still in the
file and is moved over the newer one when the dialog opens next. A broken settings file is
overwritten with defaults by the first row of the dialog. Without the feature `secrets`, which is
a default one and not modelled, a key that is entered is lost, and the dialog drops the
legacy key from its copy (`ui/settings.rs:469`), although `core/secrets.rs:9` says that callers fall
back to it. The row of a theme that has been deleted applies and saves it
(`ui/pages/plugins.rs:441`). An answer carries no mark of its search: one that comes late is shown under the
game of the last search, its ids are then looked up in that game, and a link is queued under the
name of the mod that is selected when it arrives (`ui/pages/nexus_search.rs:289`, `:355`, `:463`,
`:607`); `AnswersMatch` claims ids, and games until that has happened.

Hazards of these kinds that are not in `PROJECT.json`, because a difference above
already says what happens or another property covers the same line: the check
outside the transaction in `reorder`, the steps of a clone, of `delete_profile` and of
`ensure_default`, an `execute_batch` that stops inside its transaction, restarts
and row updates of the queue, its late messages, timeouts of the download,
renames and unlinks of the farm, the start of the fuse child, and plugin scripts
that publish.

## Not modelled

- Mount namespace: nothing calls `enter_mount_namespace`.
- Archive formats: pure I/O; `Install` models an extraction as files that
  appear one by one, and its failure.
- Nexus client: one request and one answer per call; `DownloadsPage`, `Search` and
  `Skse` have its answers and failures.
- Database connection: the journal mode and corruption.
- State worker: the statements of `load_state` that only read for tiles
  (conflict counts, downloads, themes); what they read is in `Conflicts`,
  `Diagnostics` and `GameDetection`.
- Event bus: in `Window` as the window uses it, in `PluginHost` with handles that
  are dropped; the two are not composed, for the program makes a bus of its own for
  plugins.
- Pages and window shell: layout, tiles, filters, style sheets.
- Themes: the scan of their directory and the content of their files.

## Plan

1. An abstract download (a destination that goes from absent to whole in one
   step) that `DownloadQueue` implements without cancellation.
2. An abstract window (a view that follows the database with some delay) that
   `Window` implements when reloads do not overtake each other.
