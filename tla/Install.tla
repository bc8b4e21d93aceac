------------------------------ MODULE Install ------------------------------
(***************************************************************************)
(* Installing a mod from an archive: install_mod_archive and                *)
(* register_mod_files of install_dialog.rs, with the unpacking of the BSA   *)
(* files in it (install/bsa.rs), the renaming of everything to lower case   *)
(* (install/case_fold.rs) and the rows of mod_files (data/mod_files.rs).    *)
(*                                                                          *)
(* Every install is a thread of its own.  A path is a pair <<directory,     *)
(* name>>, deep enough for both kinds of entries.  add_mod_to_profile is a  *)
(* matter of module Window.                                                 *)
(***************************************************************************)
EXTENDS Naturals, FiniteSets

CONSTANTS
  Names,       \* names of files and directories
  LowerOf,     \* each of them in lower case
  TmpOf,       \* each of them with the suffix .__case_tmp__
  Packed,      \* for each name of a BSA file, the paths packed in it
  Archives,    \* the archives a user may pick: stem and files
  SlugOf,      \* the slug made from a stem
  Installs,    \* threads
  Unreadable,  \* bound: the names of files that an install may fail to read
  Root, None

Stems == {a.stem : a \in Archives}
Slugs == {SlugOf[s] : s \in Stems}
Dirs == Names \cup {Root}
Files == Dirs \X Names
IsTmp(n) == \E m \in Names : n = TmpOf[m]

\* Lower case stays lower case, and what is packed are finitely many paths.
ASSUME NamesAssumption ==
  /\ LowerOf \in [Names -> Names] /\ TmpOf \in [Names -> Names]
  /\ \A n \in Names : LowerOf[LowerOf[n]] = LowerOf[n]
  /\ Root \notin Names /\ None \notin Names \cup {Root} \cup Stems

ASSUME ArchivesAssumption ==
  /\ \A a \in Archives : a.files \subseteq Files /\ IsFiniteSet(a.files)
  /\ \A b \in DOMAIN Packed : Packed[b] \subseteq Files /\ IsFiniteSet(Packed[b])

VARIABLES
  disk,        \* the files in each mod's directory
  modRow,      \* the install_dir of every slug in mods
  rows,        \* the rel_paths of every slug in mod_files
  job,         \* each thread
  crashes      \* how often the program has stopped

vars == <<disk, modRow, rows, job, crashes>>

Fresh == [at |-> "idle", stem |-> None, todo |-> {}, found |-> {}, subs |-> {},
          dirs |-> {}, here |-> None, work |-> {}, name |-> None, clean |-> TRUE]

Init ==
  /\ disk = [s \in Stems |-> {}]
  /\ modRow = [g \in Slugs |-> None]
  /\ rows = [g \in Slugs |-> {}]
  /\ job = [i \in Installs |-> Fresh]
  /\ crashes = 0

At(i, step) == job[i].at = step
Stem(i) == job[i].stem
Slug(i) == SlugOf[job[i].stem]
Tree(i) == disk[job[i].stem]
SetTree(i, D) == disk' = [disk EXCEPT ![job[i].stem] = D]
Finish(i, how, clean) ==
  job' = [job EXCEPT ![i] = [Fresh EXCEPT !.at = how, !.stem = Stem(i), !.clean = clean]]

(***************************************************************************)
(* The archive.                                                             *)
(***************************************************************************)
Begin(i) ==
  /\ At(i, "idle")
  /\ \E a \in Archives :
       job' = [job EXCEPT ![i] = [Fresh EXCEPT !.at = "extract", !.stem = a.stem,
                                               !.todo = a.files]]
  /\ UNCHANGED <<disk, modRow, rows, crashes>>

ExtractFile(i) ==
  /\ At(i, "extract")
  /\ \E p \in job[i].todo :
       /\ SetTree(i, Tree(i) \cup {p})
       /\ job' = [job EXCEPT ![i] = [@ EXCEPT !.todo = job[i].todo \ {p}]]
  /\ UNCHANGED <<modRow, rows, crashes>>

\* remove_dir takes an empty directory only: what was extracted stays.
ExtractFails(i) ==
  /\ At(i, "extract")
  /\ Finish(i, "failed", FALSE)
  /\ UNCHANGED <<disk, modRow, rows, crashes>>

\* register_installed_mod opens the database and looks the slug up.  When it cannot be
\* opened, the install reports success and registers nothing; an error of the query is
\* taken for a slug that is not there ...
LookUp(i) ==
  /\ At(i, "extract") /\ job[i].todo = {}
  /\ \/ job' = [job EXCEPT ![i] =
            [@ EXCEPT !.at = IF modRow[Slug(i)] = None THEN "insert" ELSE "unpack"]]
     \/ job' = [job EXCEPT ![i] = [@ EXCEPT !.at = "insert"]]
     \/ Finish(i, "done", FALSE)
  /\ UNCHANGED <<disk, modRow, rows, crashes>>

\* ... and inserts it, which may fail, and fails when it is there by now: again the
\* install reports success and registers nothing.
InsertMod(i) ==
  /\ At(i, "insert")
  /\ \/ /\ modRow[Slug(i)] = None
        /\ modRow' = [modRow EXCEPT ![Slug(i)] = Stem(i)]
        /\ job' = [job EXCEPT ![i] = [@ EXCEPT !.at = "unpack"]]
     \/ Finish(i, "done", FALSE) /\ UNCHANGED modRow
  /\ UNCHANGED <<disk, rows, crashes>>

(***************************************************************************)
(* extract_mod_archives: the BSA files found at its start, one by one.      *)
(***************************************************************************)
Bsas(D) == {p \in D : p[2] \in DOMAIN Packed}

FindArchives(i) ==
  /\ At(i, "unpack")
  /\ job' = [job EXCEPT ![i] = [@ EXCEPT !.at = "bsa", !.todo = Bsas(Tree(i))]]
  /\ UNCHANGED <<disk, modRow, rows, crashes>>

\* Where its files come to lie: in the directory that holds it.  (One in a subdirectory
\* is taken to pack no directories: two levels are all there is here.)
Beside(b) == {<<IF b[1] = Root THEN p[1] ELSE b[1], p[2]>> : p \in Packed[b[2]]}

\* Its files replace what lies there, and it is deleted if that succeeds.
UnpackBsa(i) ==
  /\ At(i, "bsa")
  /\ \E b \in job[i].todo \cap Tree(i) :
       /\ \/ SetTree(i, (Tree(i) \cup Beside(b)) \ {b})
          \/ SetTree(i, Tree(i) \cup Beside(b))
       /\ job' = [job EXCEPT ![i] = [@ EXCEPT !.todo = job[i].todo \ {b}]]
  /\ UNCHANGED <<modRow, rows, crashes>>

UnpackFails(i) ==
  /\ At(i, "bsa")
  /\ \E b \in job[i].todo :
       /\ \E S \in IF b \in Tree(i) THEN SUBSET Beside(b) ELSE {{}} :
            SetTree(i, Tree(i) \cup S)
       /\ job' = [job EXCEPT ![i] = [@ EXCEPT !.todo = job[i].todo \ {b}]]
  /\ UNCHANGED <<modRow, rows, crashes>>

(***************************************************************************)
(* normalize_dir: the entries of the root are read, then for each directory *)
(* among them its files, then the files of the root, then the directories.  *)
(***************************************************************************)
NamesIn(D, d) == {p[2] : p \in {q \in D : q[1] = d}}
Subdirs(D) == {p[1] : p \in D} \ {Root}

\* Mutant of Renamable: names that differ in case alone are not left out.
RenamableAlike(S) == {n \in S : LowerOf[n] # n}

\* normalize_entries: a name that shares its lower case with another is left
\* alone, and so is one in lower case.
Renamable(S) ==
  {n \in S : LowerOf[n] # n /\ \A m \in S \ {n} : LowerOf[m] # LowerOf[n]}

ReadRoot(i) ==
  /\ At(i, "bsa") /\ job[i].todo = {}
  /\ job' = [job EXCEPT ![i] =
       [@ EXCEPT !.at = "fold", !.subs = Subdirs(Tree(i)), !.dirs = Subdirs(Tree(i)),
                 !.todo = {<<Root, n>> : n \in NamesIn(Tree(i), Root)}]]
  /\ UNCHANGED <<disk, modRow, rows, crashes>>

Between(i) == At(i, "fold") /\ job[i].work = {} /\ job[i].name = None

FoldSubdir(i) ==
  /\ Between(i)
  /\ \E d \in job[i].dirs :
       job' = [job EXCEPT ![i] =
         [@ EXCEPT !.dirs = job[i].dirs \ {d}, !.here = d,
                   !.work = Renamable(NamesIn(Tree(i), d))]]
  /\ UNCHANGED <<disk, modRow, rows, crashes>>

\* The children are through: now the files of the root ...
FoldRootFiles(i) ==
  /\ Between(i) /\ job[i].dirs = {} /\ job[i].here # Root
  /\ job' = [job EXCEPT ![i] =
       [@ EXCEPT !.here = Root, !.todo = {},
                 !.work = Renamable({p[2] : p \in job[i].todo})]]
  /\ UNCHANGED <<disk, modRow, rows, crashes>>

\* ... and last the directories themselves.
FoldDirs(i) ==
  /\ Between(i) /\ job[i].dirs = {} /\ job[i].here = Root
  /\ job' = [job EXCEPT ![i] =
       [@ EXCEPT !.at = "folddirs", !.subs = {}, !.work = Renamable(job[i].subs)]]
  /\ UNCHANGED <<disk, modRow, rows, crashes>>

\* rename(2) of a file in a directory, and of a directory of the root.
FileMoved(D, d, a, b) == (D \ {<<d, a>>}) \cup {<<d, b>>}
FileMoves(D, d, a, b) == <<d, a>> \in D /\ (d = Root => b \notin Subdirs(D))
DirMoved(D, a, b) == {<<IF p[1] = a THEN b ELSE p[1], p[2]>> : p \in D}
DirMoves(D, a, b) ==
  a \in Subdirs(D) /\ b \notin Subdirs(D) /\ <<Root, b>> \notin D

Moves(i, a, b) ==
  IF At(i, "fold") THEN FileMoves(Tree(i), job[i].here, a, b)
                   ELSE DirMoves(Tree(i), a, b)
Moved(i, a, b) ==
  IF At(i, "fold") THEN FileMoved(Tree(i), job[i].here, a, b)
                   ELSE DirMoved(Tree(i), a, b)

Folding(i) == job[i].at \in {"fold", "folddirs"}

\* rename_two_step: to the temporary name, in place of a file that has it ...
RenameAway(i) ==
  /\ Folding(i) /\ job[i].name = None
  /\ \E n \in job[i].work :
       /\ Moves(i, n, TmpOf[n])
       /\ SetTree(i, Moved(i, n, TmpOf[n]))
       /\ job' = [job EXCEPT ![i] =
            [@ EXCEPT !.work = job[i].work \ {n}, !.name = n,
                      !.clean = job[i].clean /\ <<job[i].here, TmpOf[n]>> \notin Tree(i)]]
  /\ UNCHANGED <<modRow, rows, crashes>>

\* ... and from there to the lower case one.
RenameBack(i) ==
  /\ Folding(i) /\ job[i].name # None
  /\ LET n == job[i].name
     IN /\ Moves(i, TmpOf[n], LowerOf[n])
        /\ SetTree(i, Moved(i, TmpOf[n], LowerOf[n]))
  /\ job' = [job EXCEPT ![i] = [@ EXCEPT !.name = None]]
  /\ UNCHANGED <<modRow, rows, crashes>>

\* Mutant of RenameFails: the second step is tried until it works.
RenameRetries(i) ==
  /\ Folding(i) /\ job[i].name = None
  /\ \E n \in job[i].work :
       job' = [job EXCEPT ![i] = [@ EXCEPT !.work = job[i].work \ {n}, !.clean = FALSE]]
  /\ UNCHANGED <<disk, modRow, rows, crashes>>

\* Either may fail: the first leaves the entry, the second its temporary name.
RenameFails(i) ==
  /\ Folding(i)
  /\ \/ /\ job[i].name # None
        /\ job' = [job EXCEPT ![i] = [@ EXCEPT !.name = None, !.clean = FALSE]]
     \/ /\ job[i].name = None
        /\ \E n \in job[i].work :
             job' = [job EXCEPT ![i] = [@ EXCEPT !.work = job[i].work \ {n}, !.clean = FALSE]]
  /\ UNCHANGED <<disk, modRow, rows, crashes>>

(***************************************************************************)
(* The rows.                                                                *)
(***************************************************************************)
LowerPath(p) == <<IF p[1] = Root THEN Root ELSE LowerOf[p[1]], LowerOf[p[2]]>>
Lowered(D) == {LowerPath(p) : p \in D}

\* The files that can be read and hashed: another one, and what is in a directory that
\* cannot be read, is passed over.
CollectFiles(i) ==
  /\ At(i, "folddirs") /\ job[i].work = {} /\ job[i].name = None
  /\ \E U \in SUBSET {p \in Tree(i) : p[2] \in Unreadable} :
       job' = [job EXCEPT ![i] = [@ EXCEPT !.at = "rows", !.found = Tree(i) \ U,
                                           !.clean = job[i].clean /\ U = {}]]
  /\ UNCHANGED <<disk, modRow, rows, crashes>>

\* Mutant of Accepted: INSERT OR IGNORE.
AcceptedAlike(i) == Lowered(job[i].found) \cap rows[Slug(i)] = {}

\* UNIQUE(mod_id, rel_path): one row that is refused rolls all back.  The rows
\* of an earlier install are still there: nothing calls delete_mod_files.
Accepted(i) ==
  /\ Cardinality(Lowered(job[i].found)) = Cardinality(job[i].found)
  /\ Lowered(job[i].found) \cap rows[Slug(i)] = {}

InsertModFiles(i) ==
  /\ At(i, "rows")
  /\ rows' = IF Accepted(i) THEN [rows EXCEPT ![Slug(i)] = @ \cup Lowered(job[i].found)]
                            ELSE rows
  /\ Finish(i, "done", job[i].clean /\ rows[Slug(i)] = {})
  /\ UNCHANGED <<disk, modRow, crashes>>

\* The database is locked or cannot be opened by now.
InsertFails(i) ==
  /\ At(i, "rows")
  /\ Finish(i, "done", FALSE)
  /\ UNCHANGED <<disk, modRow, rows, crashes>>

\* The program stops, and every thread with it.
Crash ==
  /\ crashes = 0
  /\ crashes' = 1
  /\ job' = [i \in Installs |-> IF At(i, "idle") THEN job[i]
                                ELSE [Fresh EXCEPT !.at = "gone"]]
  /\ UNCHANGED <<disk, modRow, rows>>

Step(i) ==
  \/ ExtractFile(i) \/ ExtractFails(i) \/ LookUp(i) \/ InsertMod(i)
  \/ FindArchives(i) \/ UnpackBsa(i) \/ UnpackFails(i)
  \/ ReadRoot(i) \/ FoldSubdir(i) \/ FoldRootFiles(i) \/ FoldDirs(i)
  \/ RenameAway(i) \/ RenameBack(i) \/ RenameFails(i)
  \/ CollectFiles(i) \/ InsertModFiles(i) \/ InsertFails(i)

Next == (\E i \in Installs : Begin(i) \/ Step(i)) \/ Crash

Spec == Init /\ [][Next]_vars /\ \A i \in Installs : WF_vars(Step(i))

-----------------------------------------------------------------------------
Ended == {"idle", "failed", "done", "gone"}
Alone(i) == \A j \in Installs \ {i} : Stem(j) = None \/ Slug(j) # Slug(i)
Away(i) == IF job[i].name = None THEN {} ELSE {TmpOf[job[i].name]}
Leftovers(i) == {p \in Tree(i) : \E n \in {p[1], p[2]} \ Away(i) : IsTmp(n)}
Alike(D) == Cardinality(Lowered(D)) # Cardinality(D)

Records ==
  [at : Ended \cup {"extract", "insert", "unpack", "bsa", "fold", "folddirs", "rows"},
   stem : Stems \cup {None}, todo : SUBSET Files, found : SUBSET Files,
   subs : SUBSET Names, dirs : SUBSET Names, here : Dirs \cup {None},
   work : SUBSET Names, name : Names \cup {None}, clean : BOOLEAN]

TypeOK ==
  /\ disk \in [Stems -> SUBSET Files]
  /\ modRow \in [Slugs -> Stems \cup {None}]
  /\ rows \in [Slugs -> SUBSET Files]
  /\ job \in [Installs -> Records]

\* Renaming to lower case never costs a file, in a directory that no other thread
\* has worked on and where no interrupted rename has left a temporary name.
FoldKeepsFiles ==
  [][\A i \in Installs :
       Folding(i) /\ Stem(i) = job'[i].stem /\ Alone(i) /\ Leftovers(i) = {}
         => Cardinality(disk'[Stem(i)]) = Cardinality(Tree(i))]_vars

\* After an install without an error, which passed over no file and in which no
\* temporary name was taken,
\* every name is in lower case, but for those that differ from another in the same
\* directory in case alone.
FoldedAll ==
  \A i \in Installs : At(i, "done") /\ job[i].clean /\ Alone(i) =>
    \A p \in Tree(i) :
      /\ p[1] = Root \/ p[1] = LowerOf[p[1]]
           \/ \E q \in Tree(i) : q[1] \notin {Root, p[1]} /\ LowerOf[q[1]] = LowerOf[p[1]]
      /\ p[2] = LowerOf[p[2]]
           \/ \E n \in NamesIn(Tree(i), p[1]) \ {p[2]} : LowerOf[n] = LowerOf[p[2]]

\* After such an install the conflict scan knows every file of the
\* mod by its path in lower case, or none when two of them have the same one.
RowsAreFiles ==
  \A i \in Installs : At(i, "done") /\ job[i].clean /\ Alone(i) =>
    rows[Slug(i)] = IF Alike(Tree(i)) THEN {} ELSE Lowered(Tree(i))

\* Every install ends, and the user is told.
InstallEnds == \A i \in Installs : job[i].at # "idle" ~> job[i].at \in Ended

\* What an install leaves in the directory is what it leaves in the database.
InstalledIsKnown == TypeOK /\ FoldedAll /\ RowsAreFiles
=============================================================================
