--------------------------- MODULE SkseConflicts ---------------------------
(***************************************************************************)
(* The conflicts of script extender plugins: dll_files_for_profile and      *)
(* detect_dll_conflicts of conflict/dll.rs, and the address libraries of    *)
(* conflict/address_lib.rs.                                                 *)
(*                                                                          *)
(* A recorded file is a DLL or not and lies in a directory of the script    *)
(* extender or not, or it is an address library of a type and a version.    *)
(***************************************************************************)
EXTENDS Naturals, Sequences, SequencesExt

CONSTANTS
  Mods,         \* in the order of their priorities
  DllFiles,     \* the paths that end in .dll, in their order
  SePlugins,    \* those in a directory of the script extender
  Libs,         \* the address libraries: [type, version]
  Versions,     \* of the game
  None

VARIABLES
  enabled,    \* the mods that are enabled in the profile
  ships,      \* the DLLs of each mod
  brings,     \* the address libraries of each mod
  gameIs,     \* the version of the game, if it is known
  find,       \* the two detections
  dllConflicts, libConflicts

seVars == <<enabled, ships, brings, gameIs, find, dllConflicts, libConflicts>>
table == <<enabled, ships, brings, gameIs>>

Ms == Range(Mods)
LibTypes == {l.type : l \in Libs}

SeInit ==
  /\ enabled \in SUBSET Ms
  /\ ships \in [Ms -> SUBSET Range(DllFiles)]
  /\ brings \in [Ms -> SUBSET Libs]
  /\ gameIs \in Versions \cup {None}
  /\ find = [at |-> "query", rows |-> {}, slugs |-> <<>>, paths |-> [m \in Ms |-> {}],
             byPath |-> [d \in Range(DllFiles) |-> <<>>],
             byType |-> [t \in LibTypes |-> {}]]
  /\ dllConflicts = {} /\ libConflicts = {}

\* Mutant of Rows: the mods of the profile, enabled or not.
RowsOfAll ==
  {r \in (DOMAIN Mods) \X (DOMAIN DllFiles) : DllFiles[r[2]] \in ships[Mods[r[1]]]}

\* What the query finds: the place of the mod among the priorities, and of the path.
Rows ==
  {r \in (DOMAIN Mods) \X (DOMAIN DllFiles) :
     Mods[r[1]] \in enabled /\ DllFiles[r[2]] \in ships[Mods[r[1]]]}

\* ORDER BY pm.priority ASC, mf.rel_path ASC
FirstRow(rows) ==
  CHOOSE r \in rows :
    \A s \in rows : r[1] < s[1] \/ (r[1] = s[1] /\ r[2] <= s[2])

Query ==
  /\ find.at = "query"
  /\ find' = [find EXCEPT !.at = "group", !.rows = Rows]
  /\ UNCHANGED <<table, dllConflicts, libConflicts>>

\* A row opens or extends the entry of its mod, unless it is no plugin.
Group ==
  /\ find.at = "group" /\ find.rows # {}
  /\ LET r == FirstRow(find.rows)
         m == Mods[r[1]]
         d == DllFiles[r[2]]
     IN find' =
          IF d \notin SePlugins THEN [find EXCEPT !.rows = @ \ {r}]
          ELSE [find EXCEPT !.rows = @ \ {r}, !.paths[m] = @ \cup {d},
                            !.slugs = IF find.paths[m] = {} THEN Append(@, m) ELSE @]
  /\ UNCHANGED <<table, dllConflicts, libConflicts>>

\* The entries are turned around: the mods of every path.
PathsOfMod ==
  /\ find.at = "group" /\ find.rows = {} /\ find.slugs # <<>>
  /\ LET m == Head(find.slugs)
     IN find' = [find EXCEPT !.slugs = Tail(@),
          !.byPath = [d \in DOMAIN @ |-> IF d \in find.paths[m] THEN Append(@[d], m)
                                         ELSE @[d]]]
  /\ UNCHANGED <<table, dllConflicts, libConflicts>>

DllsDone ==
  /\ find.at = "group" /\ find.rows = {} /\ find.slugs = <<>>
  /\ dllConflicts' = {[path |-> d, mods |-> find.byPath[d]] :
                        d \in {e \in DOMAIN find.byPath : Len(find.byPath[e]) > 1}}
  /\ find' = [find EXCEPT !.at = "libs", !.slugs = Mods]
  /\ UNCHANGED <<table, libConflicts>>

\* The caller names the mods; each puts its libraries under type and version.
LibsOfMod ==
  /\ find.at = "libs" /\ find.slugs # <<>>
  /\ LET m == Head(find.slugs)
     IN find' = [find EXCEPT !.slugs = Tail(@),
          !.byType = [t \in LibTypes |-> @[t] \cup
             {<<m, l.version>> : l \in {k \in brings[m] : k.type = t}}]]
  /\ UNCHANGED <<table, dllConflicts, libConflicts>>

VersionsOf(t) == {s[2] : s \in find.byType[t]}

\* len() > 1
Several(S) == \E x, y \in S : x # y

\* Two versions of a type are a conflict between mods, also when one mod brings both; one that is not the game's,
\* when that is known, is one with the game.
LibKind(t) ==
  IF Several(VersionsOf(t)) THEN "mods"
  ELSE IF VersionsOf(t) # {} /\ gameIs # None /\ VersionsOf(t) # {gameIs} THEN "game"
  ELSE "none"

LibsDone ==
  /\ find.at = "libs" /\ find.slugs = <<>>
  /\ libConflicts' = {[type |-> t, kind |-> LibKind(t), mods |-> find.byType[t]] :
                        t \in {u \in LibTypes : LibKind(u) # "none"}}
  /\ find' = [find EXCEPT !.at = "done"]
  /\ UNCHANGED <<table, dllConflicts>>

SeNext == Query \/ Group \/ PathsOfMod \/ DllsDone \/ LibsOfMod \/ LibsDone

-----------------------------------------------------------------------------
Rivals(d) == {m \in enabled : d \in ships[m]}
Place(m) == CHOOSE i \in DOMAIN Mods : Mods[i] = m

\* A DLL conflict is reported for exactly the plugins that two enabled mods bring, with
\* all of these mods, the first one the one whose file the game sees.
DllConflictsExact ==
  find.at \in {"libs", "done"} =>
    /\ {c.path : c \in dllConflicts} = {d \in SePlugins : Several(Rivals(d))}
    /\ \A c \in dllConflicts :
         /\ Range(c.mods) = Rivals(c.path)
         /\ \A i, j \in DOMAIN c.mods : i < j => Place(c.mods[i]) < Place(c.mods[j])

Bringers(t) == {m \in Ms : \E l \in brings[m] : l.type = t}

\* Every type of library that comes in two versions is reported once, as a matter of the
\* mods even when a single one brings both; a type in one version is reported exactly if
\* it is not the game's.
LibConflictsExact ==
  find.at = "done" =>
    \A t \in LibTypes :
      LET reports == {c \in libConflicts : c.type = t}
          theirs == {l \in UNION {brings[m] : m \in Ms} : l.type = t}
          agree == \A k, l \in theirs : k.version = l.version
          fits == \A l \in theirs : gameIs # None => l.version = gameIs
      IN /\ {c.kind : c \in reports} =
              IF ~ agree THEN {"mods"} ELSE IF ~ fits THEN {"game"} ELSE {}
         /\ \A c \in reports : {s[1] : s \in c.mods} = Bringers(t)
=============================================================================
