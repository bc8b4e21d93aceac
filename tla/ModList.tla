------------------------------ MODULE ModList ------------------------------
(***************************************************************************)
(* mod_list/mod.rs, data/mods.rs and the database part of a mod install    *)
(* (mantle_ui/install_dialog.rs), one step per SQL statement.              *)
(*                                                                         *)
(* Each element of Conns is a thread with a connection of its own          *)
(* (Database::open per operation), so another connection may commit        *)
(* between any two statements of one operation.  call[c] is the operation  *)
(* c is in: `at` names the statement it runs next, the other fields are    *)
(* the Rust locals that statement uses.  An operation that returns early   *)
(* without having written leaves no trace, so its early return is the      *)
(* guard of its first step.                                                *)
(***************************************************************************)
EXTENDS MantleDb

CONSTANTS
  Conns,        \* threads, each with its own connection
  None,         \* no profile, mod or key
  MaxPriority   \* bound on the priorities explored: add_mod_to_profile racing
                \* with remove_mod_from_profile raises them without limit

ASSUME NoneAssumption == None \notin ProfileIds \cup ModIds \cup Names \cup Slugs
ASSUME MaxPriorityAssumption == MaxPriority \in Nat

VARIABLE call

\* Orders of some of the mods; Ranked and IndexOf use no higher position.
Orders == UNION {[S -> 1 .. Cardinality(ModIds)] : S \in SUBSET ModIds}

Statements ==
  {"idle",
   "insertMod", "readActive",                      \* register_installed_mod
   "count", "max", "insert",                       \* add_mod_to_profile
   "replace",                                      \* replace_all_profile_mods
   "activate", "setActive",                        \* set_active_profile
   "delete",                                       \* profile::delete_profile
   "ensureInsert",                                 \* ensure_default
   "cloneInsert", "cloneList"}                     \* clone_profile

Calls ==
  [at   : Statements,
   pid  : ProfileIds \cup {None},        \* the profile written
   mid  : ModIds \cup {None},            \* the mod written
   key  : Names \cup Slugs \cup {None},  \* the name or slug to insert
   next : Nat,                           \* next_priority
   list : Orders,                        \* the order to write, or what the loop
                                         \* of clone_profile still has to add
   on   : SUBSET ModIds,                 \* enabled_map
   src  : ProfileIds \cup {None}]        \* clone_profile's source

CallTypeOK == call \in [Conns -> Calls]

Idle == [at |-> "idle", pid |-> None, mid |-> None, key |-> None, next |-> 0,
         list |-> << >>, on |-> {}, src |-> None]

\* Thread c goes on with the operation k, or, with Idle, returns.
Continue(c, k) == call' = [call EXCEPT ![c] = k]
Return(c) == Continue(c, Idle)

\* A thread with nothing to do starts an operation at statement `at`.
Begin(c, k) == call[c].at = "idle" /\ Continue(c, k)

\* list_profile_mods: the rows of p in the order of their priority.
ListOf(p) == Ranked([m \in ModsIn(p) |-> prio[p][m]])

(***************************************************************************)
(* add_mod_to_profile: three statements, no transaction.                   *)
(***************************************************************************)

\* What follows an add that returned Ok: the caller's loop goes on with the
\* next mod of the source (clone_profile), any other caller is done.
AfterAdd(k) ==
  IF DOMAIN k.list = {} THEN Idle
  ELSE [k EXCEPT !.at = "count", !.mid = HeadOf(k.list),
                 !.list = RestOf(k.list), !.next = 0]

AddMod(c) ==
  \E p \in spent.profiles, m \in spent.mods :
    /\ Begin(c, [Idle EXCEPT !.at = "count", !.pid = p, !.mid = m])
    /\ UNCHANGED tables

CountRow(c) ==
  LET k == call[c] IN
  /\ k.at = "count"
  /\ Continue(c, IF k.mid \in ModsIn(k.pid) THEN AfterAdd(k)
                 ELSE [k EXCEPT !.at = "max"])
  /\ UNCHANGED tables

ReadMaxPriority(c) ==
  LET k == call[c] IN
  /\ k.at = "max"
  /\ \E n \in 1 .. MaxPriority :
       /\ IsNextPriority(k.pid, n)
       /\ Continue(c, [k EXCEPT !.at = "insert", !.next = n])
  /\ UNCHANGED tables

InsertProfileMod(c) ==
  LET k == call[c] IN
  /\ k.at = "insert"
  /\ InsertRow(k.pid, k.mid, k.next)
  /\ Continue(c, AfterAdd(k))

\* A constraint refuses the row: the error goes up to the caller, which stops.
InsertRefused(c) ==
  LET k == call[c] IN
  /\ k.at = "insert"
  /\ ~ (KeysExist(k.pid, {k.mid}) /\ RowIsNew(k.pid, k.mid, k.next))
  /\ Return(c)
  /\ UNCHANGED tables

(***************************************************************************)
(* remove, move and reorder: read the list, then write it whole.           *)
(***************************************************************************)

\* The argument mod_id (None for reorder) stays in `mid`.
Plan(p, m, order) ==
  [Idle EXCEPT !.at = "replace", !.pid = p, !.mid = m, !.list = order,
               !.on = enabled[p] \cap DOMAIN order]

RemoveMod(c) ==
  \E p \in profiles : \E m \in ModsIn(p) :
    /\ Begin(c, Plan(p, m, Without(ListOf(p), m)))
    /\ UNCHANGED tables

MoveMod(c) ==
  \E p \in profiles : \E m \in ModsIn(p), n \in 0 .. Cardinality(ModIds) + 1 :
    LET order  == ListOf(p)
        target == Clamped(n, Cardinality(DOMAIN order)) IN
    /\ order[m] # target
    /\ Begin(c, Plan(p, m, Moved(order, m, target)))
    /\ UNCHANGED tables

ReorderMods(c) ==
  \E p \in profiles :
  \E ids \in [1 .. Cardinality(ModsIn(p)) -> ModIds] :
    /\ ListsExactly(ids, ModsIn(p))
    /\ Begin(c, Plan(p, None, IndexOf(ids)))
    /\ UNCHANGED tables

ReplaceAll(c) ==
  LET k == call[c] IN
  /\ k.at = "replace"
  /\ ReplaceRows(k.pid, k.list, k.on)
  /\ Return(c)

\* An INSERT fails: the transaction is dropped and rolls back.
ReplaceRefused(c) ==
  LET k == call[c] IN
  /\ k.at = "replace"
  /\ ~ (KeysExist(k.pid, DOMAIN k.list) /\ OneToOne(k.list))
  /\ Return(c)
  /\ UNCHANGED tables

(***************************************************************************)
(* Single statements.                                                      *)
(***************************************************************************)

SetModEnabled(c) ==
  \E p \in profiles : \E m \in ModsIn(p), b \in BOOLEAN :
    /\ call[c].at = "idle"
    /\ SetEnabledFlag(p, m, b)
    /\ UNCHANGED call

DeleteMod(c) ==
  \E m \in mods :
    /\ call[c].at = "idle"
    /\ DropMod(m)
    /\ UNCHANGED call

(***************************************************************************)
(* register_installed_mod: find or insert the mod, then add it to the      *)
(* active profile.                                                         *)
(***************************************************************************)

InstallMod(c) ==
  \E s \in Slugs :
    /\ IF SlugTaken(s)
       THEN \E m \in mods :
              /\ SlugOf[m] = s
              /\ Begin(c, [Idle EXCEPT !.at = "readActive", !.mid = m])
       ELSE Begin(c, [Idle EXCEPT !.at = "insertMod", !.key = s])
    /\ UNCHANGED tables

InsertMod(c) ==
  LET k == call[c] IN
  /\ k.at = "insertMod"
  /\ ~ SlugTaken(k.key)
  /\ \E m \in ModIds :
       /\ SlugOf[m] = k.key
       /\ InsertModRow(m)
       /\ Continue(c, [Idle EXCEPT !.at = "readActive", !.mid = m])

InsertModRefused(c) ==
  /\ call[c].at = "insertMod"
  /\ SlugTaken(call[c].key)
  /\ Return(c)
  /\ UNCHANGED tables

ReadActive(c) ==
  /\ call[c].at = "readActive"
  /\ \/ active = {} /\ Return(c)
     \/ \E p \in active :
          Continue(c, [call[c] EXCEPT !.at = "count", !.pid = p])
  /\ UNCHANGED tables

\* The thread stops between two statements: the process is killed, or the
\* statement fails for a reason outside the model (busy, disk).
Abort(c) ==
  /\ call[c].at # "idle"
  /\ Return(c)
  /\ UNCHANGED tables

ModListStep(c) ==
  \/ AddMod(c) \/ CountRow(c) \/ ReadMaxPriority(c)
  \/ InsertProfileMod(c) \/ InsertRefused(c)
  \/ RemoveMod(c) \/ MoveMod(c) \/ ReorderMods(c)
  \/ ReplaceAll(c) \/ ReplaceRefused(c)
  \/ SetModEnabled(c) \/ DeleteMod(c)
  \/ InstallMod(c) \/ InsertMod(c) \/ InsertModRefused(c) \/ ReadActive(c)
  \/ Abort(c)

(***************************************************************************)
(* Properties.                                                             *)
(***************************************************************************)

\* Every order about to be written numbers its mods 1, 2, ... without gap or
\* repetition, whatever gaps delete_mod left and whatever other connections
\* did: replace_all_profile_mods never meets UNIQUE(profile_id, priority).
PlansAreDense ==
  \A c \in Conns : call[c].at = "replace" =>
    LET order == call[c].list IN
    {order[m] : m \in DOMAIN order} = 1 .. Cardinality(DOMAIN order)

\* Thread c leaves statement `at`, and its operation with it.
Ends(c, at) == call[c].at = at /\ call'[c].at = "idle"

\* The rows a commit of replace_all_profile_mods may drop: the one mod that
\* remove_mod_from_profile was asked to remove.
AskedToDrop(k) == {k.mid} \ DOMAIN k.list

\* remove, move and reorder change one thing: when their transaction commits,
\* every other mod of the profile is still there with its enabled flag.
ReplaceKeepsOthers ==
  \A c \in Conns, p \in ProfileIds :
    LET k == call[c] IN
    Ends(c, "replace") /\ k.pid = p /\ <<prio, enabled>>' # <<prio, enabled>> =>
      /\ ModsIn(p)' = ModsIn(p) \ AskedToDrop(k)
      /\ enabled'[p] = enabled[p] \ AskedToDrop(k)
=============================================================================
