------------------------------ MODULE MantleDb ------------------------------
(***************************************************************************)
(* The tables `profiles`, `mods` and `profile_mods` of the SQLite database *)
(* (data/migrations/m001_initial.sql) and the statements the Rust code     *)
(* runs on them.  A statement outside an explicit transaction commits by   *)
(* itself; a statement that breaks a constraint changes nothing.           *)
(*                                                                         *)
(* Row ids are AUTOINCREMENT: an id is never given twice, so the name of a *)
(* profile and the slug of a mod are functions of the id, and the ids in   *)
(* ProfileIds and ModIds bound how many rows are ever created.             *)
(***************************************************************************)
EXTENDS ModOrder

CONSTANTS
  ProfileIds,   \* every id the profiles table may hand out
  ModIds,       \* every id the mods table may hand out
  NameOf,       \* the name of the profile with that id
  SlugOf        \* the slug of the mod with that id

ASSUME IdsAssumption ==
  /\ IsFiniteSet(ProfileIds)
  /\ IsFiniteSet(ModIds)
  /\ DOMAIN NameOf = ProfileIds
  /\ DOMAIN SlugOf = ModIds

VARIABLES
  profiles,     \* ids with a row in profiles
  active,       \* the rows of profiles with is_active = 1
  mods,         \* ids with a row in mods
  prio,         \* prio[p][m]: priority of the row (p, m), 0 without one
  enabled,      \* enabled[p]: mods of profile p with is_enabled = 1
  spent         \* ids already handed out (sqlite_sequence)

tables == <<profiles, active, mods, prio, enabled, spent>>

Names == {NameOf[p] : p \in ProfileIds}
Slugs == {SlugOf[m] : m \in ModIds}

TablesTypeOK ==
  /\ profiles \subseteq ProfileIds
  /\ active \subseteq profiles
  /\ mods \subseteq ModIds
  /\ prio \in [ProfileIds -> [ModIds -> Nat]]
  /\ enabled \in [ProfileIds -> SUBSET ModIds]
  /\ spent \in [profiles : SUBSET ProfileIds, mods : SUBSET ModIds]

\* The mods with a row in profile p.
ModsIn(p) == {m \in ModIds : prio[p][m] # 0}

\* Mutant of IsNextPriority: the first free priority, so that gaps are filled.
IsFirstFree(p, n) ==
  /\ \A m \in ModsIn(p) : prio[p][m] # n
  /\ \A k \in 1 .. n - 1 : \E m \in ModsIn(p) : prio[p][m] = k

\* n is SELECT COALESCE(MAX(priority), 0) + 1 over the rows of p.
IsNextPriority(p, n) ==
  /\ \A m \in ModsIn(p) : prio[p][m] < n
  /\ n = 1 \/ \E m \in ModsIn(p) : prio[p][m] = n - 1

EmptyDb ==
  /\ profiles = {} /\ active = {} /\ mods = {}
  /\ prio = [p \in ProfileIds |-> [m \in ModIds |-> 0]]
  /\ enabled = [p \in ProfileIds |-> {}]
  /\ spent = [profiles |-> {}, mods |-> {}]

(***************************************************************************)
(* Statements.                                                             *)
(***************************************************************************)

\* UNIQUE(name): an INSERT of that name fails.
NameTaken(n) == \E p \in profiles : NameOf[p] = n
\* UNIQUE(slug)
SlugTaken(s) == \E m \in mods : SlugOf[m] = s

\* INSERT INTO profiles ... is_active = 0; p is last_insert_rowid().
InsertProfileRow(p) ==
  /\ p \notin spent.profiles
  /\ profiles' = profiles \cup {p}
  /\ spent' = [spent EXCEPT !.profiles = @ \cup {p}]
  /\ UNCHANGED <<active, mods, prio, enabled>>

\* INSERT INTO mods; m is last_insert_rowid().
InsertModRow(m) ==
  /\ m \notin spent.mods
  /\ mods' = mods \cup {m}
  /\ spent' = [spent EXCEPT !.mods = @ \cup {m}]
  /\ UNCHANGED <<profiles, active, prio, enabled>>

\* BEGIN; UPDATE profiles SET is_active = 0;
\* UPDATE profiles SET is_active = 1 WHERE id = p; COMMIT
SetSoleActive(p) ==
  /\ active' = {p} \cap profiles
  /\ UNCHANGED <<profiles, mods, prio, enabled, spent>>

\* DELETE FROM profiles WHERE id = p, with ON DELETE CASCADE.
DropProfile(p) ==
  /\ profiles' = profiles \ {p}
  /\ active' = active \ {p}
  /\ prio' = [prio EXCEPT ![p] = [m \in ModIds |-> 0]]
  /\ enabled' = [enabled EXCEPT ![p] = {}]
  /\ UNCHANGED <<mods, spent>>

\* DELETE FROM mods WHERE slug = ..., with ON DELETE CASCADE: the priorities
\* that are left keep their gap.
DropMod(m) ==
  /\ mods' = mods \ {m}
  /\ prio' = [p \in ProfileIds |-> [prio[p] EXCEPT ![m] = 0]]
  /\ enabled' = [p \in ProfileIds |-> enabled[p] \ {m}]
  /\ UNCHANGED <<profiles, active, spent>>

\* The foreign keys of profile_mods.
KeysExist(p, ms) == ms # {} => p \in profiles /\ ms \subseteq mods

\* Mutant of RowIsNew: without UNIQUE(profile_id, priority).
ModIsNew(p, m, k) == k > 0 /\ m \notin ModsIn(p)

\* UNIQUE(profile_id, mod_id) and UNIQUE(profile_id, priority).
RowIsNew(p, m, k) == \A x \in ModsIn(p) : x # m /\ prio[p][x] # k

\* INSERT INTO profile_mods (p, m, k, 1)
InsertRow(p, m, k) ==
  /\ KeysExist(p, {m})
  /\ RowIsNew(p, m, k)
  /\ prio' = [prio EXCEPT ![p] = [@ EXCEPT ![m] = k]]
  /\ enabled' = [enabled EXCEPT ![p] = @ \cup {m}]
  /\ UNCHANGED <<profiles, active, mods, spent>>

\* DELETE FROM profile_mods WHERE profile_id = p, then one INSERT per id of
\* `order`, in one transaction; it commits only if every INSERT succeeds.
ReplaceRows(p, order, on) ==
  /\ KeysExist(p, DOMAIN order)
  /\ OneToOne(order)
  /\ prio' = [prio EXCEPT ![p] =
                [m \in ModIds |-> IF m \in DOMAIN order THEN order[m] ELSE 0]]
  /\ enabled' = [enabled EXCEPT ![p] = on \cap DOMAIN order]
  /\ UNCHANGED <<profiles, active, mods, spent>>

\* UPDATE profile_mods SET is_enabled = b WHERE (p, m)
SetEnabledFlag(p, m, b) ==
  /\ m \in ModsIn(p)
  /\ enabled' = [enabled EXCEPT ![p] = IF b THEN @ \cup {m} ELSE @ \ {m}]
  /\ UNCHANGED <<profiles, active, mods, prio, spent>>

(***************************************************************************)
(* What the tables promise, whatever the callers do.                       *)
(***************************************************************************)

\* Foreign keys: a row of profile_mods names a profile and a mod that exist,
\* and only rows are enabled (delete_profile, delete_mod, replace).
RowsHaveOwners ==
  \A p \in ProfileIds, m \in ModIds :
    /\ prio[p][m] # 0 => p \in profiles /\ m \in mods
    /\ m \in enabled[p] => prio[p][m] # 0

\* No two mods of one profile share a priority: the overlay's order is total.
PrioritiesUnique ==
  \A p \in ProfileIds : \A x, y \in ModsIn(p) :
    prio[p][x] = prio[p][y] => x = y

\* data/profiles.rs: set_active_profile leaves no second active profile.
AtMostOneActive == \A p, q \in active : p = q
=============================================================================
