------------------------------ MODULE Profiles ------------------------------
(***************************************************************************)
(* data/profiles.rs, the database part of profile/mod.rs and               *)
(* service/profile.rs, composed with the mod list: the whole of what       *)
(* Mantle does to the tables of MantleDb.                                  *)
(***************************************************************************)
EXTENDS ModList

CONSTANT DefaultName      \* "Default"

ASSUME DefaultAssumption == DefaultName \in Names

vars == <<tables, call>>

Init ==
  /\ EmptyDb
  /\ call = [c \in Conns |-> Idle]

(***************************************************************************)
(* data::profiles.                                                         *)
(***************************************************************************)

CreateProfile(c) ==
  /\ call[c].at = "idle"
  /\ \E p \in ProfileIds : ~ NameTaken(NameOf[p]) /\ InsertProfileRow(p)
  /\ UNCHANGED call

\* set_active_profile: the existence check, then the transaction.
SetActive(c) ==
  \E p \in profiles :
    /\ Begin(c, [Idle EXCEPT !.at = "setActive", !.pid = p])
    /\ UNCHANGED tables

CommitActive(c) ==
  /\ call[c].at = "setActive"
  /\ SetSoleActive(call[c].pid)
  /\ Return(c)

\* data::profiles::delete_profile, which ProfileService::delete calls with
\* no check of its own.
DeleteRow(c) ==
  /\ call[c].at = "idle"
  /\ \E p \in profiles : DropProfile(p)
  /\ UNCHANGED call

(***************************************************************************)
(* profile::delete_profile: get_active_profile, then the DELETE.           *)
(***************************************************************************)

DeleteProfile(c) ==
  \E p \in profiles :
    /\ active = {} \/ \E q \in active : q # p
    /\ Begin(c, [Idle EXCEPT !.at = "delete", !.pid = p])
    /\ UNCHANGED tables

CommitDelete(c) ==
  /\ call[c].at = "delete"
  /\ DropProfile(call[c].pid)
  /\ Return(c)

(***************************************************************************)
(* profile::clone_profile: no transaction around the whole.                *)
(***************************************************************************)

CloneProfile(c) ==
  \E s \in profiles, n \in Names :
    /\ Begin(c, [Idle EXCEPT !.at = "cloneInsert", !.src = s, !.key = n])
    /\ UNCHANGED tables

InsertClone(c) ==
  LET k == call[c] IN
  /\ k.at = "cloneInsert"
  /\ ~ NameTaken(k.key)
  /\ \E p \in ProfileIds :
       /\ NameOf[p] = k.key
       /\ InsertProfileRow(p)
       /\ Continue(c, [k EXCEPT !.at = "cloneList", !.pid = p])

ListSource(c) ==
  LET k == call[c] IN
  /\ k.at = "cloneList"
  /\ Continue(c, AfterAdd([k EXCEPT !.list = ListOf(k.src)]))
  /\ UNCHANGED tables

(***************************************************************************)
(* ProfileService::ensure_default: list, insert and activate, each under   *)
(* its own with_conn.  Every state reload runs it on a thread of its own.  *)
(***************************************************************************)

EnsureDefault(c) ==
  /\ profiles = {}
  /\ Begin(c, [Idle EXCEPT !.at = "ensureInsert", !.key = DefaultName])
  /\ UNCHANGED tables

\* Mutant of InsertDefault: the profile is not activated.
InsertDefaultOnly(c) ==
  /\ call[c].at = "ensureInsert"
  /\ ~ NameTaken(DefaultName)
  /\ \E p \in ProfileIds : NameOf[p] = DefaultName /\ InsertProfileRow(p)
  /\ Return(c)

InsertDefault(c) ==
  /\ call[c].at = "ensureInsert"
  /\ ~ NameTaken(DefaultName)
  /\ \E p \in ProfileIds :
       /\ NameOf[p] = DefaultName
       /\ InsertProfileRow(p)
       /\ Continue(c, [Idle EXCEPT !.at = "activate", !.pid = p])

\* UNIQUE(name) refuses the profile a clone or a second reload inserts.
InsertNameRefused(c) ==
  /\ call[c].at \in {"ensureInsert", "cloneInsert"}
  /\ NameTaken(call[c].key)
  /\ Return(c)
  /\ UNCHANGED tables

\* Mutant of ActivateDefault: the existence check is inverted.
ActivateMissing(c) ==
  LET k == call[c] IN
  /\ k.at = "activate"
  /\ Continue(c, IF k.pid \in profiles THEN Idle
                 ELSE [k EXCEPT !.at = "setActive"])
  /\ UNCHANGED tables

ActivateDefault(c) ==
  LET k == call[c] IN
  /\ k.at = "activate"
  /\ Continue(c, IF k.pid \in profiles THEN [k EXCEPT !.at = "setActive"]
                 ELSE Idle)
  /\ UNCHANGED tables

(***************************************************************************)
(* Specification.                                                          *)
(***************************************************************************)

ProfileStep(c) ==
  \/ CreateProfile(c) \/ SetActive(c) \/ CommitActive(c) \/ DeleteRow(c)
  \/ DeleteProfile(c) \/ CommitDelete(c)
  \/ CloneProfile(c) \/ InsertClone(c) \/ ListSource(c)
  \/ EnsureDefault(c) \/ InsertDefault(c) \/ InsertNameRefused(c)
  \/ ActivateDefault(c)

Next == \E c \in Conns : ModListStep(c) \/ ProfileStep(c)

Spec == Init /\ [][Next]_vars

(***************************************************************************)
(* Properties.                                                             *)
(***************************************************************************)

TypeOK == TablesTypeOK /\ CallTypeOK

\* When clone_profile has copied its last row, the new profile lists the mods
\* of the source in the order of the source, although delete_mod may have left
\* gaps there and the copy is numbered from 1.
CloneKeepsOrder ==
  \A c \in Conns, s, p \in ProfileIds :
    /\ Ends(c, "insert") /\ prio' # prio
    /\ call[c].src = s /\ call[c].pid = p
    => ListOf(p)' = ListOf(s)

\* The operations that rewrite or copy a list keep what they are not about.
ListsKept == [][ReplaceKeepsOthers /\ CloneKeepsOrder]_vars

Quiet == \A c \in Conns : call[c].at = "idle"

\* m001_initial.sql: exactly one profile is active, read between operations.
OneActiveWhenQuiet ==
  Quiet /\ profiles # {} => \E p \in profiles : active = {p}

\* The tables keep what the schema promises: foreign keys and their cascades,
\* UNIQUE(profile_id, priority), one active profile, whatever the threads do.
TablesConsistent ==
  TypeOK /\ RowsHaveOwners /\ PrioritiesUnique /\ AtMostOneActive
=============================================================================
