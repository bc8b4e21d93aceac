------------------------------ MODULE ModOrder ------------------------------
(***************************************************************************)
(* Orders of mod ids, as mod_list/mod.rs computes them.                    *)
(*                                                                         *)
(* The Rust code holds an order as a Vec of mod ids.  Here an order is a   *)
(* function from its mod ids to positions: position 1 is the head of the   *)
(* Vec, the highest priority.  The module holds no state.                  *)
(***************************************************************************)
EXTENDS Integers, FiniteSets, Sequences

\* The function f assigns no value twice.
OneToOne(f) == \A x, y \in DOMAIN f : f[x] = f[y] => x = y

\* `ORDER BY pm.priority ASC`: the rank of every id by its key.
Ranked(key) ==
  [m \in DOMAIN key |->
     Cardinality({k \in DOMAIN key : key[k] <= key[m]})]

\* Mutant of Without: the remaining mods keep their old positions.
WithoutCompacting(order, m) == [k \in DOMAIN order \ {m} |-> order[k]]

\* entries.iter().filter(|e| e.mod_id != mod_id), re-numbered from 1.
Without(order, m) == Ranked([k \in DOMAIN order \ {m} |-> order[k]])

\* new_priority.clamp(1, count)
Clamped(n, count) == IF n < 1 THEN 1 ELSE IF n > count THEN count ELSE n

\* Mutant of Moved: the insertion index is taken before the removal.
MovedBefore(order, m, target) ==
  Ranked([k \in DOMAIN order |->
            IF k # m THEN 2 * order[k] ELSE 2 * target - 1])

\* ids.remove(current_pos); ids.insert(target_idx, item): m lands on
\* position `target`; the ids between its old and its new place close up.
Moved(order, m, target) ==
  Ranked([k \in DOMAIN order |->
            IF k # m THEN 2 * order[k]
            ELSE IF target > order[m] THEN 2 * target + 1
            ELSE 2 * target - 1])

\* sort(existing) = sort(requested): `existing` has no duplicates, so the two
\* Vecs sort to the same one exactly when `ids` lists each member once.
ListsExactly(ids, members) ==
  /\ OneToOne(ids)
  /\ {ids[i] : i \in DOMAIN ids} = members

\* The index of every id of the Vec `ids`.
IndexOf(ids) ==
  [m \in {ids[i] : i \in DOMAIN ids} |-> CHOOSE i \in DOMAIN ids : ids[i] = m]

\* Mutant of HeadOf: the iteration runs backwards.
LastOf(order) ==
  CHOOSE m \in DOMAIN order : \A k \in DOMAIN order : order[k] <= order[m]

\* The head of a non-empty order, and what is left of the iteration after it.
HeadOf(order) ==
  CHOOSE m \in DOMAIN order : \A k \in DOMAIN order : order[m] <= order[k]
RestOf(order) == [m \in DOMAIN order \ {HeadOf(order)} |-> order[m]]
=============================================================================
