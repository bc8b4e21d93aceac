---------------------------- MODULE ModListVecs ----------------------------
(***************************************************************************)
(* The tables of MantleDb, as long as one thread at a time works on them,  *)
(* implement the Vecs of ModVecs; with several threads a list read before  *)
(* and written after another thread's change overwrites it (ModList).      *)
(***************************************************************************)
EXTENDS Profiles

\* The mods with the priorities `key` as the Vec the Rust code holds: sorted.
VecOf(key) ==
  CHOOSE v \in [1 .. Cardinality(DOMAIN key) -> DOMAIN key] :
    \A i, j \in DOMAIN v : i < j => key[v[i]] < key[v[j]]

\* The refinement mapping: the Vec of every profile.
Lists == [p \in ProfileIds |-> VecOf([m \in ModsIn(p) |-> prio[p][m]])]

Vecs == INSTANCE ModVecs WITH vec <- Lists

\* Whatever rows, gaps and statements lie underneath, a caller sees lists that
\* change by one operation at a time: added mods come last, a removal takes one
\* mod, a move or a reorder keeps the members, a deleted mod leaves every list.
ListsAreVecs == Vecs!VecsSpec

\* The arithmetic on positions is the arithmetic on the Vec: for every list with
\* the gaps that delete_mod left, a move to any number the caller may pass and a
\* removal leave the Vec that remove and insert leave.
PositionsAreVecs ==
  \A p \in ProfileIds :
    LET order == ListOf(p)  vec == VecOf(order)  count == Len(vec) IN
    \A m \in ModsIn(p) :
      /\ VecOf(Without(order, m)) = Vecs!Filtered(vec, m)
      /\ \A n \in 0 .. count + 1 :
           VecOf(Moved(order, m, Clamped(n, count)))
             = Vecs!MovedTo(vec, m, Clamped(n, count))
=============================================================================
