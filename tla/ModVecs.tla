------------------------------ MODULE ModVecs ------------------------------
(***************************************************************************)
(* What the mod list promises its callers: every profile has a Vec of      *)
(* mods, the highest priority first, and each operation of mod_list/mod.rs *)
(* is an operation on that Vec.  No priorities, no rows, no statements.    *)
(***************************************************************************)
EXTENDS Integers, SequencesExt

CONSTANTS ProfileIds, ModIds

VARIABLE vec

VecsInit == vec = [p \in ProfileIds |-> << >>]

Becomes(p, s) == vec' = [vec EXCEPT ![p] = s]

\* add_mod_to_profile: the new mod has the lowest priority.
AddLast(p, m) == m \notin ToSet(vec[p]) /\ Becomes(p, Append(vec[p], m))

\* entries.iter().filter(|e| e.mod_id != mod_id): a Vec lists a mod once.
Filtered(s, m) ==
  IF m \in ToSet(s) THEN RemoveAt(s, CHOOSE i \in DOMAIN s : s[i] = m) ELSE s

\* ids.remove(current_pos); ids.insert(target_idx, item)
MovedTo(s, m, target) == InsertAt(Filtered(s, m), target, m)

\* What an order the caller names leaves: the same mods, each once.
Reordered(p, s) == IsInjective(s) /\ ToSet(s) = ToSet(vec[p]) /\ Becomes(p, s)

\* delete_mod takes the mod out of every list.
ForgetMod(m) == vec' = [p \in ProfileIds |-> Filtered(vec[p], m)]

VecsNext ==
  \/ \E p \in ProfileIds :
       \/ \E m \in ModIds : AddLast(p, m) \/ Becomes(p, Filtered(vec[p], m))
       \/ \E m \in ToSet(vec[p]), i \in 1 .. Len(vec[p]) :
            Becomes(p, MovedTo(vec[p], m, i))
       \/ \E s \in [1 .. Len(vec[p]) -> ToSet(vec[p])] : Reordered(p, s)
       \/ Becomes(p, << >>)                          \* the profile is deleted
  \/ \E m \in ModIds : ForgetMod(m)

VecsSpec == VecsInit /\ [][VecsNext]_vec
=============================================================================
