----------------------------- MODULE MCModList -----------------------------
(***************************************************************************)
(* A small instance of two pages of the window for TLC: the mod list with   *)
(* its profiles, on the one connection of the GTK thread, and the search    *)
(* page with the settings.  They share no state: one part moves, the other  *)
(* stays as it began.                                                       *)
(***************************************************************************)
EXTENDS MCProfiles, Search

VARIABLE part

partVars == <<vars, searchVars, part>>
ListPart == part = "list" /\ UNCHANGED <<searchVars, part>>
SearchPart == part = "search" /\ UNCHANGED <<vars, part>>

PagesInit == part \in {"list", "search"} /\ Init /\ SearchInit
PagesNext == (ListPart /\ Next) \/ (SearchPart /\ SearchNext)

\* The fairness of Search; none of what is asked of the list is liveness.
PagesSpec ==
  /\ PagesInit /\ [][PagesNext]_partVars
  /\ WF_partVars(SearchPart /\ Answered) /\ WF_partVars(SearchPart /\ Handle)
  /\ WF_partVars(SearchPart /\ (MoveKey \/ Saved) /\ UNCHANGED found)
=============================================================================
