----------------------------- MODULE MCOverlay -----------------------------
(***************************************************************************)
(* A small instance of Overlay for TLC: three mods in chunks of two, every  *)
(* way in which they can have two paths.                                    *)
(***************************************************************************)
EXTENDS Overlay

MCOrder == <<"a", "b", "c">>
=============================================================================
