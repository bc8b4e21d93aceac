------------------------------ MODULE MCWindow ------------------------------
(***************************************************************************)
(* Small instances of Window for TLC.                                      *)
(***************************************************************************)
EXTENDS Window, TLC

\* p1 is called "Default", every other profile has a name of its own.
MCNames == [p \in ProfileIds |-> IF p = "p1" THEN DefaultName ELSE p]

\* Every mod has a slug of its own.
MCSlugs == [m \in ModIds |-> m]

MCConns == {Gtk, Worker} \cup Reloads \cup Installers
=============================================================================
