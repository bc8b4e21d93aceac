------------------------------- MODULE MCVfs -------------------------------
(***************************************************************************)
(* Small instances of Vfs for TLC.                                         *)
(***************************************************************************)
EXTENDS Vfs

\* Both mods have "mesh", which the game has as well; each has a file that the
\* other has not, and one file is the game's alone.
MCFilesOf == [m \in Mods |-> {"mesh", m}]
MCPaths == Mods \cup {"mesh", "exe"}
MCGameFiles == {"mesh", "exe"}
=============================================================================
