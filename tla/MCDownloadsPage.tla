--------------------------- MODULE MCDownloadsPage ---------------------------
(***************************************************************************)
(* One download under the Downloads page, for TLC.                         *)
(***************************************************************************)
EXTENDS DownloadsPage

MCOwnDests == [j \in Jobs |-> <<j, "zip">>]
MCOwnTmps == [j \in Jobs |-> <<j, "tmp">>]
=============================================================================
