--------------------------- MODULE MCDownloadQueue ---------------------------
(***************************************************************************)
(* Small instances of DownloadQueue for TLC.                               *)
(***************************************************************************)
EXTENDS DownloadQueue, TLC

\* A destination of its own for every job: a path is a stem and an extension.
MCOwnDests == [j \in Jobs |-> <<j, "zip">>]
MCOwnTmps == [j \in Jobs |-> <<j, "tmp">>]

\* Two destinations that differ in the extension only, foo.zip and foo.7z.
MCOneTmp == [j \in Jobs |-> <<"foo", "tmp">>]

ThreadsAndJobs == Permutations(Workers) \cup Permutations(Jobs)
=============================================================================
