----------------------------- MODULE MCBrowser -----------------------------
(***************************************************************************)
(* The instance of Browser that TLC checks: a directory 1 with a file 3    *)
(* and a directory 4 in it, and a file 2 beside it that another program    *)
(* may replace by a directory.                                             *)
(***************************************************************************)
EXTENDS Browser

MCPaths == 1..4
MCParent == <<0, 0, 1, 1>>
MCFolders == {1, 2, 4}
MCFiles == {2, 3}
=============================================================================
