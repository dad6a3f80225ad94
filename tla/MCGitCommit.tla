---------------------------- MODULE MCGitCommit -----------------------------
(***************************************************************************)
(* GitCommit for TLC.                                                      *)
(***************************************************************************)
EXTENDS GitCommit

CONSTANT p1

OneProc == {p1}

(* Bound of the longest run: two edits, crashes and failed calls together. *)
TwoThings == edits + crashes + faults <= 2
=============================================================================
