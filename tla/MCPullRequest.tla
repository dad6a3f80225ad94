--------------------------- MODULE MCPullRequest ----------------------------
(***************************************************************************)
(* PullRequest for TLC.                                                    *)
(***************************************************************************)
EXTENDS PullRequest

CONSTANT p1

OneProc == {p1}
=============================================================================
