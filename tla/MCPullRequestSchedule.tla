----------------------- MODULE MCPullRequestSchedule ------------------------
(***************************************************************************)
(* PullRequestSchedule for TLC.                                            *)
(***************************************************************************)
EXTENDS PullRequestSchedule

CONSTANT p1

OneProc == {p1}

AnySpec ==
    {[suspend |-> FALSE, valid |-> TRUE], [suspend |-> TRUE, valid |-> TRUE],
     [suspend |-> FALSE, valid |-> FALSE]}

(* Bound: one crash, one failed call, one edit that suspends or breaks the *)
(* schedule, a deletion, or a pull request that the user closes.           *)
OneMishap ==
    /\ crashes + faults + edits + closes + (IF Current.gone THEN 1 ELSE 0) <= 1
    /\ Current.suspend \/ ~Current.valid => edits = 1
=============================================================================
