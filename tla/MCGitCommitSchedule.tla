------------------------ MODULE MCGitCommitSchedule -------------------------
(***************************************************************************)
(* GitCommitSchedule for TLC.                                              *)
(***************************************************************************)
EXTENDS GitCommitSchedule

CONSTANT p1

OneProc == {p1}

Active == [suspend |-> FALSE, valid |-> TRUE]
OnlyActive == {Active}
MaySuspend == {Active, [suspend |-> TRUE, valid |-> TRUE]}
AnySpec == MaySuspend \cup {[suspend |-> FALSE, valid |-> FALSE]}

(* Bounds of the longest run.  One thing is unusual about a resource: its  *)
(* CallCount, an edit or two, a failed call, a crash or a deletion.  Edits *)
(* are done by the first slot, and two of them both leave the schedule on. *)
OneDisturbance ==
    /\ (IF versions[1].calls > 0 THEN 1 ELSE 0) + (IF edits > 0 THEN 1 ELSE 0)
            + faults + crashes + (IF Current.gone THEN 1 ELSE 0) <= 1
    /\ edits > 0 => now <= Period
    /\ edits = 2 => \A k \in 2 .. RV : versions[k].valid /\ ~versions[k].suspend

(* The first slot is followed until it is served, whatever has happened;   *)
(* the second one, where the history is cut, is for a resource nothing has *)
(* happened to and whose executions have all committed.                    *)
Undisturbed ==
    /\ crashes + faults + edits = 0 /\ ~Current.gone
    /\ \A i \in DOMAIN Current.hist : Current.hist[i].phase = "Committed"

UntilServed ==
    Current.last >= Period =>
        /\ faults > 0 \/ Current.gone => now <= Period
        /\ now = MaxTime => Undisturbed
=============================================================================
