------------------------ MODULE MCGitChangeOperator -------------------------
(***************************************************************************)
(* GitChangeOperator for TLC.                                              *)
(***************************************************************************)
EXTENDS GitChangeOperator

CONSTANT p1

OneProc == {p1}

TwoNames == {"a", "b"}

(* An account and metrics; replicas are not managed.                       *)
Observability ==
    [v |-> 1, pull |-> 1, managed |-> FALSE, replicas |-> 0, saCreate |-> TRUE, sa |-> "a",
     rbac |-> FALSE, metrics |-> TRUE, monitorOn |-> TRUE, monitor |-> "a",
     ingressOn |-> FALSE, ingress |-> "a"]

(* Another image and pull policy; a role and an ingress; the metrics are   *)
(* switched off.                                                           *)
Access ==
    [Observability EXCEPT !.v = 2, !.pull = 2, !.managed = TRUE, !.replicas = 2,
                          !.saCreate = FALSE, !.sa = "b", !.rbac = TRUE,
                          !.metrics = FALSE, !.ingressOn = TRUE]

(* No image is configured.                                                 *)
NoImage == [Observability EXCEPT !.v = 0]

TwoSpecs == {Observability, Access}
ThreeSpecs == {Observability, Access, NoImage}

(* Bound: of all edits, changes by others and mishaps together, two; of    *)
(* these only a mishap along with a deletion.  No fair action adds to them.*)
TwoThings ==
    /\ edits + touches + mishaps <= 2
    /\ deletes = 1 => edits = 0 /\ touches = 0
=============================================================================
