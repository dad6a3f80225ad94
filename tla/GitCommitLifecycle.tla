------------------------- MODULE GitCommitLifecycle -------------------------
(***************************************************************************)
(* What a one-shot GitCommit promises to the user who watches its status:  *)
(* the phase and the remote, without workers, caches, queues or retries.   *)
(*                                                                         *)
(*   ""/Pending --> Running --> Pending | Failed | Committed, and any phase *)
(*   may end in deletion.  Committed and Failed are final.  The remote is  *)
(*   only touched while the status says Running (or after the resource was *)
(*   deleted under a worker's hands), and Committed only follows a push.   *)
(***************************************************************************)
EXTENDS Naturals

VARIABLES
    phase,      \* status.phase, or "Deleted"
    pushes      \* commits on the remote

lifecycleVars == <<phase, pushes>>

Init == phase = "" /\ pushes = 0

Begin ==
    /\ phase \in {"", "Pending"}
    /\ phase' = "Running"
    /\ UNCHANGED pushes

Push ==
    /\ phase \in {"Running", "Deleted"}
    /\ pushes' = pushes + 1
    /\ UNCHANGED phase

Conclude ==
    /\ phase = "Running"
    /\ \/ phase' \in {"Pending", "Failed"}
       \/ pushes > 0 /\ phase' = "Committed"
    /\ UNCHANGED pushes

Delete ==
    /\ phase # "Deleted"
    /\ phase' = "Deleted"
    /\ UNCHANGED pushes

Next == Begin \/ Push \/ Conclude \/ Delete

Spec == Init /\ [][Next]_lifecycleVars
=============================================================================
