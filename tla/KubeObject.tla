----------------------------- MODULE KubeObject -----------------------------
(***************************************************************************)
(* What the reconcilers see of Kubernetes: ONE custom resource in the API  *)
(* server, and for each manager process an informer cache of it and a      *)
(* work queue with its key.  This is code of client-go and of              *)
(* controller-runtime, outside src/; it is modelled from the calls that    *)
(* the controllers of src/controllers make.                                *)
(*                                                                         *)
(*   - every accepted write appends a version of the object; the           *)
(*     resourceVersion of a version is its index;                          *)
(*   - a Get is answered by the informer cache, an older or equal version; *)
(*   - a Status().Update carries the resourceVersion that was read: it is  *)
(*     refused with a conflict when another write came first;              *)
(*   - each watch event moves the cache one version forward and puts the   *)
(*     key in the queue (the controllers install no predicate, so the      *)
(*     events of a controller's own status writes count too);              *)
(*   - a key that is being processed is held back until the worker is      *)
(*     done with it; requeue-after and back-off are one delayed add.       *)
(***************************************************************************)
EXTENDS Naturals, Sequences

CONSTANTS
    Procs,      \* the manager processes (replicas) that run the controller
    CacheLag    \* TRUE: reads come from a cache that may lag, as in main.go;
                \* FALSE: an ideal client, whose reads are always current

ASSUME CacheLagAssumption == CacheLag \in BOOLEAN

VARIABLES
    versions,   \* every version of the object; the last one is current
    cached,     \* cached[p]: the last version p's watch has delivered
    dirty,      \* dirty[p]: the key waits in p's queue
    timer       \* timer[p]: a delayed add of the key is pending

kubeVars == <<versions, cached, dirty, timer>>

RV == Len(versions)

Current == versions[RV]

(* The version a Get of p returns.                                         *)
Seen(p) == IF CacheLag THEN cached[p] ELSE RV

View(p) == versions[Seen(p)]

(* The API server accepts a write: it makes a new version.                 *)
Write(o) == versions' = Append(versions, o)

(* The worker takes the key; it keeps or drops the delayed add.            *)
TakeKey(p) == dirty' = [dirty EXCEPT ![p] = FALSE]

(* The reconciler returns: with an error or a RequeueAfter the key comes   *)
(* back later, with an empty Result it does not.                           *)
Requeue(p, again) == timer' = [timer EXCEPT ![p] = @ \/ again]

KubeInit(o) ==
    /\ versions = <<o>>
    /\ cached = [p \in Procs |-> 1]
    /\ dirty = [p \in Procs |-> TRUE]
    /\ timer = [p \in Procs |-> FALSE]

(* A watch event reaches the cache of p and enqueues the key.              *)
Deliver(p) ==
    /\ cached[p] < RV
    /\ cached' = [cached EXCEPT ![p] = @ + 1]
    /\ dirty' = [dirty EXCEPT ![p] = TRUE]
    /\ UNCHANGED <<versions, timer>>

(* The delay of a requeue is over.                                         *)
TimerFire(p) ==
    /\ timer[p]
    /\ timer' = [timer EXCEPT ![p] = FALSE]
    /\ dirty' = [dirty EXCEPT ![p] = TRUE]
    /\ UNCHANGED <<versions, cached>>

(* A process starts again: queue and timers are lost, the initial list     *)
(* fills the cache and enqueues the object if it still exists.             *)
Relist(p) ==
    /\ cached' = [cached EXCEPT ![p] = RV]
    /\ dirty' = [dirty EXCEPT ![p] = ~Current.gone]
    /\ timer' = [timer EXCEPT ![p] = FALSE]
    /\ UNCHANGED versions

(* p will look at the object again, or has to look at it no more.          *)
Alert(p) == dirty[p] \/ timer[p] \/ cached[p] < RV \/ Current.gone
=============================================================================
