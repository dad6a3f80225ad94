------------------------- MODULE GitChangeOperator --------------------------
(***************************************************************************)
(* GitChangeOperatorReconciler                                             *)
(* (src/controllers/gitchangeoperator_controller.go): one custom resource  *)
(* and the objects the controller keeps for it, a Deployment, a            *)
(* ServiceAccount, a Role, a RoleBinding, a Service, a ServiceMonitor and  *)
(* an Ingress.  One reconcile goes through them in this order; the first   *)
(* error ends it.                                                          *)
(*                                                                         *)
(* The object of KubeObject is the custom resource.  The owned objects are *)
(* kept by kind and name.  What a helper writes from the spec whether the  *)
(* object is there or not (image and arguments of the Deployment, type and *)
(* port of the Service, labels and annotations of the ServiceMonitor, all  *)
(* of the Ingress) is one value v.  Apart from it are the replicas, the    *)
(* subject of the RoleBinding and the pull policy of the Deployment, which *)
(* is written when it is created and by no patch.  No helper reads         *)
(* interval and scrapeTimeout of the ServiceMonitor: they are left out.    *)
(*                                                                         *)
(* A helper reads its object before it writes.  Between the two, and when  *)
(* the cache is behind, the write is refused (AlreadyExists, Conflict,     *)
(* NotFound), which is one of the failed calls of ApplyFault.  Two writes  *)
(* carry no resourceVersion: the ServiceAccount, replaced as a whole by    *)
(* one that has nothing but its name and its owner, and the Deployment,    *)
(* a merge patch computed against the cached copy, dep[p].                 *)
(***************************************************************************)
EXTENDS KubeObject

CONSTANTS
    Names,          \* names a spec may give to a configurable object
    Specs,          \* the specs the user may apply
    CrdChoices,     \* whether the kind ServiceMonitor is installed
    MaxRetries,     \* attempts of the status update: 5 in the code
    MaxEdits,       \* bound: edits of the spec
    MaxDeletes,     \* bound: deletions of the custom resource; after one it
                    \* may be created again
    MaxTouches,     \* bound: owned objects removed or scaled by others,
                    \* and resyncs of the cache
    MaxMishaps      \* bound: crashes and failed calls

SpecType ==
    [v: Nat,                                \* 0: no image is configured
     pull: Nat,                             \* image.pullPolicy
     managed: BOOLEAN, replicas: Nat,       \* replicaCount, if not nil
     saCreate: BOOLEAN, sa: Names,
     rbac: BOOLEAN,
     metrics: BOOLEAN,
     monitorOn: BOOLEAN, monitor: Names,
     ingressOn: BOOLEAN, ingress: Names]

ASSUME OperatorAssumption ==
    /\ Specs \subseteq SpecType /\ Specs # {}
    /\ CrdChoices \subseteq BOOLEAN
    /\ MaxRetries \in Nat \ {0}
    /\ MaxEdits \in Nat
    /\ MaxDeletes \in Nat
    /\ MaxTouches \in Nat
    /\ MaxMishaps \in Nat

VARIABLES
    pc,         \* pc[p]: the call that p's worker is about to make
    gco,        \* gco[p]: the *GitChangeOperator the reconcile works on
    rv,         \* rv[p]: the resourceVersion of the copy that is put next
    tries,      \* tries[p]: conflicts of the status update
    objs,       \* objs[id]: the owned object of that kind and name, or Absent
    dep,        \* dep[p]: the Deployment as p's cache shows it
    crd,        \* the kind ServiceMonitor is installed
    drift,      \* objects somebody else removed since they were last
                \* written, and a Deployment patched against an old copy
    edits, deletes, touches, mishaps    \* what the bounds count

workerVars == <<pc, gco, rv, tries>>
ownedVars == <<objs, dep, drift>>
boundVars == <<edits, deletes, touches, mishaps>>
vars == <<kubeVars, workerVars, ownedVars, crd, boundVars>>

-----------------------------------------------------------------------------
Deployment == <<"Deployment", "operator">>
Role == <<"Role", "manager-role">>
RoleBinding == <<"RoleBinding", "manager-rolebinding">>
ServiceAccount(s) == <<"ServiceAccount", s.sa>>
MetricsService == <<"Service", "metrics">>
ServiceMonitor(s) == <<"ServiceMonitor", s.monitor>>
Ingress(s) == <<"Ingress", s.ingress>>

(* The name deleteMetricsService uses.                                     *)
DeletedService == <<"Service", "metrics-service">>

Ids ==
    ({"ServiceAccount", "ServiceMonitor", "Ingress"} \X Names)
    \cup {Deployment, Role, RoleBinding, MetricsService, DeletedService}

(* Mutant of Watched: the services are not watched.                        *)
WatchedAccounts == {id \in Ids : id[1] = "ServiceAccount"}

(* Owns() in SetupWithManager: the kinds whose events wake the controller. *)
Watched == {id \in Ids : id[1] \in {"ServiceAccount", "Service"}}

(* owner is the uid of the controlling resource, 0 when there is no object.*)
Owned == [owner: Nat, v: Nat, pull: Nat, subject: Names \cup {""}, replicas: Nat]

Absent == [owner |-> 0, v |-> 0, pull |-> 0, subject |-> "", replicas |-> 0]

Exists(id) == objs[id].owner # 0

(* finalizer and deleting are the finalizer and the deletion timestamp;    *)
(* observed is ObservedGeneration, 0 as long as the phase is not Ready.    *)
Objects ==
    [gone: BOOLEAN, uid: Nat \ {0}, gen: Nat \ {0}, spec: Specs,
     finalizer: BOOLEAN, deleting: BOOLEAN, observed: Nat]

NewObject(u, s) ==
    [gone |-> FALSE, uid |-> u, gen |-> 1, spec |-> s,
     finalizer |-> FALSE, deleting |-> FALSE, observed |-> 0]

(* The calls of one reconcile in their order.                              *)
Order ==
    <<"deployment", "serviceAccount", "role", "roleBinding", "service",
      "serviceMonitor", "ingress">>

Calls == {Order[i] : i \in DOMAIN Order}

PCs == Calls \cup {"idle", "addFinalizer", "removeFinalizer", "statusGet", "statusPut"}

NextCall(c) ==
    IF c = "ingress" THEN "statusGet"
    ELSE Order[(CHOOSE i \in DOMAIN Order : Order[i] = c) + 1]

-----------------------------------------------------------------------------
Init ==
    /\ \E s \in Specs : KubeInit(NewObject(1, s))
    /\ pc = [p \in Procs |-> "idle"]
    /\ gco = [p \in Procs |-> versions[1]]
    /\ rv = [p \in Procs |-> 1]
    /\ tries = [p \in Procs |-> 0]
    /\ objs = [id \in Ids |-> Absent]
    /\ dep = [p \in Procs |-> Absent]
    /\ crd \in CrdChoices
    /\ drift = {}
    /\ edits = 0 /\ deletes = 0 /\ touches = 0 /\ mishaps = 0

At(p, c) == pc[p] = c
GoTo(p, c) == pc' = [pc EXCEPT ![p] = c]

(* The reconcile ends, or its process dies: the locals are dead, set them  *)
(* to a fixed value.                                                       *)
Leave(p) ==
    /\ GoTo(p, "idle")
    /\ gco' = [gco EXCEPT ![p] = versions[1]]
    /\ rv' = [rv EXCEPT ![p] = 1]
    /\ tries' = [tries EXCEPT ![p] = 0]

Return(p, again) == Leave(p) /\ Requeue(p, again)

Mishap == mishaps < MaxMishaps /\ mishaps' = mishaps + 1

(* Watch events of owned objects put the key of their owner in the queues. *)
Notify(D) ==
    dirty' = [q \in Procs |->
        dirty[q] \/ \E id \in D \cap Watched : objs'[id] # objs[id]]

-----------------------------------------------------------------------------
(* Reconcile reads the resource.                                           *)

Begin(p) == At(p, "idle") /\ dirty[p] /\ TakeKey(p)

(* NotFound, or handleDeletion without our finalizer: nothing to do.       *)
ReconcileNothing(p) ==
    /\ Begin(p)
    /\ View(p).gone \/ (View(p).deleting /\ ~View(p).finalizer)
    /\ UNCHANGED <<versions, cached, timer, workerVars, ownedVars, crd, boundVars>>

(* Mutant of Start: the finalizer is not added.                            *)
StartWithoutFinalizer(p) ==
    /\ Begin(p)
    /\ ~View(p).gone
    /\ View(p).deleting => View(p).finalizer
    /\ gco' = [gco EXCEPT ![p] = View(p)]
    /\ rv' = [rv EXCEPT ![p] = Seen(p)]
    /\ GoTo(p, IF View(p).deleting THEN "removeFinalizer" ELSE "deployment")
    /\ UNCHANGED <<versions, cached, timer, tries, ownedVars, crd, boundVars>>

Start(p) ==
    /\ Begin(p)
    /\ ~View(p).gone
    /\ View(p).deleting => View(p).finalizer
    /\ gco' = [gco EXCEPT ![p] = View(p)]
    /\ rv' = [rv EXCEPT ![p] = Seen(p)]
    /\ GoTo(p, IF View(p).deleting THEN "removeFinalizer"
               ELSE IF View(p).finalizer THEN "deployment" ELSE "addFinalizer")
    /\ UNCHANGED <<versions, cached, timer, tries, ownedVars, crd, boundVars>>

-----------------------------------------------------------------------------
(* The two updates of the finalizer, on the copy that was read.            *)

Accepted(p) == rv[p] = RV /\ ~Current.gone

FinalizerAdded(p) == [gco[p] EXCEPT !.finalizer = TRUE]

(* The last finalizer of a deleted resource goes, and the resource too.    *)
FinalizerRemoved(p) == [gco[p] EXCEPT !.finalizer = FALSE, !.gone = TRUE]

AddFinalizer(p) ==
    /\ At(p, "addFinalizer")
    /\ Accepted(p)
    /\ Write(FinalizerAdded(p))
    /\ gco' = [gco EXCEPT ![p] = FinalizerAdded(p)]
    /\ GoTo(p, "deployment")
    /\ UNCHANGED <<cached, dirty, timer, rv, tries, ownedVars, crd, boundVars>>

(* handleDeletion: the owned objects are left to the garbage collector.    *)
RemoveFinalizer(p) ==
    /\ At(p, "removeFinalizer")
    /\ Accepted(p)
    /\ Write(FinalizerRemoved(p))
    /\ Return(p, FALSE)
    /\ UNCHANGED <<cached, dirty, ownedVars, crd, boundVars>>

(* A conflict, or NotFound: the error is returned.                         *)
FinalizerRefused(p) ==
    /\ pc[p] \in {"addFinalizer", "removeFinalizer"}
    /\ ~Accepted(p)
    /\ Return(p, TRUE)
    /\ UNCHANGED <<versions, cached, dirty, ownedVars, crd, boundVars>>

(* Mutant of FinalizerFault: the error is not returned.                    *)
FinalizerErrorDropped(p) ==
    /\ pc[p] \in {"addFinalizer", "removeFinalizer"}
    /\ Mishap
    /\ Return(p, FALSE)
    /\ UNCHANGED <<versions, cached, dirty, ownedVars, crd, edits, deletes, touches>>

(* The call fails otherwise, before or after the server has executed it.   *)
FinalizerFault(p) ==
    /\ pc[p] \in {"addFinalizer", "removeFinalizer"}
    /\ Mishap
    /\ \/ UNCHANGED versions
       \/ /\ Accepted(p)
          /\ Write(IF At(p, "addFinalizer") THEN FinalizerAdded(p) ELSE FinalizerRemoved(p))
    /\ Return(p, TRUE)
    /\ UNCHANGED <<cached, dirty, ownedVars, crd, edits, deletes, touches>>

-----------------------------------------------------------------------------
(* The helpers: the owned objects after the call, for the copy g of the    *)
(* resource.                                                               *)

Put(id, o) == [objs EXCEPT ![id] = o]
Delete(id) == Put(id, Absent)

New(g) == [Absent EXCEPT !.owner = g.uid]

(* A live object is changed where the helper says and keeps its owner.     *)
Kept(id, g) == IF Exists(id) THEN objs[id] ELSE New(g)

Replicas(s) == IF s.managed THEN s.replicas ELSE 1

(* What only a Create writes.                                              *)
NewDeployment(g) == [New(g) EXCEPT !.pull = g.spec.pull]

(* Create, or a patch of replicas, image and arguments with those of them  *)
(* in which the cached copy d differs.                                     *)
reconcileDeployment(g, d) ==
    LET live == IF Exists(Deployment) THEN objs[Deployment] ELSE NewDeployment(g)
        s == g.spec
    IN  Put(Deployment,
            [live EXCEPT !.v = IF d.v # s.v THEN s.v ELSE @,
                         !.replicas = IF d = Absent \/ d.replicas # Replicas(s)
                                      THEN Replicas(s) ELSE @])

(* Replaced as a whole, its owner too.                                     *)
reconcileServiceAccount(g) == Put(ServiceAccount(g.spec), New(g))

reconcileRole(g) == Put(Role, Kept(Role, g))

reconcileRoleBinding(g) ==
    Put(RoleBinding, [Kept(RoleBinding, g) EXCEPT !.subject = g.spec.sa])

reconcileMetricsService(g) ==
    Put(MetricsService, [Kept(MetricsService, g) EXCEPT !.v = g.spec.v])

deleteMetricsService == Delete(DeletedService)

(* Replaced as a whole, its owner too.                                     *)
reconcileServiceMonitor(g) ==
    Put(ServiceMonitor(g.spec), [New(g) EXCEPT !.v = g.spec.v])

deleteServiceMonitor(g) == Delete(ServiceMonitor(g.spec))

reconcileIngress(g) ==
    Put(Ingress(g.spec), [Kept(Ingress(g.spec), g) EXCEPT !.v = g.spec.v])

deleteIngress(g) == Delete(Ingress(g.spec))

(* The flags of the spec choose what a step of Reconcile does.             *)
Effect(p) ==
    LET g == gco[p]
        s == g.spec
    IN  CASE pc[p] = "deployment" -> reconcileDeployment(g, dep[p])
          [] pc[p] = "serviceAccount" /\ s.saCreate -> reconcileServiceAccount(g)
          [] pc[p] = "role" /\ s.rbac -> reconcileRole(g)
          [] pc[p] = "roleBinding" /\ s.rbac -> reconcileRoleBinding(g)
          [] pc[p] = "service" ->
                IF s.metrics THEN reconcileMetricsService(g) ELSE deleteMetricsService
          [] pc[p] = "serviceMonitor" ->
                IF s.metrics /\ s.monitorOn THEN reconcileServiceMonitor(g)
                ELSE deleteServiceMonitor(g)
          [] pc[p] = "ingress" ->
                IF s.ingressOn THEN reconcileIngress(g) ELSE deleteIngress(g)
          [] OTHER -> objs

(* The object that the step is about, and whether it makes a call at all.  *)
Target(p) ==
    LET s == gco[p].spec IN
    CASE pc[p] = "deployment" -> Deployment
      [] pc[p] = "serviceAccount" -> ServiceAccount(s)
      [] pc[p] = "role" -> Role
      [] pc[p] = "roleBinding" -> RoleBinding
      [] pc[p] = "service" -> IF s.metrics THEN MetricsService ELSE DeletedService
      [] pc[p] = "serviceMonitor" -> ServiceMonitor(s)
      [] pc[p] = "ingress" -> Ingress(s)

CallMade(p) ==
    LET s == gco[p].spec IN
    /\ At(p, "serviceAccount") => s.saCreate
    /\ pc[p] \in {"role", "roleBinding"} => s.rbac

(* No image is configured; the cache shows a Deployment that is gone, or   *)
(* none where there is one; the kind ServiceMonitor is unknown, which is   *)
(* no NotFound, so that a delete fails as well.                            *)
Refused(p) ==
    \/ /\ At(p, "deployment")
       /\ gco[p].spec.v = 0 \/ (dep[p] = Absent) # (objs[Deployment] = Absent)
    \/ At(p, "serviceMonitor") /\ ~crd

(* The call is executed.  A Deployment that is patched against an outdated *)
(* copy may keep what the patch does not name.                             *)
Executed(p) ==
    /\ objs' = Effect(p)
    /\ drift' = IF At(p, "deployment") /\ dep[p] # objs[Deployment]
                THEN drift \cup {Deployment}
                ELSE IF CallMade(p) THEN drift \ {Target(p)} ELSE drift
    /\ Notify(Ids)

Apply(p) ==
    /\ pc[p] \in Calls
    /\ ~Refused(p)
    /\ Executed(p)
    /\ GoTo(p, NextCall(pc[p]))
    /\ UNCHANGED <<versions, cached, timer, gco, rv, tries, dep, crd, boundVars>>

(* Mutant of ApplyRefused: the reconcile ends without an error.            *)
ApplyRefusedSilently(p) ==
    /\ pc[p] \in Calls
    /\ Refused(p)
    /\ Return(p, FALSE)
    /\ UNCHANGED <<versions, cached, dirty, ownedVars, crd, boundVars>>

(* The error ends the reconcile: the later objects and the status wait.    *)
ApplyRefused(p) ==
    /\ pc[p] \in Calls
    /\ Refused(p)
    /\ Return(p, TRUE)
    /\ UNCHANGED <<versions, cached, dirty, ownedVars, crd, boundVars>>

(* The call fails otherwise, before or after the server has executed it.   *)
ApplyFault(p) ==
    /\ pc[p] \in Calls
    /\ CallMade(p)
    /\ Mishap
    /\ \/ UNCHANGED <<objs, drift, dirty>>
       \/ ~Refused(p) /\ Executed(p)
    /\ Return(p, TRUE)
    /\ UNCHANGED <<versions, cached, dep, crd, edits, deletes, touches>>

-----------------------------------------------------------------------------
(* The status update, repeated on conflicts.                               *)

StatusGet(p) ==
    /\ At(p, "statusGet")
    /\ IF View(p).gone
       THEN Return(p, TRUE)
       ELSE /\ rv' = [rv EXCEPT ![p] = Seen(p)]
            /\ GoTo(p, "statusPut")
            /\ UNCHANGED <<timer, gco, tries>>
    /\ UNCHANGED <<versions, cached, dirty, ownedVars, crd, boundVars>>

(* Mutant of Observed: the generation of the copy just read.               *)
ObservedLatest(p) == versions[rv[p]].gen

(* The generation of the copy that was reconciled.                         *)
Observed(p) == gco[p].gen

Ready(p) == [versions[rv[p]] EXCEPT !.observed = Observed(p)]

(* A status that is already so makes no new version.                       *)
StoreStatus(p) == IF Ready(p) = Current THEN UNCHANGED versions ELSE Write(Ready(p))

StatusOk(p) ==
    /\ At(p, "statusPut")
    /\ Accepted(p)
    /\ StoreStatus(p)
    /\ Return(p, FALSE)
    /\ UNCHANGED <<cached, dirty, ownedVars, crd, boundVars>>

(* Mutant of RetriesLeft: one attempt too many.                            *)
RetriesLeftLate(p) == tries[p] < MaxRetries

RetriesLeft(p) == tries[p] + 1 < MaxRetries

(* RetryOnConflict, then the conflict is returned; NotFound at once.       *)
StatusRefused(p) ==
    /\ At(p, "statusPut")
    /\ ~Accepted(p)
    /\ IF ~Current.gone /\ RetriesLeft(p)
       THEN /\ tries' = [tries EXCEPT ![p] = @ + 1]
            /\ GoTo(p, "statusGet")
            /\ UNCHANGED <<timer, gco, rv>>
       ELSE Return(p, TRUE)
    /\ UNCHANGED <<versions, cached, dirty, ownedVars, crd, boundVars>>

StatusFault(p) ==
    /\ At(p, "statusPut")
    /\ Mishap
    /\ UNCHANGED versions \/ (Accepted(p) /\ StoreStatus(p))
    /\ Return(p, TRUE)
    /\ UNCHANGED <<cached, dirty, ownedVars, crd, edits, deletes, touches>>

-----------------------------------------------------------------------------
(* The environment.                                                        *)

Watch(p) ==
    /\ Deliver(p)
    /\ UNCHANGED <<workerVars, ownedVars, crd, boundVars>>

(* The Deployment informer: no event wakes the controller.                 *)
WatchDeployment(p) ==
    /\ dep[p] # objs[Deployment]
    /\ dep' = [dep EXCEPT ![p] = objs[Deployment]]
    /\ UNCHANGED <<kubeVars, workerVars, objs, drift, crd, boundVars>>

Timer(p) ==
    /\ TimerFire(p)
    /\ UNCHANGED <<workerVars, ownedVars, crd, boundVars>>

Crash(p) ==
    /\ Mishap
    /\ Relist(p)
    /\ Leave(p)
    /\ dep' = [dep EXCEPT ![p] = objs[Deployment]]
    /\ UNCHANGED <<objs, drift, crd, edits, deletes, touches>>

(* Objects go, and the owner of a watched one hears of it.                 *)
Lose(D) ==
    /\ objs' = [id \in Ids |-> IF id \in D THEN Absent ELSE objs[id]]
    /\ drift' = drift \cup D
    /\ Notify(D)
    /\ UNCHANGED <<versions, cached, timer, workerVars, dep, crd>>

(* The garbage collector: the owner is gone, or is another one of the name.*)
(* No helper looks at two objects, so they may go in one step.             *)
Collect ==
    LET Dead == {id \in Ids : Exists(id) /\ (Current.gone \/ objs[id].owner # Current.uid)}
    IN  /\ Dead # {}
        /\ Lose(Dead)
        /\ UNCHANGED boundVars

Touch == touches < MaxTouches /\ touches' = touches + 1

OthersRemove ==
    /\ Touch
    /\ \E id \in Ids : Exists(id) /\ Lose({id})
    /\ UNCHANGED <<edits, deletes, mishaps>>

(* The informer repeats what it holds, every ten hours.                    *)
Resync(p) ==
    /\ Touch
    /\ ~dirty[p] /\ ~View(p).gone
    /\ dirty' = [dirty EXCEPT ![p] = TRUE]
    /\ UNCHANGED <<versions, cached, timer, workerVars, ownedVars, crd, edits, deletes, mishaps>>

(* kubectl scale, or an autoscaler.                                        *)
OthersScale ==
    /\ Touch
    /\ Exists(Deployment)
    /\ objs' = [objs EXCEPT ![Deployment].replicas = @ + 1]
    /\ drift' = drift \cup {Deployment}
    /\ UNCHANGED <<kubeVars, workerVars, dep, crd, edits, deletes, mishaps>>

UserEdit ==
    /\ ~Current.gone
    /\ edits < MaxEdits /\ edits' = edits + 1
    /\ \E s \in Specs \ {Current.spec} :
          Write([Current EXCEPT !.spec = s, !.gen = @ + 1])
    /\ UNCHANGED <<cached, dirty, timer, workerVars, ownedVars, crd, deletes, touches, mishaps>>

(* A resource with a finalizer is marked, one without goes at once.        *)
UserDelete ==
    /\ ~Current.gone /\ ~Current.deleting
    /\ deletes < MaxDeletes /\ deletes' = deletes + 1
    /\ Write([Current EXCEPT !.deleting = TRUE, !.gen = @ + 1,
                             !.gone = ~Current.finalizer])
    /\ UNCHANGED <<cached, dirty, timer, workerVars, ownedVars, crd, edits, touches, mishaps>>

(* A resource of the same name.                                            *)
UserRecreate ==
    /\ Current.gone
    /\ \E s \in Specs : Write(NewObject(Current.uid + 1, s))
    /\ UNCHANGED <<cached, dirty, timer, workerVars, ownedVars, crd, boundVars>>

-----------------------------------------------------------------------------
Step(p) ==
    \/ ReconcileNothing(p) \/ Start(p)
    \/ AddFinalizer(p) \/ RemoveFinalizer(p) \/ FinalizerRefused(p)
    \/ Apply(p) \/ ApplyRefused(p)
    \/ StatusGet(p) \/ StatusOk(p) \/ StatusRefused(p)

Faulty(p) == FinalizerFault(p) \/ ApplyFault(p) \/ StatusFault(p) \/ Crash(p)

Environment ==
    \/ Collect \/ OthersRemove \/ OthersScale
    \/ UserEdit \/ UserDelete \/ UserRecreate

Next ==
    \/ \E p \in Procs :
          \/ Step(p) \/ Watch(p) \/ WatchDeployment(p) \/ Timer(p)
          \/ Faulty(p) \/ Resync(p)
    \/ Environment

Spec == Init /\ [][Next]_vars

(* The worker, the watches and the back-off go on.  A resync is too far    *)
(* away to be waited for.                                                  *)
Fairness ==
    \A p \in Procs :
        /\ WF_vars(Step(p)) /\ WF_vars(Timer(p))
        /\ WF_vars(Watch(p)) /\ WF_vars(WatchDeployment(p))

FairSpec == Spec /\ Fairness

-----------------------------------------------------------------------------
(* Every variable has a value that the program can give it.                *)
TypeOK ==
    /\ versions \in Seq(Objects) /\ RV >= 1
    /\ cached \in [Procs -> 1 .. RV]
    /\ dirty \in [Procs -> BOOLEAN]
    /\ timer \in [Procs -> BOOLEAN]
    /\ pc \in [Procs -> PCs]
    /\ gco \in [Procs -> Objects]
    /\ rv \in [Procs -> 1 .. RV]
    /\ tries \in [Procs -> 0 .. MaxRetries - 1]
    /\ objs \in [Ids -> Owned]
    /\ dep \in [Procs -> Owned]
    /\ crd \in BOOLEAN
    /\ drift \subseteq Ids
    /\ edits \in 0 .. MaxEdits /\ deletes \in 0 .. MaxDeletes
    /\ touches \in 0 .. MaxTouches /\ mishaps \in 0 .. MaxMishaps

(* What spec s asks for: the objects that are to exist, what they are to   *)
(* say in the fields that are written again, and the objects that are      *)
(* switched off.                                                           *)
Wanted(s) ==
    {Deployment}
    \cup (IF s.saCreate THEN {ServiceAccount(s)} ELSE {})
    \cup (IF s.rbac THEN {Role, RoleBinding} ELSE {})
    \cup (IF s.metrics THEN {MetricsService} ELSE {})
    \cup (IF s.metrics /\ s.monitorOn THEN {ServiceMonitor(s)} ELSE {})
    \cup (IF s.ingressOn THEN {Ingress(s)} ELSE {})

Applied(id, s) ==
    /\ Exists(id)
    /\ id \in {Deployment, MetricsService, ServiceMonitor(s), Ingress(s)} => objs[id].v = s.v
    /\ id = Deployment => objs[id].replicas = Replicas(s)
    /\ id = RoleBinding => objs[id].subject = s.sa

SwitchedOff(s) ==
    (IF s.metrics /\ s.monitorOn THEN {} ELSE {ServiceMonitor(s)})
    \cup (IF s.ingressOn THEN {} ELSE {Ingress(s)})

(* The field that is not: the pull policy of the Deployment is that of     *)
(* some spec, this one or an older one, of the resource it was made for.   *)
PullOfItsOwner ==
    Exists(Deployment) =>
        \E k \in 1 .. RV :
            /\ versions[k].uid = objs[Deployment].owner
            /\ versions[k].spec.pull = objs[Deployment].pull

(* A Ready status is about the spec it names: while ObservedGeneration is  *)
(* the generation, every object is as the spec says, unless others changed *)
(* it since, or the Deployment was patched against an old copy.  Excepted  *)
(* is the pull policy, which an edit does not bring to a Deployment that   *)
(* is there: of it only PullOfItsOwner holds.                              *)
ObservedIsApplied ==
    LET s == Current.spec IN
    ~Current.gone /\ Current.observed = Current.gen =>
        /\ \A id \in Wanted(s) \ drift : Applied(id, s)
        /\ \A id \in SwitchedOff(s) : ~Exists(id)
        /\ PullOfItsOwner

(* When nothing more will wake the controller, the spec is applied, but    *)
(* for the pull policy of a Deployment that was there before, and the      *)
(* status says so.  What others did to a ServiceAccount or a Service has   *)
(* been undone; what they did to the other kinds may have been missed.     *)
Quiet(p) ==
    /\ At(p, "idle") /\ ~dirty[p] /\ ~timer[p] /\ cached[p] = RV
    /\ ~Current.gone /\ ~Current.deleting

QuietMeansApplied ==
    \A p \in Procs : Quiet(p) =>
        /\ Current.observed = Current.gen
        /\ \A id \in Wanted(Current.spec) :
              Applied(id, Current.spec)
              \/ (id \in drift /\ id[1] \notin {"ServiceAccount", "Service"})

(* Nothing is made for a resource that is gone, although the reconcile     *)
(* works on a copy that may be old: the finalizer keeps the resource until *)
(* the worker itself lets it go.                                           *)
NothingForTheGone ==
    [][\A id \in Ids :
          objs[id] = Absent /\ objs'[id] # Absent
          => ~Current.gone /\ objs'[id].owner = Current.uid]_vars

(* The controller gets there without a resync: in the end the current      *)
(* generation is observed.  Where the kind ServiceMonitor is not installed *)
(* every reconcile fails at it, and what comes before is applied, again    *)
(* but for the pull policy.                                                *)
BeforeMonitor == {id \in Ids : id[1] \notin {"ServiceMonitor", "Ingress"}}

Converged ==
    \/ Current.gone \/ Current.spec.v = 0
    \/ crd /\ Current.observed = Current.gen
    \/ /\ ~crd
       /\ \A id \in (Wanted(Current.spec) \cap BeforeMonitor) \ drift :
             Applied(id, Current.spec)

Converges == <>[]Converged

(* A resource that is deleted goes: its finalizer is removed in the end.   *)
DeletionEnds == Current.deleting ~> Current.gone

(* "Delete both Service and ServiceMonitor if metrics are disabled."       *)
DisabledMetricsGone ==
    \A p \in Procs :
        Quiet(p) /\ ~Current.spec.metrics => ~Exists(MetricsService)
=============================================================================
