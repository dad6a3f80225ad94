----------------------- MODULE GitChangeOperatorProofs -----------------------
(***************************************************************************)
(* Theorems about GitChangeOperator.  TypeCorrect holds for any number of  *)
(* replicas; the others for one (OneProcess: replicaCount is 1 in the      *)
(* values of the Helm chart, and --leader-elect lets one of several run),  *)
(* with any names, specs and bounds, and on a cache that lags or not.      *)
(*                                                                         *)
(* The argument has four parts, each inductive with those before it:       *)
(*   GuardOK       what the worker took for its own has its finalizer, and *)
(*                 so is still there, however old the copy;                *)
(*   GenerationOK  a generation has one spec, and while it is observed no  *)
(*                 older one is in sight or at work;                       *)
(*   ProgressOK    the kinds before the worker's place are as its copy     *)
(*                 says, all kinds while a generation is observed;         *)
(*   CalmOK        while nothing is on its way to the worker it works on   *)
(*                 what is current, and has a lost watched object ahead.   *)
(***************************************************************************)
EXTENDS GitChangeOperator, TLAPS

(* The controller runs in one process.                                     *)
OneProcess == \E p : Procs = {p}

(* The inductive invariant for one process p.  A resource that p may take  *)
(* for its own, because it has read its finalizer, is still there: only p  *)
(* removes the finalizer, and not before it has read the deletion.         *)
Working == Calls \cup {"statusGet", "statusPut"}

Holding(o) == ~o.gone /\ o.finalizer /\ ~o.deleting

HeldAs(u) == Current.finalizer /\ ~Current.gone /\ Current.uid = u

HandsOK(p) ==
    /\ rv[p] <= Seen(p)
    /\ pc[p] \in {"addFinalizer", "removeFinalizer"} => gco[p] = versions[rv[p]]
    /\ At(p, "addFinalizer") => ~gco[p].finalizer /\ ~gco[p].gone
    /\ At(p, "removeFinalizer") => gco[p].deleting
    /\ pc[p] \in Working => HeldAs(gco[p].uid)

SightOK(p) == \A k \in Seen(p) .. RV : Holding(versions[k]) => HeldAs(versions[k].uid)

GuardOK(p) == HandsOK(p) /\ SightOK(p)

(* Generations grow, one spec to each; a generation is observed only after *)
(* the versions before it are out of sight.                                *)
NotNewer(o) ==
    /\ o.uid <= Current.uid
    /\ o.uid = Current.uid =>
          o.gen <= Current.gen /\ (o.gen = Current.gen => o.spec = Current.spec)

Observing == ~Current.gone /\ Current.observed = Current.gen

NewestOK(p) ==
    /\ Current.observed <= Current.gen
    /\ \A k \in 1 .. RV : NotNewer(versions[k])
    /\ Observing =>
          \A k \in Seen(p) .. RV :
              versions[k].uid = Current.uid => versions[k].gen = Current.gen

GraspOK(p) ==
    pc[p] \in Working =>
        /\ NotNewer(gco[p])
        /\ Observing => gco[p].gen = Current.gen

GenerationOK(p) == NewestOK(p) /\ GraspOK(p)

(* The kind of object a call is about, and the kinds of the calls before.  *)
Kind(c) ==
    CASE c = "deployment" -> "Deployment"
      [] c = "serviceAccount" -> "ServiceAccount"
      [] c = "role" -> "Role"
      [] c = "roleBinding" -> "RoleBinding"
      [] c = "service" -> "Service"
      [] c = "serviceMonitor" -> "ServiceMonitor"
      [] c = "ingress" -> "Ingress"

Before(c) ==
    CASE c = "deployment" -> {}
      [] c = "serviceAccount" -> {"Deployment"}
      [] c = "role" -> {"Deployment", "ServiceAccount"}
      [] c = "roleBinding" -> {"Deployment", "ServiceAccount", "Role"}
      [] c = "service" -> {"Deployment", "ServiceAccount", "Role", "RoleBinding"}
      [] c = "serviceMonitor" ->
            {"Deployment", "ServiceAccount", "Role", "RoleBinding", "Service"}
      [] c = "ingress" ->
            {"Deployment", "ServiceAccount", "Role", "RoleBinding", "Service",
             "ServiceMonitor"}
      [] OTHER ->
            {"Deployment", "ServiceAccount", "Role", "RoleBinding", "Service",
             "ServiceMonitor", "Ingress"}

(* The objects of the kinds K are as spec s says, but for those in drift.  *)
Fulfilled(s, K) ==
    /\ \A id \in Wanted(s) : id[1] \in K => Applied(id, s) \/ id \in drift
    /\ \A id \in SwitchedOff(s) : id[1] \in K => ~Exists(id)

ProgressOK(p) ==
    /\ pc[p] \in Working => Fulfilled(gco[p].spec, Before(pc[p]))
    /\ Observing => Fulfilled(Current.spec, Before("statusGet"))

(* While nothing is under way that wakes the process, it works on what is  *)
(* current, and a watched object that was lost is still ahead of it.       *)
Calm(p) ==
    ~dirty[p] /\ ~timer[p] /\ cached[p] = RV /\ ~Current.gone /\ ~Current.deleting

CalmOK(p) ==
    Calm(p) =>
        /\ At(p, "idle") => Observing
        /\ pc[p] \in Working => gco[p].gen = Current.gen
        /\ \A id \in Wanted(Current.spec) \cap drift \cap Watched :
              At(p, "addFinalizer") \/ (pc[p] \in Calls /\ id[1] \notin Before(pc[p]))

-----------------------------------------------------------------------------
(* The store and the types.                                                *)
StoreT ==
    /\ versions \in Seq(Objects) /\ RV >= 1
    /\ cached \in [Procs -> 1 .. RV]
    /\ rv \in [Procs -> 1 .. RV]

QueueT == dirty \in [Procs -> BOOLEAN] /\ timer \in [Procs -> BOOLEAN]

WorkT ==
    /\ pc \in [Procs -> PCs]
    /\ gco \in [Procs -> Objects]
    /\ tries \in [Procs -> 0 .. MaxRetries - 1]

OwnedT ==
    /\ objs \in [Ids -> Owned] /\ dep \in [Procs -> Owned]
    /\ crd \in BOOLEAN /\ drift \subseteq Ids

BoundT ==
    /\ edits \in 0 .. MaxEdits /\ deletes \in 0 .. MaxDeletes
    /\ touches \in 0 .. MaxTouches /\ mishaps \in 0 .. MaxMishaps

LEMMA TypeParts == TypeOK <=> StoreT /\ QueueT /\ WorkT /\ OwnedT /\ BoundT
  BY DEF TypeOK, StoreT, QueueT, WorkT, OwnedT, BoundT

LEMMA TypesNext == StoreT' /\ QueueT' /\ WorkT' /\ OwnedT' /\ BoundT' => TypeOK'
  BY DEF TypeOK, StoreT, QueueT, WorkT, OwnedT, BoundT

LEMMA CallNames ==
  /\ Calls = {"deployment", "serviceAccount", "role", "roleBinding", "service",
              "serviceMonitor", "ingress"}
  /\ NextCall("deployment") = "serviceAccount" /\ NextCall("serviceAccount") = "role"
  /\ NextCall("role") = "roleBinding" /\ NextCall("roleBinding") = "service"
  /\ NextCall("service") = "serviceMonitor" /\ NextCall("serviceMonitor") = "ingress"
  /\ NextCall("ingress") = "statusGet"
  <1>1. /\ DOMAIN Order = 1 .. 7
        /\ Order[1] = "deployment" /\ Order[2] = "serviceAccount" /\ Order[3] = "role"
        /\ Order[4] = "roleBinding" /\ Order[5] = "service"
        /\ Order[6] = "serviceMonitor" /\ Order[7] = "ingress"
    BY DEF Order
  <1>2. 1 .. 7 = {1, 2, 3, 4, 5, 6, 7}
    OBVIOUS
  <1>3. Calls = {Order[1], Order[2], Order[3], Order[4], Order[5], Order[6], Order[7]}
    BY <1>1, <1>2 DEF Calls
  <1>4. ASSUME NEW i \in {1, 2, 3, 4, 5, 6}
        PROVE  NextCall(Order[i]) = Order[i + 1]
    <2> DEFINE j == CHOOSE j \in DOMAIN Order : Order[j] = Order[i]
    <2>1. j \in {1, 2, 3, 4, 5, 6, 7} /\ Order[j] = Order[i]
      BY <1>1, <1>2, <1>4
    <2> HIDE DEF j
    <2>2. j = i
      BY <1>1, <1>4, <2>1
    <2>3. Order[i] # "ingress"
      BY <1>1, <1>4
    <2> QED
      BY <2>2, <2>3 DEF NextCall, j
  <1>5. /\ NextCall(Order[1]) = Order[2] /\ NextCall(Order[2]) = Order[3]
        /\ NextCall(Order[3]) = Order[4] /\ NextCall(Order[4]) = Order[5]
        /\ NextCall(Order[5]) = Order[6] /\ NextCall(Order[6]) = Order[7]
    BY <1>4
  <1> QED
    BY <1>1, <1>3, <1>5 DEF NextCall

LEMMA WriteFacts ==
  ASSUME versions \in Seq(Objects), NEW o \in Objects, Write(o)
  PROVE  /\ versions' \in Seq(Objects) /\ RV \in Nat /\ RV' = RV + 1
         /\ \A k \in 1 .. RV : versions'[k] = versions[k]
         /\ versions'[RV + 1] = o /\ Current' = o
  BY DEF Write, RV, Current

LEMMA StoreFacts ==
  ASSUME StoreT, NEW p \in Procs
  PROVE  /\ RV \in Nat /\ RV >= 1 /\ Current \in Objects /\ versions[1] \in Objects
         /\ Seen(p) \in 1 .. RV /\ View(p) \in Objects /\ View(p) = versions[Seen(p)]
         /\ rv[p] \in 1 .. RV /\ versions[rv[p]] \in Objects
         /\ cached[p] \in 1 .. RV
         /\ \A k \in 1 .. RV : versions[k] \in Objects
  <1>1. RV \in Nat /\ RV >= 1 /\ cached[p] \in 1 .. RV /\ rv[p] \in 1 .. RV
        /\ \A k \in 1 .. RV : versions[k] \in Objects
    BY DEF StoreT, RV
  <1>2. RV \in 1 .. RV /\ 1 \in 1 .. RV /\ Seen(p) \in 1 .. RV
    BY <1>1 DEF Seen
  <1> QED
    BY <1>1, <1>2 DEF Current, View

(* What is written, when something is.                                     *)
LEMMA StoreKeeps ==
  ASSUME StoreT, UNCHANGED versions \/ \E o \in Objects : Write(o),
         cached' \in [Procs -> 1 .. RV], rv' \in [Procs -> 1 .. RV]
  PROVE  StoreT' /\ RV <= RV' /\ RV \in Nat
  <1>1. CASE UNCHANGED versions
    BY <1>1 DEF StoreT, RV
  <1>2. ASSUME NEW o \in Objects, Write(o)
        PROVE  StoreT' /\ RV <= RV' /\ RV \in Nat
    <2>1. versions' \in Seq(Objects) /\ RV \in Nat /\ RV' = RV + 1
      BY <1>2, WriteFacts DEF StoreT
    <2>2. 1 .. RV \subseteq 1 .. RV' /\ RV' >= 1
      BY <2>1 DEF StoreT
    <2> QED
      BY <2>1, <2>2 DEF StoreT
  <1> QED
    BY <1>1, <1>2

-----------------------------------------------------------------------------
(* The helpers.                                                            *)

LEMMA SpecFacts ==
  ASSUME NEW g \in Objects
  PROVE  /\ g.spec \in SpecType /\ g.spec \in Specs /\ g.uid \in Nat \ {0}
         /\ g.spec.sa \in Names /\ g.spec.monitor \in Names
         /\ g.spec.ingress \in Names /\ g.spec.v \in Nat /\ g.spec.pull \in Nat
         /\ Replicas(g.spec) \in Nat
  <1>1. g.spec \in SpecType /\ g.spec \in Specs /\ g.uid \in Nat \ {0}
    BY OperatorAssumption DEF Objects
  <1>2. g.spec.sa \in Names /\ g.spec.monitor \in Names /\ g.spec.ingress \in Names
        /\ g.spec.v \in Nat /\ g.spec.pull \in Nat /\ Replicas(g.spec) \in Nat
    BY <1>1 DEF SpecType, Replicas
  <1> QED
    BY <1>1, <1>2

LEMMA IdFacts ==
  ASSUME NEW s \in SpecType
  PROVE  /\ Deployment \in Ids /\ Role \in Ids /\ RoleBinding \in Ids
         /\ MetricsService \in Ids /\ DeletedService \in Ids
         /\ ServiceAccount(s) \in Ids /\ ServiceMonitor(s) \in Ids /\ Ingress(s) \in Ids
  <1>1. s.sa \in Names /\ s.monitor \in Names /\ s.ingress \in Names
    BY DEF SpecType
  <1> QED
    BY <1>1 DEF Ids, ServiceAccount, ServiceMonitor, Ingress

LEMMA NewType ==
  ASSUME NEW g \in Objects
  PROVE  New(g) \in Owned /\ New(g).owner = g.uid /\ New(g).owner # 0
         /\ Absent \in Owned /\ Absent.owner = 0
  <1>1. g.uid \in Nat \ {0}
    BY SpecFacts
  <1>2. Absent \in Owned /\ Absent.owner = 0
    BY DEF Absent, Owned
  <1>3. PICK o : o = New(g)
    OBVIOUS
  <1>4. o = [owner |-> g.uid, v |-> 0, pull |-> 0, subject |-> "", replicas |-> 0]
    BY <1>3 DEF New, Absent
  <1>5. o \in Owned /\ o.owner = g.uid
    BY <1>1, <1>4 DEF Owned
  <1> QED
    BY <1>1, <1>2, <1>3, <1>5

(* The Deployment that reconcileDeployment starts from, the one that is    *)
(* there or a new one.                                                     *)
Live(g) == IF Exists(Deployment) THEN objs[Deployment] ELSE NewDeployment(g)

LEMMA LiveType ==
  ASSUME OwnedT, NEW g \in Objects
  PROVE  /\ Live(g) \in Owned /\ Live(g).owner # 0
         /\ ~Exists(Deployment) =>
               Live(g).owner = g.uid /\ Live(g).v = 0 /\ Live(g).pull = g.spec.pull
  <1>1. Deployment \in Ids
    BY DEF Ids
  <1>2. g.uid \in Nat \ {0} /\ g.spec.pull \in Nat
    BY SpecFacts
  <1>3. PICK o : o = NewDeployment(g)
    OBVIOUS
  <1>4. o = [owner |-> g.uid, v |-> 0, pull |-> g.spec.pull, subject |-> "", replicas |-> 0]
    BY <1>3 DEF NewDeployment, New, Absent
  <1>5. o \in Owned /\ o.owner = g.uid /\ o.v = 0 /\ o.pull = g.spec.pull
    BY <1>2, <1>4 DEF Owned
  <1> QED
    BY <1>1, <1>2, <1>3, <1>5 DEF Live, Exists, OwnedT

LEMMA KeptType ==
  ASSUME OwnedT, NEW g \in Objects, NEW id \in Ids
  PROVE  /\ Kept(id, g) \in Owned /\ Kept(id, g).owner # 0
         /\ ~Exists(id) => Kept(id, g).owner = g.uid
  BY NewType DEF Kept, OwnedT, Exists

(* A call changes its target only: the object is put there, live, with its *)
(* old owner or the resource as owner, or it goes.                         *)
Became(id, g, o) ==
    /\ o \in Owned
    /\ o = Absent \/ (o.owner # 0 /\ (Exists(id) \/ o.owner = g.uid))

LEMMA EffectShape ==
  ASSUME OwnedT, WorkT, NEW p \in Procs, pc[p] \in Calls
  PROVE  /\ Target(p) \in Ids
         /\ ~CallMade(p) => Effect(p) = objs
         /\ CallMade(p) =>
               \E o : Became(Target(p), gco[p], o) /\ Effect(p) = Put(Target(p), o)
  <1> DEFINE g == gco[p]
             s == g.spec
  <1>1. g \in Objects /\ s \in SpecType /\ s.v \in Nat /\ s.sa \in Names /\ Replicas(s) \in Nat
    BY SpecFacts DEF WorkT
  <1>2. /\ Deployment \in Ids /\ Role \in Ids /\ RoleBinding \in Ids
        /\ MetricsService \in Ids /\ DeletedService \in Ids
        /\ ServiceAccount(s) \in Ids /\ ServiceMonitor(s) \in Ids /\ Ingress(s) \in Ids
    BY <1>1, IdFacts
  <1>3. \A id \in Ids : Became(id, g, Absent) /\ Became(id, g, New(g))
    BY <1>1, NewType DEF Became
  <1>4. ASSUME NEW id \in Ids, NEW o \in Owned, o.owner = Kept(id, g).owner
        PROVE  Became(id, g, o)
    BY <1>1, <1>4, KeptType DEF Became
  <1>5. ASSUME NEW id \in Ids
        PROVE  /\ Kept(id, g) \in Owned
               /\ [Kept(id, g) EXCEPT !.v = s.v] \in Owned
               /\ [Kept(id, g) EXCEPT !.v = s.v].owner = Kept(id, g).owner
               /\ [Kept(id, g) EXCEPT !.subject = s.sa] \in Owned
               /\ [Kept(id, g) EXCEPT !.subject = s.sa].owner = Kept(id, g).owner
    <2>1. Kept(id, g) \in Owned
      BY <1>1, KeptType
    <2> QED
      BY <1>1, <2>1 DEF Owned
  <1>6. CASE pc[p] = "deployment"
    <2> DEFINE live == Live(g)
               o == [live EXCEPT !.v = IF dep[p].v # s.v THEN s.v ELSE @,
                        !.replicas = IF dep[p] = Absent \/ dep[p].replicas # Replicas(s)
                                     THEN Replicas(s) ELSE @]
    <2>1. live \in Owned /\ live.owner # 0 /\ (Exists(Deployment) \/ live.owner = g.uid)
      BY <1>1, LiveType
    <2>2. o \in Owned /\ o.owner = live.owner
      BY <1>1, <2>1 DEF Owned
    <2>3. Became(Deployment, g, o)
      BY <2>1, <2>2 DEF Became
    <2>4. Target(p) = Deployment /\ CallMade(p) /\ Effect(p) = Put(Deployment, o)
      BY <1>6 DEF Target, CallMade, Effect, reconcileDeployment, Live, At
    <2> QED
      BY <1>2, <2>3, <2>4
  <1>7. CASE pc[p] = "serviceAccount"
    <2>1. Target(p) = ServiceAccount(s) /\ (CallMade(p) <=> s.saCreate)
      BY <1>7 DEF Target, CallMade, At
    <2>2. Effect(p) = IF s.saCreate THEN Put(ServiceAccount(s), New(g)) ELSE objs
      BY <1>7 DEF Effect, reconcileServiceAccount
    <2> QED
      BY <1>2, <1>3, <2>1, <2>2
  <1>8. CASE pc[p] = "role"
    <2>1. Target(p) = Role /\ (CallMade(p) <=> s.rbac)
      BY <1>8 DEF Target, CallMade, At
    <2>2. Effect(p) = IF s.rbac THEN Put(Role, Kept(Role, g)) ELSE objs
      BY <1>8 DEF Effect, reconcileRole
    <2> QED
      BY <1>2, <1>4, <1>5, <2>1, <2>2
  <1>9. CASE pc[p] = "roleBinding"
    <2>1. Target(p) = RoleBinding /\ (CallMade(p) <=> s.rbac)
      BY <1>9 DEF Target, CallMade, At
    <2>2. Effect(p) = IF s.rbac
                      THEN Put(RoleBinding, [Kept(RoleBinding, g) EXCEPT !.subject = s.sa])
                      ELSE objs
      BY <1>9 DEF Effect, reconcileRoleBinding
    <2> QED
      BY <1>2, <1>4, <1>5, <2>1, <2>2
  <1>10. CASE pc[p] = "service"
    <2>1. Target(p) = (IF s.metrics THEN MetricsService ELSE DeletedService) /\ CallMade(p)
      BY <1>10 DEF Target, CallMade, At
    <2>2. Effect(p) = IF s.metrics
                      THEN Put(MetricsService, [Kept(MetricsService, g) EXCEPT !.v = s.v])
                      ELSE Put(DeletedService, Absent)
      BY <1>10 DEF Effect, reconcileMetricsService, deleteMetricsService, Delete
    <2> QED
      BY <1>2, <1>3, <1>4, <1>5, <2>1, <2>2
  <1>11. CASE pc[p] = "serviceMonitor"
    <2> DEFINE o == [New(g) EXCEPT !.v = s.v]
    <2>1. Target(p) = ServiceMonitor(s) /\ CallMade(p)
      BY <1>11 DEF Target, CallMade, At
    <2>2. Effect(p) = IF s.metrics /\ s.monitorOn THEN Put(ServiceMonitor(s), o)
                      ELSE Put(ServiceMonitor(s), Absent)
      BY <1>11 DEF Effect, reconcileServiceMonitor, deleteServiceMonitor, Delete
    <2>3. o \in Owned /\ o.owner = g.uid /\ o.owner # 0
      BY <1>1, NewType DEF Owned
    <2>4. Became(ServiceMonitor(s), g, o)
      BY <2>3 DEF Became
    <2> QED
      BY <1>2, <1>3, <2>1, <2>2, <2>4
  <1>12. CASE pc[p] = "ingress"
    <2>1. Target(p) = Ingress(s) /\ CallMade(p)
      BY <1>12 DEF Target, CallMade, At
    <2>2. Effect(p) = IF s.ingressOn
                      THEN Put(Ingress(s), [Kept(Ingress(s), g) EXCEPT !.v = s.v])
                      ELSE Put(Ingress(s), Absent)
      BY <1>12 DEF Effect, reconcileIngress, deleteIngress, Delete
    <2> QED
      BY <1>2, <1>3, <1>4, <1>5, <2>1, <2>2
  <1> QED
    BY <1>6, <1>7, <1>8, <1>9, <1>10, <1>11, <1>12, CallNames

(* What the worker does next, types included.                              *)
LEMMA LeaveT ==
  ASSUME StoreT, WorkT, NEW p \in Procs, Leave(p)
  PROVE  WorkT' /\ rv' \in [Procs -> 1 .. RV]
  <1>1. 1 \in 1 .. RV /\ versions[1] \in Objects /\ MaxRetries \in Nat \ {0}
    BY StoreFacts, OperatorAssumption
  <1>2. 0 \in 0 .. MaxRetries - 1 /\ "idle" \in PCs
    BY <1>1 DEF PCs
  <1>3. rv' \in [Procs -> 1 .. RV]
    BY <1>1 DEF Leave, StoreT
  <1> QED
    BY <1>1, <1>2, <1>3 DEF Leave, GoTo, WorkT

LEMMA RequeueT ==
  ASSUME QueueT, NEW p \in Procs, NEW b \in BOOLEAN, Requeue(p, b)
  PROVE  timer' \in [Procs -> BOOLEAN]
  BY DEF QueueT, Requeue

LEMMA ReturnT ==
  ASSUME StoreT, WorkT, QueueT, NEW p \in Procs, NEW b \in BOOLEAN, Return(p, b)
  PROVE  WorkT' /\ rv' \in [Procs -> 1 .. RV] /\ timer' \in [Procs -> BOOLEAN]
  BY LeaveT, RequeueT DEF Return

LEMMA NotifyT == ASSUME NEW D, Notify(D) PROVE dirty' \in [Procs -> BOOLEAN]
  BY DEF Notify

LEMMA MishapT == BoundT /\ Mishap => mishaps' \in 0 .. MaxMishaps
  BY OperatorAssumption DEF BoundT, Mishap

LEMMA TouchT == BoundT /\ Touch => touches' \in 0 .. MaxTouches
  BY OperatorAssumption DEF BoundT, Touch

LEMMA StartT ==
  ASSUME TypeOK, NEW p \in Procs, ReconcileNothing(p) \/ Start(p)
  PROVE  TypeOK'
  <1> USE TypeParts, TypesNext
  <1>1. /\ UNCHANGED <<versions, cached, timer, tries, objs, dep, drift, crd>>
        /\ UNCHANGED boundVars /\ TakeKey(p)
    BY DEF ReconcileNothing, Start, Begin, workerVars, ownedVars
  <1>2. QueueT'
    BY <1>1 DEF QueueT, TakeKey
  <1>3. OwnedT' /\ BoundT'
    BY <1>1 DEF OwnedT, BoundT, boundVars
  <1>4. WorkT' /\ rv' \in [Procs -> 1 .. RV]
    <2>1. CASE ReconcileNothing(p)
      BY <2>1 DEF ReconcileNothing, workerVars, WorkT, StoreT
    <2>2. CASE Start(p)
      <3>1. View(p) \in Objects /\ Seen(p) \in 1 .. RV
        BY StoreFacts
      <3>2. PICK c \in {"removeFinalizer", "deployment", "addFinalizer"} : GoTo(p, c)
        BY <2>2 DEF Start
      <3>3. c \in PCs
        BY CallNames DEF PCs
      <3>4. rv' \in [Procs -> 1 .. RV]
        BY <2>2, <3>1 DEF Start, StoreT
      <3> QED
        BY <1>1, <2>2, <3>1, <3>2, <3>3, <3>4 DEF Start, GoTo, WorkT
    <2> QED
      BY <2>1, <2>2
  <1>5. StoreT'
    BY <1>1, <1>4, StoreKeeps DEF StoreT
  <1> QED
    BY <1>2, <1>3, <1>4, <1>5

LEMMA FinalizerType ==
  ASSUME WorkT, NEW p \in Procs
  PROVE  FinalizerAdded(p) \in Objects /\ FinalizerRemoved(p) \in Objects
  <1>1. gco[p] \in Objects
    BY DEF WorkT
  <1> QED
    BY <1>1 DEF FinalizerAdded, FinalizerRemoved, Objects

LEMMA FinalizerT ==
  ASSUME TypeOK, NEW p \in Procs,
         AddFinalizer(p) \/ RemoveFinalizer(p) \/ FinalizerRefused(p) \/ FinalizerFault(p)
  PROVE  TypeOK'
  <1> USE TypeParts, TypesNext
  <1>1. /\ UNCHANGED <<cached, dirty, objs, dep, drift, crd, edits, deletes, touches>>
        /\ UNCHANGED versions \/ \E o \in Objects : Write(o)
    BY FinalizerType
       DEF AddFinalizer, RemoveFinalizer, FinalizerRefused, FinalizerFault, ownedVars, boundVars
  <1>2. mishaps' \in 0 .. MaxMishaps
    <2>1. mishaps' = mishaps \/ Mishap
      BY DEF AddFinalizer, RemoveFinalizer, FinalizerRefused, FinalizerFault, boundVars
    <2> QED
      BY <2>1, MishapT DEF BoundT
  <1>3. OwnedT' /\ BoundT'
    BY <1>1, <1>2 DEF OwnedT, BoundT
  <1>4. WorkT' /\ rv' \in [Procs -> 1 .. RV] /\ timer' \in [Procs -> BOOLEAN]
    <2>1. CASE AddFinalizer(p)
      <3>1. FinalizerAdded(p) \in Objects /\ "deployment" \in PCs
        BY FinalizerType, CallNames DEF PCs
      <3> QED
        BY <2>1, <3>1 DEF AddFinalizer, GoTo, WorkT, StoreT, QueueT
    <2>2. CASE \E b \in BOOLEAN : Return(p, b)
      BY <2>2, ReturnT
    <2> QED
      BY <2>1, <2>2 DEF RemoveFinalizer, FinalizerRefused, FinalizerFault
  <1>5. QueueT'
    BY <1>1, <1>4 DEF QueueT
  <1>6. StoreT'
    BY <1>1, <1>4, StoreKeeps DEF StoreT
  <1> QED
    BY <1>3, <1>4, <1>5, <1>6

LEMMA ExecutedT ==
  ASSUME TypeOK, NEW p \in Procs, pc[p] \in Calls, Executed(p), UNCHANGED <<dep, crd>>
  PROVE  OwnedT' /\ dirty' \in [Procs -> BOOLEAN]
  <1> USE TypeParts, TypesNext
  <1>1. Target(p) \in Ids /\ Deployment \in Ids
    <2>1. gco[p] \in Objects
      BY DEF WorkT
    <2> QED
      BY <2>1, EffectShape, SpecFacts, IdFacts
  <1>2. Effect(p) \in [Ids -> Owned]
    <2>1. CASE ~CallMade(p)
      BY <2>1, EffectShape DEF OwnedT
    <2>2. CASE CallMade(p)
      <3>1. PICK o : Became(Target(p), gco[p], o) /\ Effect(p) = Put(Target(p), o)
        BY <2>2, EffectShape
      <3> QED
        BY <1>1, <3>1 DEF Became, Put, OwnedT
    <2> QED
      BY <2>1, <2>2
  <1>3. drift' \subseteq Ids
    BY <1>1 DEF Executed, OwnedT
  <1>4. dirty' \in [Procs -> BOOLEAN]
    BY NotifyT DEF Executed
  <1> QED
    BY <1>2, <1>3, <1>4 DEF Executed, OwnedT

LEMMA NextCallType == ASSUME NEW c \in Calls PROVE NextCall(c) \in PCs /\ c \in PCs
  BY CallNames DEF PCs

LEMMA ApplyT ==
  ASSUME TypeOK, NEW p \in Procs, Apply(p) \/ ApplyRefused(p) \/ ApplyFault(p)
  PROVE  TypeOK'
  <1> USE TypeParts, TypesNext
  <1>1. /\ UNCHANGED <<versions, cached, dep, crd, edits, deletes, touches>>
        /\ pc[p] \in Calls
    BY DEF Apply, ApplyRefused, ApplyFault, ownedVars, boundVars
  <1>2. BoundT'
    <2>1. mishaps' = mishaps \/ Mishap
      BY DEF Apply, ApplyRefused, ApplyFault, boundVars
    <2>2. mishaps' \in 0 .. MaxMishaps
      BY <2>1, MishapT DEF BoundT
    <2> QED
      BY <1>1, <2>2 DEF BoundT
  <1>3. WorkT' /\ rv' \in [Procs -> 1 .. RV] /\ timer' \in [Procs -> BOOLEAN]
    <2>1. CASE Apply(p)
      <3>1. NextCall(pc[p]) \in PCs
        BY <1>1, NextCallType
      <3> QED
        BY <2>1, <3>1 DEF Apply, GoTo, WorkT, StoreT, QueueT
    <2>2. CASE Return(p, TRUE)
      BY <2>2, ReturnT
    <2> QED
      BY <2>1, <2>2 DEF ApplyRefused, ApplyFault
  <1>4. OwnedT' /\ dirty' \in [Procs -> BOOLEAN]
    <2>1. CASE Executed(p)
      BY <1>1, <2>1, ExecutedT
    <2>2. CASE UNCHANGED <<objs, drift, dirty>>
      BY <1>1, <2>2 DEF OwnedT, QueueT
    <2> QED
      BY <2>1, <2>2 DEF Apply, ApplyRefused, ApplyFault, ownedVars
  <1>5. StoreT'
    BY <1>1, <1>3, StoreKeeps DEF StoreT
  <1> QED
    BY <1>2, <1>3, <1>4, <1>5 DEF QueueT

LEMMA ReadyType ==
  ASSUME StoreT, WorkT, NEW p \in Procs
  PROVE  Ready(p) \in Objects
  <1>1. versions[rv[p]] \in Objects /\ gco[p] \in Objects
    BY StoreFacts DEF WorkT
  <1> QED
    BY <1>1 DEF Ready, Observed, Objects

LEMMA StatusT ==
  ASSUME TypeOK, NEW p \in Procs,
         StatusGet(p) \/ StatusOk(p) \/ StatusRefused(p) \/ StatusFault(p)
  PROVE  TypeOK'
  <1> USE TypeParts, TypesNext
  <1>1. /\ UNCHANGED <<cached, dirty, objs, dep, drift, crd, edits, deletes, touches>>
        /\ UNCHANGED versions \/ \E o \in Objects : Write(o)
    BY ReadyType
       DEF StatusGet, StatusOk, StatusRefused, StatusFault, StoreStatus, ownedVars, boundVars
  <1>2. OwnedT' /\ BoundT'
    <2>1. mishaps' = mishaps \/ Mishap
      BY DEF StatusGet, StatusOk, StatusRefused, StatusFault, boundVars
    <2>2. mishaps' \in 0 .. MaxMishaps
      BY <2>1, MishapT DEF BoundT
    <2> QED
      BY <1>1, <2>2 DEF OwnedT, BoundT
  <1>3. WorkT' /\ rv' \in [Procs -> 1 .. RV] /\ timer' \in [Procs -> BOOLEAN]
    <2>1. CASE \E b \in BOOLEAN : Return(p, b)
      BY <2>1, ReturnT
    <2>2. CASE StatusGet(p) /\ rv' = [rv EXCEPT ![p] = Seen(p)]
               /\ GoTo(p, "statusPut") /\ UNCHANGED <<timer, gco, tries>>
      <3>1. Seen(p) \in 1 .. RV
        BY StoreFacts
      <3> QED
        BY <2>2, <3>1 DEF GoTo, WorkT, PCs, StoreT, QueueT
    <2>3. CASE RetriesLeft(p) /\ tries' = [tries EXCEPT ![p] = @ + 1]
               /\ GoTo(p, "statusGet") /\ UNCHANGED <<timer, gco, rv>>
      <3>1. tries[p] + 1 \in 0 .. MaxRetries - 1
        BY <2>3, OperatorAssumption DEF RetriesLeft, WorkT
      <3> QED
        BY <2>3, <3>1 DEF GoTo, WorkT, PCs, StoreT, QueueT
    <2> QED
      BY <2>1, <2>2, <2>3 DEF StatusGet, StatusOk, StatusRefused, StatusFault
  <1>4. QueueT'
    BY <1>1, <1>3 DEF QueueT
  <1>5. StoreT'
    BY <1>1, <1>3, StoreKeeps DEF StoreT
  <1> QED
    BY <1>2, <1>3, <1>4, <1>5

LEMMA WatchT ==
  ASSUME TypeOK, NEW p \in Procs,
         Watch(p) \/ WatchDeployment(p) \/ Timer(p) \/ Crash(p) \/ Resync(p)
  PROVE  TypeOK'
  <1> USE TypeParts, TypesNext
  <1>0. objs[Deployment] \in Owned /\ RV \in 1 .. RV
    BY StoreFacts DEF OwnedT, Ids
  <1>1. UNCHANGED <<versions, objs, drift, crd>>
    BY DEF Watch, WatchDeployment, Timer, Crash, Resync, Deliver, TimerFire, Relist,
           ownedVars, kubeVars
  <1>2. cached' \in [Procs -> 1 .. RV]
    <2>1. CASE Watch(p)
      <3>1. cached[p] + 1 \in 1 .. RV
        BY <2>1, StoreFacts DEF Watch, Deliver
      <3> QED
        BY <2>1, <3>1 DEF Watch, Deliver, StoreT
    <2>2. CASE Crash(p)
      BY <1>0, <2>2 DEF Crash, Relist, StoreT
    <2>3. CASE WatchDeployment(p) \/ Timer(p) \/ Resync(p)
      BY <2>3 DEF WatchDeployment, Timer, Resync, TimerFire, kubeVars, StoreT
    <2> QED
      BY <2>1, <2>2, <2>3
  <1>3. QueueT'
    <2>1. CASE Watch(p)
      BY <2>1 DEF Watch, Deliver, QueueT
    <2>2. CASE Crash(p)
      <3>1. (~Current.gone) \in BOOLEAN
        OBVIOUS
      <3> QED
        BY <2>2, <3>1 DEF Crash, Relist, QueueT
    <2>3. CASE WatchDeployment(p) \/ Timer(p) \/ Resync(p)
      BY <2>3 DEF WatchDeployment, Timer, Resync, TimerFire, kubeVars, QueueT
    <2> QED
      BY <2>1, <2>2, <2>3
  <1>4. WorkT' /\ rv' \in [Procs -> 1 .. RV]
    <2>1. CASE Crash(p)
      BY <2>1, LeaveT DEF Crash
    <2>2. CASE UNCHANGED workerVars
      BY <2>2 DEF workerVars, WorkT, StoreT
    <2> QED
      BY <2>1, <2>2 DEF Watch, WatchDeployment, Timer, Resync
  <1>5. BoundT'
    BY MishapT, TouchT
       DEF Watch, WatchDeployment, Timer, Crash, Resync, boundVars, BoundT
  <1>6. OwnedT'
    <2>1. dep' = dep \/ dep' = [dep EXCEPT ![p] = objs[Deployment]]
      BY DEF Watch, WatchDeployment, Timer, Crash, Resync, ownedVars
    <2> QED
      BY <1>0, <1>1, <2>1 DEF OwnedT
  <1>7. StoreT'
    BY <1>1, <1>2, <1>4, StoreKeeps
  <1> QED
    BY <1>3, <1>4, <1>5, <1>6, <1>7

LEMMA ScaledType ==
  ASSUME NEW o \in Owned
  PROVE  [o EXCEPT !.replicas = @ + 1] \in Owned
  <1>1. o.replicas \in Nat
    BY DEF Owned
  <1>2. o.replicas + 1 \in Nat
    BY <1>1
  <1> QED
    BY <1>2 DEF Owned

(* The versions that the user writes.                                      *)
Edited(o, s) == [o EXCEPT !.spec = s, !.gen = @ + 1]
Deleted(o) == [o EXCEPT !.deleting = TRUE, !.gen = @ + 1, !.gone = ~o.finalizer]

LEMMA UserTypes ==
  ASSUME NEW o \in Objects, NEW s \in Specs
  PROVE  /\ Edited(o, s) \in Objects /\ NewObject(o.uid + 1, s) \in Objects
         /\ Deleted(o) \in Objects
  <1>1. o.gen + 1 \in Nat \ {0} /\ o.uid + 1 \in Nat \ {0}
    BY DEF Objects
  <1>2. Edited(o, s) \in Objects
    BY <1>1 DEF Objects, Edited
  <1>3. NewObject(o.uid + 1, s) \in Objects
    BY <1>1 DEF Objects, NewObject
  <1>4. Deleted(o) \in Objects
    BY <1>1 DEF Objects, Deleted
  <1> QED
    BY <1>2, <1>3, <1>4

LEMMA OthersT ==
  ASSUME TypeOK, Collect \/ OthersRemove \/ OthersScale
  PROVE  TypeOK'
  <1> USE TypeParts, TypesNext
  <1>1. UNCHANGED <<versions, cached, timer, pc, gco, rv, tries, dep, crd>>
    BY DEF Collect, OthersRemove, OthersScale, Lose, workerVars, kubeVars
  <1>2. OwnedT' /\ dirty' \in [Procs -> BOOLEAN]
    <2>1. ASSUME NEW D \in SUBSET Ids, Lose(D)
          PROVE  OwnedT' /\ dirty' \in [Procs -> BOOLEAN]
      <3>1. Absent \in Owned
        BY DEF Absent, Owned
      <3> QED
        BY <1>1, <2>1, <3>1, NotifyT DEF Lose, OwnedT
    <2>2. CASE OthersScale
      <3>1. Deployment \in Ids /\ objs[Deployment] \in Owned
        BY DEF OwnedT, Ids
      <3>2. [objs[Deployment] EXCEPT !.replicas = @ + 1] \in Owned
        BY <3>1, ScaledType
      <3> QED
        BY <1>1, <2>2, <3>1, <3>2 DEF OthersScale, OwnedT, QueueT, kubeVars
    <2> QED
      BY <2>1, <2>2 DEF Collect, OthersRemove
  <1>3. BoundT'
    BY TouchT DEF Collect, OthersRemove, OthersScale, boundVars, BoundT
  <1>4. StoreT' /\ QueueT' /\ WorkT'
    BY <1>1, <1>2 DEF StoreT, QueueT, WorkT, RV
  <1> QED
    BY <1>2, <1>3, <1>4

LEMMA UserT ==
  ASSUME TypeOK, UserEdit \/ UserDelete \/ UserRecreate
  PROVE  TypeOK'
  <1> USE TypeParts, TypesNext
  <1>0. Current \in Objects
    <2>1. RV \in 1 .. RV /\ \A k \in 1 .. RV : versions[k] \in Objects
      BY DEF StoreT, RV
    <2> QED
      BY <2>1 DEF Current
  <1>1. UNCHANGED <<cached, dirty, timer, pc, gco, rv, tries, objs, dep, drift, crd>>
    BY DEF UserEdit, UserDelete, UserRecreate, workerVars, ownedVars
  <1>2. \E o \in Objects : Write(o)
    <2>1. PICK s : s \in Specs
      BY OperatorAssumption
    <2>2. Deleted(Current) \in Objects
      BY <1>0, <2>1, UserTypes
    <2>3. \A t \in Specs : Edited(Current, t) \in Objects
                          /\ NewObject(Current.uid + 1, t) \in Objects
      BY <1>0, UserTypes
    <2>4. CASE UserDelete
      BY <2>2, <2>4 DEF UserDelete, Deleted
    <2>5. CASE UserEdit
      BY <2>3, <2>5 DEF UserEdit, Edited
    <2>6. CASE UserRecreate
      BY <2>3, <2>6 DEF UserRecreate
    <2> QED
      BY <2>4, <2>5, <2>6
  <1>3. BoundT'
    <2>1. CASE UserEdit
      <3>1. edits < MaxEdits /\ edits' = edits + 1 /\ UNCHANGED <<deletes, touches, mishaps>>
        BY <2>1 DEF UserEdit
      <3> QED
        BY <3>1, OperatorAssumption DEF BoundT
    <2>2. CASE UserDelete
      BY <2>2, OperatorAssumption DEF UserDelete, BoundT
    <2>3. CASE UserRecreate
      BY <2>3 DEF UserRecreate, boundVars, BoundT
    <2> QED
      BY <2>1, <2>2, <2>3
  <1>4. StoreT'
    BY <1>1, <1>2, StoreKeeps DEF StoreT
  <1> QED
    BY <1>1, <1>3, <1>4 DEF QueueT, WorkT, OwnedT

LEMMA InitT == Init => TypeOK
  <1> SUFFICES ASSUME Init PROVE TypeOK
    OBVIOUS
  <1>1. PICK s \in Specs : KubeInit(NewObject(1, s))
    BY DEF Init
  <1>2. NewObject(1, s) \in Objects
    BY DEF NewObject, Objects
  <1>3. /\ versions \in Seq(Objects) /\ RV = 1 /\ versions[1] \in Objects
    BY <1>1, <1>2 DEF KubeInit, RV
  <1>4. StoreT /\ QueueT
    BY <1>1, <1>3 DEF KubeInit, Init, StoreT, QueueT
  <1>5. WorkT
    BY <1>3, OperatorAssumption DEF Init, WorkT, PCs
  <1>6. OwnedT
    <2>1. Absent \in Owned
      BY DEF Absent, Owned
    <2> QED
      BY <2>1, OperatorAssumption DEF Init, OwnedT
  <1>7. BoundT
    BY OperatorAssumption DEF Init, BoundT
  <1> QED
    BY <1>4, <1>5, <1>6, <1>7, TypeParts

LEMMA NextT == TypeOK /\ [Next]_vars => TypeOK'
  <1> SUFFICES ASSUME TypeOK, [Next]_vars PROVE TypeOK'
    OBVIOUS
  <1>1. CASE UNCHANGED vars
    BY <1>1 DEF TypeOK, vars, kubeVars, workerVars, ownedVars, boundVars, RV
  <1> QED
    BY <1>1, StartT, FinalizerT, ApplyT, StatusT, WatchT, OthersT, UserT
       DEF Next, Step, Faulty, Environment

(* Every variable has a value the program can give it, for any number of   *)
(* replicas.                                                               *)
THEOREM TypeCorrect == Spec => []TypeOK
  BY InitT, NextT, PTL DEF Spec

-----------------------------------------------------------------------------
(* One process.                                                            *)

Sole(p) == Procs = {p} /\ TypeOK /\ TypeOK'

LEMMA SoleFacts ==
  ASSUME NEW p, Sole(p)
  PROVE  /\ p \in Procs /\ StoreT /\ QueueT /\ WorkT /\ OwnedT
         /\ RV \in Nat /\ RV >= 1 /\ Current \in Objects /\ Current = versions[RV]
         /\ Seen(p) \in 1 .. RV /\ View(p) \in Objects /\ View(p) = versions[Seen(p)]
         /\ rv[p] \in 1 .. RV /\ cached[p] \in 1 .. RV /\ gco[p] \in Objects
         /\ pc[p] \in PCs /\ pc \in [Procs -> PCs] /\ gco \in [Procs -> Objects]
         /\ rv \in [Procs -> 1 .. RV]
         /\ \A k \in 1 .. RV : versions[k] \in Objects
  <1>1. p \in Procs /\ StoreT /\ QueueT /\ WorkT /\ OwnedT
    BY TypeParts DEF Sole
  <1>2. /\ pc[p] \in PCs /\ pc \in [Procs -> PCs] /\ gco \in [Procs -> Objects]
        /\ gco[p] \in Objects /\ rv \in [Procs -> 1 .. RV] /\ Current = versions[RV]
    BY <1>1 DEF WorkT, StoreT, Current
  <1> QED
    BY <1>1, <1>2, StoreFacts

(* The sight of a process never goes back.                                 *)
LEMMA SeenGrows ==
  ASSUME NEW p, Sole(p), UNCHANGED versions \/ \E o \in Objects : Write(o),
         UNCHANGED cached \/ Watch(p) \/ Crash(p)
  PROVE  /\ Seen(p) <= Seen(p)' /\ Seen(p)' \in Nat /\ RV <= RV' /\ RV' \in Nat
         /\ Seen(p)' <= RV'
         /\ \A k \in 1 .. RV : versions'[k] = versions[k]
  <1>1. /\ RV \in Nat /\ cached[p] \in 1 .. RV /\ versions \in Seq(Objects) /\ p \in Procs
        /\ cached \in [Procs -> 1 .. RV]
    BY SoleFacts DEF StoreT
  <1>2. /\ RV <= RV' /\ RV' \in Nat /\ \A k \in 1 .. RV : versions'[k] = versions[k]
    <2>1. CASE UNCHANGED versions
      BY <1>1, <2>1 DEF RV
    <2>2. CASE \E o \in Objects : Write(o)
      BY <1>1, <2>2, WriteFacts
    <2> QED
      BY <2>1, <2>2
  <1>3. cached[p] <= cached'[p] /\ cached'[p] \in Nat /\ cached'[p] <= RV'
    <2>1. CASE UNCHANGED cached
      BY <1>1, <1>2, <2>1
    <2>2. CASE Watch(p)
      BY <1>1, <1>2, <2>2 DEF Watch, Deliver
    <2>3. CASE Crash(p)
      BY <1>1, <1>2, <2>3 DEF Crash, Relist
    <2> QED
      BY <2>1, <2>2, <2>3
  <1> QED
    BY <1>1, <1>2, <1>3 DEF Seen

HeldKept == \A u \in Nat : HeldAs(u) => HeldAs(u)'

(* Nothing held is lost from sight unless it is given up.                  *)
LEMMA SightKept ==
  ASSUME NEW p, Sole(p), SightOK(p), HeldKept,
         UNCHANGED versions \/ \E o \in Objects : Write(o),
         UNCHANGED cached \/ Watch(p) \/ Crash(p)
  PROVE  SightOK(p)'
  <1>1. /\ RV \in Nat /\ Seen(p) \in 1 .. RV /\ versions \in Seq(Objects)
        /\ \A k \in 1 .. RV : versions[k] \in Objects
    BY SoleFacts DEF StoreT
  <1>2. /\ Seen(p) <= Seen(p)' /\ Seen(p)' \in Nat /\ RV <= RV' /\ RV' \in Nat
        /\ \A k \in 1 .. RV : versions'[k] = versions[k]
    BY SeenGrows
  <1> SUFFICES ASSUME NEW k \in Seen(p)' .. RV', Holding(versions'[k])
               PROVE  HeldAs(versions[k].uid)'
    BY DEF SightOK, Holding
  <1>3. CASE k \in 1 .. RV
    <2>1. /\ k \in Seen(p) .. RV /\ versions'[k] = versions[k] /\ versions[k] \in Objects
      BY <1>1, <1>2, <1>3
    <2>2. HeldAs(versions[k].uid)
      BY <2>1 DEF SightOK, Holding
    <2>3. versions[k].uid \in Nat
      BY <2>1 DEF Objects
    <2> QED
      BY <2>1, <2>2, <2>3 DEF HeldKept, HeldAs
  <1>4. CASE k \notin 1 .. RV
    <2>1. ~UNCHANGED versions
      BY <1>1, <1>2, <1>4 DEF RV
    <2>2. PICK o \in Objects : Write(o)
      BY <2>1
    <2>3. k = RV + 1 /\ versions'[k] = o /\ Current' = o
      BY <1>1, <1>2, <1>4, <2>2, WriteFacts
    <2> QED
      BY <2>3 DEF HeldAs, Holding
  <1> QED
    BY <1>3, <1>4

LEMMA SameHeld == UNCHANGED versions => HeldKept /\ Current' = Current
  BY DEF HeldKept, HeldAs, Current, RV

LEMMA LeaveGuard ==
  ASSUME NEW p, Sole(p), Leave(p)
  PROVE  HandsOK(p)' /\ pc'[p] = "idle"
  <1>1. pc'[p] = "idle" /\ rv'[p] = 1
    BY SoleFacts DEF Leave, GoTo
  <1>2. Seen(p)' >= 1
    <2>1. p \in Procs /\ StoreT'
      <3>1. TypeOK' => StoreT'
        BY DEF TypeOK, StoreT
      <3> QED
        BY <3>1 DEF Sole
    <2> QED
      BY <2>1 DEF StoreT, Seen, RV
  <1> QED
    BY <1>1, <1>2, CallNames DEF HandsOK, At, Working

(* The worker waits: its copy is still what it was.                        *)
LEMMA WaitGuard ==
  ASSUME NEW p, Sole(p), HandsOK(p), UNCHANGED <<pc, gco, rv>>, HeldKept,
         UNCHANGED versions \/ \E o \in Objects : Write(o),
         UNCHANGED cached \/ Watch(p) \/ Crash(p)
  PROVE  HandsOK(p)'
  <1>1. /\ Seen(p) <= Seen(p)' /\ Seen(p)' \in Nat /\ versions'[rv[p]] = versions[rv[p]]
        /\ rv[p] \in Nat /\ Seen(p) \in Nat /\ gco[p].uid \in Nat
    BY SeenGrows, SoleFacts DEF Objects
  <1>2. pc[p] \in Working => HeldAs(gco[p].uid)'
    BY <1>1 DEF HandsOK, HeldKept
  <1>3. rv[p] <= Seen(p)'
    BY <1>1 DEF HandsOK
  <1>4. UNCHANGED <<pc, gco, rv>>
    OBVIOUS
  <1> QED
    BY <1>1, <1>2, <1>3, <1>4 DEF HandsOK, At

LEMMA StartGuard ==
  ASSUME NEW p, Sole(p), GuardOK(p), ReconcileNothing(p) \/ Start(p)
  PROVE  GuardOK(p)'
  <1>1. UNCHANGED <<versions, cached>>
    BY DEF ReconcileNothing, Start
  <1>2. SightOK(p)' /\ HeldKept /\ Seen(p)' = Seen(p) /\ RV' = RV
    BY <1>1, SightKept, SameHeld DEF GuardOK, Seen, RV
  <1>3. CASE ReconcileNothing(p)
    <2>1. UNCHANGED <<pc, gco, rv>>
      BY <1>3 DEF ReconcileNothing, workerVars
    <2> QED
      BY <1>1, <1>2, <2>1, WaitGuard DEF GuardOK
  <1>4. CASE Start(p)
    <2>1. /\ gco'[p] = View(p) /\ rv'[p] = Seen(p) /\ ~View(p).gone
          /\ pc'[p] = IF View(p).deleting THEN "removeFinalizer"
                      ELSE IF View(p).finalizer THEN "deployment" ELSE "addFinalizer"
      BY <1>4, SoleFacts DEF Start, GoTo
    <2>2. View(p) = versions[Seen(p)] /\ Seen(p) \in Seen(p) .. RV /\ Seen(p) \in Nat
      BY SoleFacts
    <2>3. CASE View(p).deleting
      BY <1>1, <1>2, <2>1, <2>2, <2>3, CallNames DEF GuardOK, HandsOK, At, Working
    <2>4. CASE ~View(p).deleting /\ View(p).finalizer
      <3>1. HeldAs(View(p).uid)
        BY <2>1, <2>2, <2>4 DEF GuardOK, SightOK, Holding
      <3>2. HeldAs(gco[p].uid)'
        BY <1>1, <2>1, <3>1 DEF HeldAs, Current, RV
      <3>3. pc'[p] = "deployment"
        BY <2>1, <2>4
      <3> QED
        BY <1>2, <2>1, <2>2, <3>2, <3>3 DEF GuardOK, HandsOK, At
    <2>5. CASE ~View(p).deleting /\ ~View(p).finalizer
      BY <1>1, <1>2, <2>1, <2>2, <2>5, CallNames DEF GuardOK, HandsOK, At, Working
    <2> QED
      BY <2>3, <2>4, <2>5
  <1> QED
    BY <1>3, <1>4

(* The finalizer is written on what is current.                            *)
LEMMA FinalizerWrites ==
  ASSUME NEW p, Sole(p), GuardOK(p), Accepted(p),
         pc[p] \in {"addFinalizer", "removeFinalizer"}
  PROVE  /\ gco[p] = Current /\ Seen(p) = RV /\ ~Current.gone
         /\ FinalizerAdded(p) \in Objects /\ FinalizerRemoved(p) \in Objects
         /\ FinalizerAdded(p).uid = Current.uid /\ FinalizerAdded(p).finalizer
         /\ FinalizerAdded(p).gone = Current.gone /\ FinalizerAdded(p).gen = Current.gen
         /\ FinalizerAdded(p).spec = Current.spec
         /\ FinalizerAdded(p).observed = Current.observed
         /\ FinalizerAdded(p).deleting = Current.deleting
         /\ FinalizerRemoved(p).gone /\ FinalizerRemoved(p).uid = Current.uid
         /\ FinalizerRemoved(p).gen = Current.gen
         /\ FinalizerRemoved(p).spec = Current.spec
         /\ FinalizerRemoved(p).observed = Current.observed
         /\ At(p, "addFinalizer") => ~Current.finalizer
         /\ At(p, "removeFinalizer") => Current.deleting
  <1>1. gco[p] = Current /\ Seen(p) = RV /\ Current \in Objects /\ ~Current.gone
    BY SoleFacts DEF Accepted, GuardOK, HandsOK
  <1>2. FinalizerAdded(p) \in Objects /\ FinalizerRemoved(p) \in Objects
    BY FinalizerType, SoleFacts
  <1>3. /\ FinalizerAdded(p) = [Current EXCEPT !.finalizer = TRUE]
        /\ FinalizerRemoved(p) = [Current EXCEPT !.finalizer = FALSE, !.gone = TRUE]
    BY <1>1 DEF FinalizerAdded, FinalizerRemoved
  <1>4. /\ FinalizerAdded(p).uid = Current.uid /\ FinalizerAdded(p).finalizer
        /\ FinalizerAdded(p).gone = Current.gone /\ FinalizerAdded(p).gen = Current.gen
        /\ FinalizerAdded(p).spec = Current.spec
        /\ FinalizerAdded(p).observed = Current.observed
        /\ FinalizerAdded(p).deleting = Current.deleting
    BY <1>1, <1>3 DEF Objects
  <1>5. /\ FinalizerRemoved(p).gone /\ FinalizerRemoved(p).uid = Current.uid
        /\ FinalizerRemoved(p).gen = Current.gen
        /\ FinalizerRemoved(p).spec = Current.spec
        /\ FinalizerRemoved(p).observed = Current.observed
    BY <1>1, <1>3 DEF Objects
  <1>6. /\ At(p, "addFinalizer") => ~Current.finalizer
        /\ At(p, "removeFinalizer") => Current.deleting
    BY <1>1 DEF GuardOK, HandsOK
  <1> QED
    BY <1>1, <1>2, <1>4, <1>5, <1>6

LEMMA FinalizerGuard ==
  ASSUME NEW p, Sole(p), GuardOK(p),
         AddFinalizer(p) \/ RemoveFinalizer(p) \/ FinalizerRefused(p) \/ FinalizerFault(p)
  PROVE  GuardOK(p)'
  <1>1. UNCHANGED cached /\ pc[p] \in {"addFinalizer", "removeFinalizer"}
    BY DEF AddFinalizer, RemoveFinalizer, FinalizerRefused, FinalizerFault, At
  <1>2. CASE At(p, "addFinalizer") /\ Accepted(p) /\ Write(FinalizerAdded(p))
    <2>1. /\ FinalizerAdded(p) \in Objects /\ ~Current.finalizer /\ ~Current.gone
          /\ FinalizerAdded(p).finalizer /\ ~FinalizerAdded(p).gone
      BY <1>1, <1>2, FinalizerWrites
    <2>2. Current' = FinalizerAdded(p)
      BY <1>2, <2>1, WriteFacts, SoleFacts DEF StoreT
    <2>3. HeldKept
      BY <2>1 DEF HeldKept, HeldAs
    <2>4. SightOK(p)'
      BY <1>1, <1>2, <2>1, <2>3, SightKept DEF GuardOK
    <2>5. HandsOK(p)'
      <3>1. CASE Leave(p)
        BY <3>1, LeaveGuard
      <3>2. CASE AddFinalizer(p)
        <4>1. gco'[p] = FinalizerAdded(p) /\ pc'[p] = "deployment" /\ rv' = rv
          BY <3>2, SoleFacts DEF AddFinalizer, GoTo
        <4>2. Seen(p) <= Seen(p)' /\ Seen(p)' \in Nat /\ rv[p] \in Nat /\ Seen(p) \in Nat
          BY <1>1, <1>2, <2>1, SeenGrows, SoleFacts
        <4>3. HeldAs(gco[p].uid)'
          BY <2>1, <2>2, <4>1 DEF HeldAs
        <4>4. rv'[p] <= Seen(p)'
          BY <4>1, <4>2 DEF GuardOK, HandsOK
        <4> QED
          BY <4>1, <4>3, <4>4 DEF HandsOK, At
      <3> QED
        BY <1>2, <3>1, <3>2
           DEF RemoveFinalizer, FinalizerRefused, FinalizerFault, At, Return
    <2> QED
      BY <2>4, <2>5 DEF GuardOK
  <1>3. CASE At(p, "removeFinalizer") /\ Accepted(p) /\ Write(FinalizerRemoved(p)) /\ Leave(p)
    <2>1. /\ FinalizerRemoved(p) \in Objects /\ Seen(p) = RV /\ Current.deleting
          /\ FinalizerRemoved(p).gone
      BY <1>1, <1>3, FinalizerWrites
    <2>2. /\ RV \in Nat /\ RV' = RV + 1 /\ versions'[RV + 1] = FinalizerRemoved(p)
          /\ versions'[RV] = Current
      BY <1>3, <2>1, WriteFacts, SoleFacts DEF StoreT
    <2>3. RV <= Seen(p)' /\ Seen(p)' \in Nat
      BY <1>1, <1>3, <2>1, SeenGrows
    <2>4. SightOK(p)'
      <3> SUFFICES ASSUME NEW k \in Seen(p)' .. RV' PROVE ~Holding(versions'[k])
        BY DEF SightOK, Holding
      <3>1. k = RV \/ k = RV + 1
        BY <2>2, <2>3
      <3> QED
        BY <2>1, <2>2, <3>1 DEF Holding
    <2> QED
      BY <1>3, <2>4, LeaveGuard DEF GuardOK
  <1>4. CASE UNCHANGED versions /\ Leave(p)
    BY <1>1, <1>4, SameHeld, SightKept, LeaveGuard DEF GuardOK
  <1>5. \/ At(p, "addFinalizer") /\ Accepted(p) /\ Write(FinalizerAdded(p))
        \/ At(p, "removeFinalizer") /\ Accepted(p) /\ Write(FinalizerRemoved(p)) /\ Leave(p)
        \/ UNCHANGED versions /\ Leave(p)
    <2>1. CASE AddFinalizer(p)
      BY <2>1 DEF AddFinalizer
    <2>2. CASE RemoveFinalizer(p)
      BY <2>2 DEF RemoveFinalizer, Return
    <2>3. CASE FinalizerRefused(p)
      BY <2>3 DEF FinalizerRefused, Return
    <2>4. CASE FinalizerFault(p)
      BY <1>1, <2>4 DEF FinalizerFault, Return, At
    <2> QED
      BY <2>1, <2>2, <2>3, <2>4
  <1> QED
    BY <1>2, <1>3, <1>4, <1>5

LEMMA ApplyGuard ==
  ASSUME NEW p, Sole(p), GuardOK(p), Apply(p) \/ ApplyRefused(p) \/ ApplyFault(p)
  PROVE  GuardOK(p)'
  <1>1. UNCHANGED <<versions, cached>> /\ pc[p] \in Calls
    BY DEF Apply, ApplyRefused, ApplyFault
  <1>2. SightOK(p)' /\ HeldKept /\ Seen(p)' = Seen(p) /\ RV' = RV /\ Current' = Current
    BY <1>1, SightKept, SameHeld DEF GuardOK, Seen, RV
  <1>3. CASE Leave(p)
    BY <1>2, <1>3, LeaveGuard DEF GuardOK
  <1>4. CASE Apply(p)
    <2>1. pc'[p] = NextCall(pc[p]) /\ UNCHANGED <<gco, rv>>
      BY <1>4, SoleFacts DEF Apply, GoTo
    <2>2. pc'[p] \in Calls \cup {"statusGet"}
      BY <1>1, <2>1, CallNames
    <2>3. HeldAs(gco[p].uid)
      BY <1>1 DEF GuardOK, HandsOK, Working
    <2>4. HeldAs(gco[p].uid)'
      BY <1>2, <2>1, <2>3 DEF HeldAs
    <2>5. pc'[p] \notin {"addFinalizer", "removeFinalizer"}
      BY <2>2, CallNames
    <2> QED
      BY <1>2, <2>1, <2>4, <2>5 DEF GuardOK, HandsOK, At
  <1> QED
    BY <1>3, <1>4 DEF ApplyRefused, ApplyFault, Return

(* The status is written on what is current.                               *)
LEMMA StatusWrites ==
  ASSUME NEW p, Sole(p), GuardOK(p), At(p, "statusPut"), Accepted(p), StoreStatus(p)
  PROVE  /\ UNCHANGED versions \/ Write(Ready(p))
         /\ Ready(p) \in Objects /\ Current' = Ready(p)
         /\ Ready(p).uid = Current.uid /\ Ready(p).gone = Current.gone
         /\ Ready(p).finalizer = Current.finalizer /\ Ready(p).deleting = Current.deleting
         /\ Ready(p).gen = Current.gen /\ Ready(p).spec = Current.spec
         /\ Ready(p).observed = gco[p].gen
         /\ Seen(p) = RV /\ ~Current.gone
  <1>1. Ready(p) \in Objects
    BY ReadyType, SoleFacts
  <1>2. Ready(p) = [Current EXCEPT !.observed = gco[p].gen]
    BY SoleFacts DEF Ready, Observed, Accepted
  <1>3. Current' = Ready(p) /\ (UNCHANGED versions \/ Write(Ready(p)))
    <2>1. CASE Ready(p) = Current /\ UNCHANGED versions
      BY <2>1, SameHeld
    <2>2. CASE Write(Ready(p))
      BY <1>1, <2>2, WriteFacts, SoleFacts DEF StoreT
    <2> QED
      BY <2>1, <2>2 DEF StoreStatus
  <1>4. Seen(p) = RV /\ ~Current.gone
    BY SoleFacts DEF GuardOK, HandsOK, Accepted
  <1>5. /\ Ready(p).uid = Current.uid /\ Ready(p).gone = Current.gone
        /\ Ready(p).finalizer = Current.finalizer /\ Ready(p).deleting = Current.deleting
        /\ Ready(p).gen = Current.gen /\ Ready(p).spec = Current.spec
        /\ Ready(p).observed = gco[p].gen
    BY <1>2, SoleFacts DEF Objects
  <1> QED
    BY <1>1, <1>3, <1>4, <1>5

LEMMA StatusGuard ==
  ASSUME NEW p, Sole(p), GuardOK(p),
         StatusGet(p) \/ StatusOk(p) \/ StatusRefused(p) \/ StatusFault(p)
  PROVE  GuardOK(p)'
  <1>1. UNCHANGED cached /\ pc[p] \in {"statusGet", "statusPut"}
    BY DEF StatusGet, StatusOk, StatusRefused, StatusFault, At
  <1>2. \/ UNCHANGED versions
        \/ At(p, "statusPut") /\ Accepted(p) /\ StoreStatus(p)
    BY DEF StatusGet, StatusOk, StatusRefused, StatusFault
  <1>3. HeldKept /\ (UNCHANGED versions \/ \E o \in Objects : Write(o))
    <2>1. CASE UNCHANGED versions
      BY <2>1, SameHeld
    <2>2. CASE At(p, "statusPut") /\ Accepted(p) /\ StoreStatus(p)
      BY <2>2, StatusWrites DEF HeldKept, HeldAs
    <2> QED
      BY <1>2, <2>1, <2>2
  <1>4. SightOK(p)'
    BY <1>1, <1>3, SightKept DEF GuardOK
  <1>5. HandsOK(p)'
    <2>1. CASE Leave(p)
      BY <2>1, LeaveGuard
    <2>2. CASE /\ UNCHANGED <<versions, gco>> /\ rv'[p] <= Seen(p)
               /\ pc'[p] \in {"statusGet", "statusPut"}
      <3>1. HeldAs(gco[p].uid) /\ Current' = Current /\ Seen(p)' = Seen(p)
        BY <1>1, <2>2, SameHeld DEF GuardOK, HandsOK, Working, Seen, RV
      <3>2. HeldAs(gco[p].uid)'
        BY <2>2, <3>1 DEF HeldAs
      <3> QED
        BY <2>2, <3>1, <3>2 DEF HandsOK, At
    <2>3. CASE StatusGet(p)
      <3>1. CASE View(p).gone
        BY <2>1, <2>3, <3>1 DEF StatusGet, Return
      <3>2. CASE ~View(p).gone
        <4>1. rv'[p] = Seen(p) /\ pc'[p] = "statusPut" /\ UNCHANGED <<versions, gco>>
          BY <2>3, <3>2, SoleFacts DEF StatusGet, GoTo
        <4>2. rv'[p] <= Seen(p)
          BY <4>1, SoleFacts
        <4> QED
          BY <2>2, <4>1, <4>2
      <3> QED
        BY <3>1, <3>2
    <2>4. CASE StatusRefused(p)
      <3>1. rv[p] <= Seen(p)
        BY DEF GuardOK, HandsOK
      <3> QED
        BY <2>1, <2>2, <2>4, <3>1, SoleFacts DEF StatusRefused, Return, GoTo
    <2> QED
      BY <2>1, <2>3, <2>4 DEF StatusOk, StatusFault, Return
  <1> QED
    BY <1>4, <1>5 DEF GuardOK

(* What the user writes.                                                   *)
LEMMA UserWrites ==
  ASSUME NEW p, Sole(p), UserEdit \/ UserDelete \/ UserRecreate
  PROVE  \E o \in Objects :
            /\ Write(o)
            /\ \/ /\ UserEdit /\ ~Current.gone /\ o.uid = Current.uid
                  /\ o.finalizer = Current.finalizer /\ ~o.gone
                  /\ o.gen = Current.gen + 1 /\ o.observed = Current.observed
                  /\ o.deleting = Current.deleting
               \/ /\ UserDelete /\ ~Current.gone /\ o.uid = Current.uid
                  /\ o.finalizer = Current.finalizer /\ (Current.finalizer => ~o.gone)
                  /\ o.gen = Current.gen + 1 /\ o.observed = Current.observed
                  /\ o.deleting
               \/ /\ UserRecreate /\ Current.gone /\ o.uid = Current.uid + 1
                  /\ ~o.finalizer /\ ~o.gone /\ o.gen = 1 /\ o.observed = 0
  <1>1. Current \in Objects
    BY SoleFacts
  <1>2. CASE UserEdit
    <2>1. PICK s \in Specs : Write(Edited(Current, s))
      BY <1>2 DEF UserEdit, Edited
    <2>2. Edited(Current, s) \in Objects
      BY <1>1, UserTypes
    <2>3. /\ Edited(Current, s).uid = Current.uid
          /\ Edited(Current, s).finalizer = Current.finalizer
          /\ Edited(Current, s).gone = Current.gone
          /\ Edited(Current, s).gen = Current.gen + 1
          /\ Edited(Current, s).observed = Current.observed
          /\ Edited(Current, s).deleting = Current.deleting
      BY <1>1 DEF Edited, Objects
    <2>4. ~Current.gone
      BY <1>2 DEF UserEdit
    <2> QED
      BY <1>2, <2>1, <2>2, <2>3, <2>4
  <1>3. CASE UserDelete
    <2>1. Write(Deleted(Current)) /\ ~Current.gone
      BY <1>3 DEF UserDelete, Deleted
    <2>2. Deleted(Current) \in Objects
      BY <1>1, UserTypes, OperatorAssumption
    <2>3. /\ Deleted(Current).uid = Current.uid
          /\ Deleted(Current).finalizer = Current.finalizer
          /\ Current.finalizer => ~Deleted(Current).gone
          /\ Deleted(Current).gen = Current.gen + 1
          /\ Deleted(Current).observed = Current.observed
          /\ Deleted(Current).deleting
      BY <1>1 DEF Deleted, Objects
    <2> QED
      BY <1>3, <2>1, <2>2, <2>3
  <1>4. CASE UserRecreate
    <2>1. PICK s \in Specs : Write(NewObject(Current.uid + 1, s))
      BY <1>4 DEF UserRecreate
    <2> DEFINE o == NewObject(Current.uid + 1, s)
    <2>2. o \in Objects
      BY <1>1, UserTypes
    <2>3. o.uid = Current.uid + 1 /\ ~o.finalizer /\ ~o.gone /\ o.gen = 1 /\ o.observed = 0
      BY DEF NewObject
    <2>4. Current.gone
      BY <1>4 DEF UserRecreate
    <2> HIDE DEF o
    <2> QED
      BY <1>4, <2>1, <2>2, <2>3, <2>4 DEF o
  <1> QED
    BY <1>2, <1>3, <1>4

LEMMA EnvironmentGuard ==
  ASSUME NEW p, Sole(p), GuardOK(p),
         \/ Watch(p) \/ WatchDeployment(p) \/ Timer(p) \/ Crash(p) \/ Resync(p)
         \/ Environment \/ UNCHANGED vars
  PROVE  GuardOK(p)'
  <1>1. CASE UserEdit \/ UserDelete \/ UserRecreate
    <2>1. UNCHANGED <<cached, pc, gco, rv>>
      BY <1>1 DEF UserEdit, UserDelete, UserRecreate, workerVars
    <2>2. PICK o \in Objects :
              /\ Write(o)
              /\ \/ o.uid = Current.uid /\ o.finalizer = Current.finalizer
                    /\ (Current.finalizer => ~o.gone)
                 \/ Current.gone
      BY <1>1, UserWrites
    <2>3. Current' = o
      BY <2>2, WriteFacts, SoleFacts DEF StoreT
    <2>4. HeldKept
      BY <2>2, <2>3 DEF HeldKept, HeldAs
    <2> QED
      BY <2>1, <2>2, <2>4, SightKept, WaitGuard DEF GuardOK
  <1>2. CASE Crash(p)
    <2>1. UNCHANGED versions /\ Leave(p)
      BY <1>2 DEF Crash, Relist
    <2> QED
      BY <1>2, <2>1, SameHeld, SightKept, LeaveGuard DEF GuardOK
  <1>3. CASE /\ UNCHANGED <<versions, pc, gco, rv>>
             /\ UNCHANGED cached \/ Watch(p)
    BY <1>3, SameHeld, SightKept, WaitGuard DEF GuardOK
  <1>4. \/ UserEdit \/ UserDelete \/ UserRecreate \/ Crash(p)
        \/ UNCHANGED <<versions, pc, gco, rv>> /\ (UNCHANGED cached \/ Watch(p))
    BY DEF Watch, WatchDeployment, Timer, Resync, Environment, Collect, OthersRemove,
           OthersScale, Lose, Deliver, TimerFire, vars, kubeVars, workerVars
  <1> QED
    BY <1>1, <1>2, <1>3, <1>4

LEMMA InitGuard == ASSUME Init, NEW p \in Procs PROVE GuardOK(p)
  <1>1. PICK s \in Specs : KubeInit(NewObject(1, s))
    BY DEF Init
  <1>2. /\ RV = 1 /\ Seen(p) = 1 /\ versions[1] = NewObject(1, s)
        /\ ~NewObject(1, s).finalizer
    BY <1>1 DEF KubeInit, RV, Seen, NewObject
  <1>3. pc[p] = "idle" /\ rv[p] = 1
    BY DEF Init
  <1>4. SightOK(p)
    BY <1>2 DEF SightOK, Holding
  <1>5. HandsOK(p)
    BY <1>2, <1>3, CallNames DEF HandsOK, At, Working
  <1> QED
    BY <1>4, <1>5 DEF GuardOK

(* The actions of one process.                                             *)
Acts(p) ==
    \/ ReconcileNothing(p) \/ Start(p)
    \/ AddFinalizer(p) \/ RemoveFinalizer(p) \/ FinalizerRefused(p) \/ FinalizerFault(p)
    \/ Apply(p) \/ ApplyRefused(p) \/ ApplyFault(p)
    \/ StatusGet(p) \/ StatusOk(p) \/ StatusRefused(p) \/ StatusFault(p)
    \/ Watch(p) \/ WatchDeployment(p) \/ Timer(p) \/ Crash(p) \/ Resync(p)
    \/ Environment \/ UNCHANGED vars

LEMMA SoleActs ==
  ASSUME NEW p, Procs = {p}, [Next]_vars
  PROVE  Acts(p)
  BY DEF Next, Step, Faulty, Acts

LEMMA GuardNext ==
  ASSUME NEW p, Sole(p), GuardOK(p), Acts(p)
  PROVE  GuardOK(p)'
  BY StartGuard, FinalizerGuard, ApplyGuard, StatusGuard, EnvironmentGuard DEF Acts

(* The finalizer keeps a resource while the process works on it: the       *)
(* invariant behind the three theorems below.                              *)
Guarded == \A p \in Procs : GuardOK(p)

LEMMA GuardInvariance == OneProcess => (Spec => []Guarded)
  <1> SUFFICES ASSUME OneProcess PROVE Spec => []Guarded
    OBVIOUS
  <1>1. Init => Guarded
    BY InitGuard DEF Guarded
  <1>2. TypeOK /\ TypeOK' /\ Guarded /\ [Next]_vars => Guarded'
    <2> SUFFICES ASSUME TypeOK, TypeOK', Guarded, [Next]_vars PROVE Guarded'
      OBVIOUS
    <2>1. PICK p : Procs = {p}
      BY DEF OneProcess
    <2>2. Sole(p) /\ GuardOK(p) /\ Acts(p)
      BY <2>1, SoleActs DEF Sole, Guarded
    <2>3. GuardOK(p)'
      BY <2>2, GuardNext
    <2> QED
      BY <2>1, <2>3 DEF Guarded
  <1> QED
    BY <1>1, <1>2, TypeCorrect, PTL DEF Spec

-----------------------------------------------------------------------------
(* What a step does to the owned objects.                                  *)

LEMMA ExecutedShape ==
  ASSUME NEW p, Sole(p), pc[p] \in Calls, Executed(p)
  PROVE  /\ Target(p) \in Ids
         /\ \A id \in Ids : id # Target(p) => objs'[id] = objs[id]
         /\ \/ objs' = objs
            \/ CallMade(p) /\ Became(Target(p), gco[p], objs'[Target(p)])
  <1>1. /\ Target(p) \in Ids
        /\ ~CallMade(p) => Effect(p) = objs
        /\ CallMade(p) =>
              \E o : Became(Target(p), gco[p], o) /\ Effect(p) = Put(Target(p), o)
    BY EffectShape, SoleFacts
  <1>2. objs' = Effect(p) /\ objs \in [Ids -> Owned]
    BY SoleFacts DEF Executed, OwnedT
  <1>3. CASE ~CallMade(p)
    BY <1>1, <1>2, <1>3
  <1>4. CASE CallMade(p)
    <2>1. PICK o : Became(Target(p), gco[p], o) /\ Effect(p) = Put(Target(p), o)
      BY <1>1, <1>4
    <2>2. /\ objs'[Target(p)] = o
          /\ \A id \in Ids : id # Target(p) => objs'[id] = objs[id]
      BY <1>1, <1>2, <2>1 DEF Put
    <2> QED
      BY <1>1, <1>4, <2>1, <2>2
  <1> QED
    BY <1>3, <1>4

LEMMA OwnedSteps ==
  ASSUME NEW p, Sole(p), Acts(p)
  PROVE  \/ UNCHANGED <<objs, drift>>
         \/ pc[p] \in Calls /\ Executed(p) /\ (Apply(p) \/ ApplyFault(p))
         \/ \E D \in SUBSET Ids : Lose(D) /\ (Collect \/ OthersRemove)
         \/ OthersScale
  <1>1. CASE Apply(p) \/ ApplyFault(p)
    BY <1>1 DEF Apply, ApplyFault
  <1>2. CASE Collect
    BY <1>2 DEF Collect
  <1>3. CASE OthersRemove
    <2>1. PICK id \in Ids : Lose({id})
      BY <1>3 DEF OthersRemove
    <2> QED
      BY <1>3, <2>1
  <1>4. CASE \/ ReconcileNothing(p) \/ Start(p)
             \/ AddFinalizer(p) \/ RemoveFinalizer(p) \/ FinalizerRefused(p)
             \/ FinalizerFault(p) \/ ApplyRefused(p)
    BY <1>4 DEF ReconcileNothing, Start, AddFinalizer, RemoveFinalizer, FinalizerRefused,
           FinalizerFault, ApplyRefused, ownedVars
  <1>5. CASE \/ StatusGet(p) \/ StatusOk(p) \/ StatusRefused(p) \/ StatusFault(p)
             \/ Watch(p) \/ WatchDeployment(p) \/ Timer(p) \/ Crash(p) \/ Resync(p)
             \/ UNCHANGED vars
    BY <1>5 DEF StatusGet, StatusOk, StatusRefused, StatusFault, Watch, WatchDeployment,
           Timer, Crash, Resync, ownedVars, vars
  <1>6. CASE UserEdit \/ UserDelete \/ UserRecreate
    BY <1>6 DEF UserEdit, UserDelete, UserRecreate, ownedVars
  <1> QED
    BY <1>1, <1>2, <1>3, <1>4, <1>5, <1>6 DEF Acts, Environment

LEMMA CreatedForCurrent ==
  ASSUME NEW p, Sole(p), GuardOK(p), Acts(p), NEW id \in Ids,
         objs[id] = Absent, objs'[id] # Absent
  PROVE  ~Current.gone /\ objs'[id].owner = Current.uid
  <1>1. ~Exists(id)
    <2>1. Absent.owner = 0
      BY DEF Absent
    <2> QED
      BY <2>1 DEF Exists
  <1>2. CASE UNCHANGED <<objs, drift>>
    BY <1>2
  <1>3. CASE pc[p] \in Calls /\ Executed(p)
    <2>1. id = Target(p) /\ Became(id, gco[p], objs'[id])
      BY <1>3, ExecutedShape
    <2>2. objs'[id].owner = gco[p].uid
      BY <1>1, <2>1 DEF Became
    <2>3. HeldAs(gco[p].uid)
      BY <1>3 DEF GuardOK, HandsOK, Working
    <2> QED
      BY <2>2, <2>3 DEF HeldAs
  <1>4. CASE \E D \in SUBSET Ids : Lose(D)
    BY <1>4 DEF Lose
  <1>5. CASE OthersScale
    <2>1. objs \in [Ids -> Owned]
      BY SoleFacts DEF OwnedT
    <2>2. id = Deployment
      BY <1>5, <2>1 DEF OthersScale
    <2> QED
      BY <1>1, <1>5, <2>2 DEF OthersScale
  <1> QED
    BY <1>2, <1>3, <1>4, <1>5, OwnedSteps

(* Nothing is made for a resource that is gone, or for the one that had    *)
(* its name before: createOrUpdate... works on a copy that may be old, but *)
(* it has read the finalizer, and only the process itself removes that.    *)
THEOREM NothingIsMadeForTheGone == OneProcess => (Spec => NothingForTheGone)
  <1> SUFFICES ASSUME OneProcess PROVE Spec => NothingForTheGone
    OBVIOUS
  <1>1. ASSUME TypeOK, TypeOK', Guarded, [Next]_vars, NEW id \in Ids,
               objs[id] = Absent, objs'[id] # Absent
        PROVE  ~Current.gone /\ objs'[id].owner = Current.uid
    <2>1. PICK p : Procs = {p}
      BY DEF OneProcess
    <2>2. Sole(p) /\ GuardOK(p) /\ Acts(p)
      BY <1>1, <2>1, SoleActs DEF Sole, Guarded
    <2> QED
      BY <1>1, <2>2, CreatedForCurrent
  <1>2. TypeOK /\ TypeOK' /\ Guarded /\ [Next]_vars =>
          [\A id \in Ids :
              objs[id] = Absent /\ objs'[id] # Absent
              => ~Current.gone /\ objs'[id].owner = Current.uid]_vars
    BY <1>1
  <1> QED
    BY <1>2, TypeCorrect, GuardInvariance, PTL DEF Spec, NothingForTheGone

-----------------------------------------------------------------------------
(* Generations.                                                            *)

(* The version o follows Current: the same generation with the same status,*)
(* the next generation, or another resource.                               *)
Follows(o) ==
    \/ /\ o.uid = Current.uid /\ o.gen = Current.gen /\ o.spec = Current.spec
       /\ o.observed = Current.observed /\ (Current.gone => o.gone)
    \/ o.uid = Current.uid /\ o.gen = Current.gen + 1 /\ o.observed = Current.observed
    \/ o.uid = Current.uid + 1 /\ o.observed = 0

StatusWritten(p) == At(p, "statusPut") /\ Accepted(p) /\ StoreStatus(p)

LEMMA VersionSteps ==
  ASSUME NEW p, Sole(p), GuardOK(p), Acts(p)
  PROVE  /\ \/ UNCHANGED versions
            \/ \E o \in Objects : Write(o) /\ Follows(o)
            \/ StatusWritten(p) /\ UNCHANGED cached
         /\ UNCHANGED cached \/ Watch(p) \/ Crash(p)
  <1>1. CASE AddFinalizer(p) \/ RemoveFinalizer(p) \/ FinalizerFault(p)
    <2>1. UNCHANGED cached /\ pc[p] \in {"addFinalizer", "removeFinalizer"}
      BY <1>1 DEF AddFinalizer, RemoveFinalizer, FinalizerFault, At
    <2>2. \/ UNCHANGED versions
          \/ Accepted(p) /\ (Write(FinalizerAdded(p)) \/ Write(FinalizerRemoved(p)))
      BY <1>1 DEF AddFinalizer, RemoveFinalizer, FinalizerFault
    <2>3. CASE Accepted(p)
      <3>1. FinalizerAdded(p) \in Objects /\ Follows(FinalizerAdded(p))
        BY <2>1, <2>3, FinalizerWrites DEF Follows
      <3>2. FinalizerRemoved(p) \in Objects /\ Follows(FinalizerRemoved(p))
        BY <2>1, <2>3, FinalizerWrites DEF Follows
      <3> QED
        BY <2>1, <2>2, <3>1, <3>2
    <2> QED
      BY <2>1, <2>2, <2>3
  <1>2. CASE StatusOk(p) \/ StatusFault(p)
    BY <1>2 DEF StatusOk, StatusFault, StatusWritten
  <1>3. CASE UserEdit \/ UserDelete \/ UserRecreate
    <2>1. UNCHANGED cached
      BY <1>3 DEF UserEdit, UserDelete, UserRecreate
    <2>2. \E o \in Objects : Write(o) /\ Follows(o)
      BY <1>3, UserWrites DEF Follows
    <2> QED
      BY <2>1, <2>2
  <1>4. CASE \/ ReconcileNothing(p) \/ Start(p) \/ FinalizerRefused(p)
             \/ Apply(p) \/ ApplyRefused(p) \/ ApplyFault(p)
             \/ StatusGet(p) \/ StatusRefused(p)
    BY <1>4 DEF ReconcileNothing, Start, FinalizerRefused, Apply, ApplyRefused, ApplyFault,
           StatusGet, StatusRefused
  <1>5. CASE \/ Watch(p) \/ WatchDeployment(p) \/ Timer(p) \/ Crash(p) \/ Resync(p)
             \/ Collect \/ OthersRemove \/ OthersScale \/ UNCHANGED vars
    BY <1>5 DEF Watch, WatchDeployment, Timer, Crash, Resync, Collect, OthersRemove,
           OthersScale, Lose, Deliver, TimerFire, Relist, vars, kubeVars
  <1> QED
    BY <1>1, <1>2, <1>3, <1>4, <1>5 DEF Acts, Environment

NewerKept == \A o \in Objects : NotNewer(o) => NotNewer(o)'

(* A version that follows, or none: what was not newer stays so, and what  *)
(* is observed was observed already.                                       *)
SameObserved ==
    Observing' => /\ Observing /\ Current'.uid = Current.uid
                  /\ Current'.gen = Current.gen /\ Current'.spec = Current.spec

LEMMA FollowsFacts ==
  ASSUME NEW p, Sole(p), NewestOK(p),
         UNCHANGED versions \/ \E o \in Objects : Write(o) /\ Follows(o)
  PROVE  /\ NewerKept /\ SameObserved /\ Current'.observed <= Current'.gen
         /\ NotNewer(Current)' /\ Current' \in Objects
  <1>1. Current \in Objects /\ Current.observed <= Current.gen
    BY SoleFacts DEF NewestOK
  <1>2. Current.uid \in Nat /\ Current.gen \in Nat /\ Current.observed \in Nat
    BY <1>1 DEF Objects
  <1>3. CASE UNCHANGED versions
    <2>1. Current' = Current
      BY <1>3, SameHeld
    <2>2. Observing' <=> Observing
      BY <2>1 DEF Observing
    <2>3. NewerKept
      BY <2>1 DEF NewerKept, NotNewer
    <2> QED
      BY <1>1, <1>2, <2>1, <2>2, <2>3 DEF SameObserved, NotNewer
  <1>4. CASE \E o \in Objects : Write(o) /\ Follows(o)
    <2>1. PICK o \in Objects : Write(o) /\ Follows(o)
      BY <1>4
    <2>2. Current' = o
      BY <2>1, WriteFacts, SoleFacts DEF StoreT
    <2>3. o.uid \in Nat /\ o.gen \in Nat \ {0} /\ o.observed \in Nat
      BY <2>1 DEF Objects
    <2>4. NewerKept
      <3> SUFFICES ASSUME NEW n \in Objects, NotNewer(n) PROVE NotNewer(n)'
        BY DEF NewerKept
      <3>1. n.uid \in Nat /\ n.gen \in Nat
        BY DEF Objects
      <3>2. CASE o.uid = Current.uid /\ o.gen = Current.gen /\ o.spec = Current.spec
        BY <2>2, <3>2 DEF NotNewer
      <3>3. CASE o.uid = Current.uid /\ o.gen = Current.gen + 1
        BY <1>2, <2>2, <3>1, <3>3 DEF NotNewer
      <3>4. CASE o.uid = Current.uid + 1
        BY <1>2, <2>2, <3>1, <3>4 DEF NotNewer
      <3> QED
        BY <2>1, <3>2, <3>3, <3>4 DEF Follows
    <2>5. SameObserved /\ o.observed <= o.gen
      <3>1. CASE /\ o.uid = Current.uid /\ o.gen = Current.gen /\ o.spec = Current.spec
                 /\ o.observed = Current.observed /\ (Current.gone => o.gone)
        BY <1>1, <2>2, <3>1 DEF SameObserved, Observing
      <3>2. CASE /\ o.uid = Current.uid /\ o.gen = Current.gen + 1
                 /\ o.observed = Current.observed
        <4>1. o.observed <= o.gen /\ o.observed # o.gen
          BY <1>1, <1>2, <3>2
        <4> QED
          BY <2>2, <4>1 DEF SameObserved, Observing
      <3>3. CASE o.observed = 0
        BY <2>2, <2>3, <3>3 DEF SameObserved, Observing
      <3> QED
        BY <2>1, <3>1, <3>2, <3>3 DEF Follows
    <2>6. NotNewer(Current)'
      BY <2>2, <2>3 DEF NotNewer
    <2> QED
      BY <2>1, <2>2, <2>4, <2>5, <2>6
  <1> QED
    BY <1>3, <1>4

LEMMA FollowsNewest ==
  ASSUME NEW p, Sole(p), NewestOK(p),
         UNCHANGED versions \/ \E o \in Objects : Write(o) /\ Follows(o),
         UNCHANGED cached \/ Watch(p) \/ Crash(p)
  PROVE  NewestOK(p)'
  <1>1. /\ RV \in Nat /\ Seen(p) \in 1 .. RV /\ versions \in Seq(Objects)
        /\ \A k \in 1 .. RV : versions[k] \in Objects
    BY SoleFacts DEF StoreT
  <1>2. /\ Seen(p) <= Seen(p)' /\ Seen(p)' \in Nat /\ RV <= RV' /\ RV' \in Nat
        /\ \A k \in 1 .. RV : versions'[k] = versions[k]
    BY SeenGrows
  <1>3. NewerKept /\ SameObserved /\ Current'.observed <= Current'.gen
        /\ NotNewer(Current)'
    BY FollowsFacts
  <1>4. \A k \in 1 .. RV' : k \in 1 .. RV \/ versions'[k] = Current'
    <2>1. CASE UNCHANGED versions
      BY <2>1 DEF RV
    <2>2. CASE \E o \in Objects : Write(o)
      BY <1>1, <2>2, WriteFacts
    <2> QED
      BY <2>1, <2>2
  <1>5. ASSUME NEW k \in 1 .. RV'
        PROVE  NotNewer(versions[k])'
    <2>1. CASE k \in 1 .. RV
      <3>1. versions[k] \in Objects /\ NotNewer(versions[k]) /\ versions'[k] = versions[k]
        BY <1>1, <1>2, <2>1 DEF NewestOK
      <3> QED
        BY <1>3, <3>1 DEF NewerKept
    <2>2. CASE versions'[k] = Current'
      BY <1>3, <2>2 DEF NotNewer
    <2> QED
      BY <1>4, <2>1, <2>2
  <1>6. ASSUME Observing', NEW k \in Seen(p)' .. RV', versions'[k].uid = Current'.uid
        PROVE  versions'[k].gen = Current'.gen
    <2>1. CASE k \in 1 .. RV
      <3>1. k \in Seen(p) .. RV /\ versions'[k] = versions[k]
        BY <1>1, <1>2, <2>1, <1>6
      <3> QED
        BY <1>3, <1>6, <3>1 DEF SameObserved, NewestOK
    <2>2. CASE versions'[k] = Current'
      BY <2>2
    <2>3. k \in 1 .. RV'
      BY <1>1, <1>2, <1>6
    <2> QED
      BY <1>4, <2>1, <2>2, <2>3
  <1> QED
    BY <1>3, <1>5, <1>6 DEF NewestOK

(* The status is written by a process that has seen the current version.   *)
LEMMA StatusNewest ==
  ASSUME NEW p, Sole(p), GuardOK(p), GenerationOK(p), StatusWritten(p), UNCHANGED cached
  PROVE  NewestOK(p)'
  <1>1. /\ UNCHANGED versions \/ Write(Ready(p))
        /\ Ready(p) \in Objects /\ Current' = Ready(p)
        /\ Ready(p).uid = Current.uid /\ Ready(p).gen = Current.gen
        /\ Ready(p).spec = Current.spec /\ Ready(p).observed = gco[p].gen
        /\ Seen(p) = RV /\ At(p, "statusPut")
    BY StatusWrites DEF StatusWritten
  <1>2. pc[p] \in Working
    BY <1>1 DEF At, Working
  <1>3. gco[p].gen <= Current.gen
    BY <1>2 DEF GuardOK, HandsOK, HeldAs, GenerationOK, GraspOK, NotNewer
  <1>4. /\ RV \in Nat /\ RV >= 1 /\ versions \in Seq(Objects) /\ Current = versions[RV]
    BY SoleFacts DEF StoreT
  <1>5. /\ RV' \in {RV, RV + 1} /\ RV <= Seen(p)' /\ Seen(p)' \in Nat
        /\ \A k \in 1 .. RV : versions'[k] = versions[k]
    <2>1. RV <= Seen(p)' /\ Seen(p)' \in Nat /\ \A k \in 1 .. RV : versions'[k] = versions[k]
      BY <1>1, SeenGrows
    <2>2. RV' \in {RV, RV + 1}
      <3>1. CASE UNCHANGED versions
        BY <3>1 DEF RV
      <3>2. CASE Write(Ready(p))
        BY <1>1, <1>4, <3>2, WriteFacts
      <3> QED
        BY <1>1, <3>1, <3>2
    <2> QED
      BY <2>1, <2>2
  <1>6. Current' = versions'[RV']
    BY DEF Current
  <1>7. \A k \in 1 .. RV' : k \in 1 .. RV \/ versions'[k] = Current'
    BY <1>4, <1>5, <1>6
  <1>8. \A k \in 1 .. RV' : NotNewer(versions[k])'
    <2> SUFFICES ASSUME NEW k \in 1 .. RV' PROVE NotNewer(versions[k])'
      OBVIOUS
    <2>1. CASE k \in 1 .. RV
      <3>1. NotNewer(versions[k]) /\ versions'[k] = versions[k]
        BY <1>5, <2>1 DEF GenerationOK, NewestOK
      <3> QED
        BY <1>1, <3>1 DEF NotNewer
    <2>2. CASE versions'[k] = Current'
      <3>1. Current'.uid \in Nat /\ Current'.gen \in Nat
        BY <1>1 DEF Objects
      <3> QED
        BY <2>2, <3>1 DEF NotNewer
    <2> QED
      BY <1>7, <2>1, <2>2
  <1>9. \A k \in Seen(p)' .. RV' : versions'[k].gen = Current'.gen
    <2> SUFFICES ASSUME NEW k \in Seen(p)' .. RV' PROVE versions'[k].gen = Current'.gen
      OBVIOUS
    <2>1. k = RV \/ k = RV'
      BY <1>4, <1>5
    <2>2. versions'[RV] = Current
      BY <1>4, <1>5
    <2> QED
      BY <1>1, <1>6, <2>1, <2>2
  <1> QED
    BY <1>1, <1>3, <1>8, <1>9 DEF NewestOK

(* How the worker comes to its copy.                                       *)
LEMMA WorkerSteps ==
  ASSUME NEW p, Sole(p), Acts(p)
  PROVE  \/ pc'[p] \notin Working
         \/ Start(p) /\ gco'[p] = View(p) /\ pc'[p] = "deployment"
         \/ AddFinalizer(p) /\ gco'[p] = Current' /\ pc'[p] = "deployment"
         \/ /\ pc[p] \in Working /\ gco'[p] = gco[p]
            /\ UNCHANGED versions \/ \E o \in Objects : Write(o) /\ Follows(o)
  <1>1. ASSUME Leave(p) PROVE pc'[p] \notin Working
    <2>1. pc'[p] = "idle"
      BY <1>1, SoleFacts DEF Leave, GoTo
    <2> QED
      BY <2>1, CallNames DEF Working
  <1>2. CASE RemoveFinalizer(p) \/ FinalizerRefused(p) \/ FinalizerFault(p)
             \/ ApplyRefused(p) \/ ApplyFault(p) \/ StatusOk(p) \/ StatusFault(p) \/ Crash(p)
    BY <1>1, <1>2 DEF RemoveFinalizer, FinalizerRefused, FinalizerFault, ApplyRefused,
           ApplyFault, StatusOk, StatusFault, Crash, Return
  <1>3. CASE Start(p)
    <2>1. pc'[p] \in {"removeFinalizer", "deployment", "addFinalizer"} /\ gco'[p] = View(p)
      BY <1>3, SoleFacts DEF Start, GoTo
    <2>2. {"removeFinalizer", "addFinalizer"} \cap Working = {}
      BY CallNames DEF Working
    <2> QED
      BY <1>3, <2>1, <2>2
  <1>4. CASE AddFinalizer(p)
    <2>1. gco'[p] = FinalizerAdded(p) /\ pc'[p] = "deployment" /\ Write(FinalizerAdded(p))
      BY <1>4, SoleFacts DEF AddFinalizer, GoTo
    <2>2. Current' = FinalizerAdded(p)
      BY <2>1, WriteFacts, FinalizerType, SoleFacts DEF StoreT
    <2> QED
      BY <1>4, <2>1, <2>2
  <1>5. CASE Apply(p)
    BY <1>5, SoleFacts DEF Apply, Working
  <1>6. CASE StatusGet(p) \/ StatusRefused(p)
    <2>1. pc[p] \in Working /\ UNCHANGED versions
      BY <1>6 DEF StatusGet, StatusRefused, At, Working
    <2>2. Leave(p) \/ gco' = gco
      BY <1>6 DEF StatusGet, StatusRefused, Return
    <2> QED
      BY <1>1, <2>1, <2>2
  <1>7. CASE UNCHANGED <<pc, gco>> /\ (UNCHANGED versions \/ UserEdit \/ UserDelete \/ UserRecreate)
    <2>1. CASE UNCHANGED versions
      BY <1>7, <2>1
    <2>2. CASE UserEdit \/ UserDelete \/ UserRecreate
      <3>1. \E o \in Objects : Write(o) /\ Follows(o)
        BY <2>2, UserWrites DEF Follows
      <3> QED
        BY <1>7, <3>1
    <2> QED
      BY <1>7, <2>1, <2>2
  <1>8. CASE \/ ReconcileNothing(p) \/ Watch(p) \/ WatchDeployment(p) \/ Timer(p) \/ Resync(p)
             \/ Environment \/ UNCHANGED vars
    BY <1>7, <1>8 DEF ReconcileNothing, Watch, WatchDeployment, Timer, Resync, Environment,
           Collect, OthersRemove, OthersScale, UserEdit, UserDelete, UserRecreate, Lose,
           Deliver, TimerFire, vars, kubeVars, workerVars
  <1> QED
    BY <1>2, <1>3, <1>4, <1>5, <1>6, <1>8 DEF Acts

LEMMA GenerationNext ==
  ASSUME NEW p, Sole(p), GuardOK(p), GuardOK(p)', GenerationOK(p), Acts(p)
  PROVE  GenerationOK(p)'
  <1>1. /\ \/ UNCHANGED versions
           \/ \E o \in Objects : Write(o) /\ Follows(o)
           \/ StatusWritten(p) /\ UNCHANGED cached
        /\ UNCHANGED cached \/ Watch(p) \/ Crash(p)
    BY VersionSteps
  <1>2. NewestOK(p)'
    BY <1>1, FollowsNewest, StatusNewest DEF GenerationOK
  <1>3. GraspOK(p)'
    <2>1. CASE pc'[p] \notin Working
      BY <2>1 DEF GraspOK
    <2>2. CASE Start(p) /\ gco'[p] = View(p) /\ pc'[p] = "deployment"
      <3>1. UNCHANGED <<versions, cached>>
        BY <2>2 DEF Start
      <3>2. gco'[p] = versions'[Seen(p)'] /\ Seen(p)' \in 1 .. RV'
            /\ Seen(p)' \in Seen(p)' .. RV'
        BY <2>2, <3>1, SoleFacts DEF View, Seen, RV
      <3>3. NotNewer(gco[p])'
        BY <1>2, <3>2 DEF NewestOK, NotNewer
      <3>4. HeldAs(gco[p].uid)'
        BY <2>2 DEF GuardOK, HandsOK, Working, Calls, Order
      <3>5. Observing' => gco'[p].gen = Current'.gen
        BY <1>2, <3>2, <3>4 DEF NewestOK, HeldAs
      <3> QED
        BY <3>3, <3>5 DEF GraspOK
    <2>3. CASE AddFinalizer(p) /\ gco'[p] = Current' /\ pc'[p] = "deployment"
      <3>1. Current' = versions'[RV'] /\ RV' \in 1 .. RV'
        <4>1. TypeOK' => RV' \in 1 .. RV'
          BY DEF TypeOK, RV
        <4> QED
          BY <4>1 DEF Sole, Current
      <3>2. NotNewer(gco[p])'
        BY <1>2, <2>3, <3>1 DEF NewestOK, NotNewer
      <3> QED
        BY <2>3, <3>2 DEF GraspOK
    <2>4. CASE /\ pc[p] \in Working /\ gco'[p] = gco[p]
               /\ UNCHANGED versions \/ \E o \in Objects : Write(o) /\ Follows(o)
      <3>1. gco[p] \in Objects /\ NotNewer(gco[p]) /\ (Observing => gco[p].gen = Current.gen)
        BY <2>4, SoleFacts DEF GenerationOK, GraspOK
      <3>2. NewerKept /\ SameObserved
        BY <2>4, FollowsFacts DEF GenerationOK
      <3>3. NotNewer(gco[p])'
        BY <2>4, <3>1, <3>2 DEF NewerKept, NotNewer
      <3> QED
        BY <2>4, <3>1, <3>2, <3>3 DEF GraspOK, SameObserved
    <2> QED
      BY <2>1, <2>2, <2>3, <2>4, WorkerSteps
  <1> QED
    BY <1>2, <1>3 DEF GenerationOK

LEMMA InitGeneration == ASSUME Init, NEW p \in Procs PROVE GenerationOK(p)
  <1>1. PICK s \in Specs : KubeInit(NewObject(1, s))
    BY DEF Init
  <1>2. /\ RV = 1 /\ Current = versions[1] /\ Current = NewObject(1, s)
        /\ Current.gen = 1 /\ Current.observed = 0 /\ Current.uid = 1
    BY <1>1 DEF KubeInit, RV, Current, NewObject
  <1>3. pc[p] = "idle"
    BY DEF Init
  <1>4. ~Observing
    BY <1>2 DEF Observing
  <1>5. \A k \in 1 .. RV : k = 1
    BY <1>2
  <1>6. NotNewer(Current)
    BY <1>2 DEF NotNewer
  <1>7. \A k \in 1 .. RV : NotNewer(versions[k])
    BY <1>2, <1>5, <1>6
  <1>8. Current.observed <= Current.gen
    BY <1>2
  <1> QED
    BY <1>3, <1>4, <1>7, <1>8, CallNames DEF GenerationOK, NewestOK, GraspOK, Working

-----------------------------------------------------------------------------
(* What the calls of one reconcile have brought about.                     *)

Kinds ==
    {"Deployment", "ServiceAccount", "Role", "RoleBinding", "Service",
     "ServiceMonitor", "Ingress"}

(* What does not exist leaves nothing behind.                              *)
Clean == \A id \in Ids : Exists(id) \/ objs[id] = Absent

LEMMA KindFacts ==
  ASSUME NEW c \in Calls
  PROVE  /\ Before(NextCall(c)) = Before(c) \cup {Kind(c)}
         /\ Kind(c) \notin Before(c) /\ Kind(c) \in Kinds
  <1>1. CASE c \in {"deployment", "serviceAccount", "role"}
    BY <1>1, CallNames DEF Before, Kind, Kinds
  <1>2. CASE c \in {"roleBinding", "service"}
    BY <1>2, CallNames DEF Before, Kind, Kinds
  <1>3. CASE c \in {"serviceMonitor", "ingress"}
    BY <1>3, CallNames DEF Before, Kind, Kinds
  <1> QED
    BY <1>1, <1>2, <1>3, CallNames

LEMMA BeforeFacts ==
  /\ Before("deployment") = {}
  /\ Before("statusGet") = Kinds /\ Before("statusPut") = Kinds
  BY DEF Before, Kinds

LEMMA SpecIds ==
  ASSUME NEW s \in SpecType
  PROVE  /\ Wanted(s) \subseteq Ids /\ SwitchedOff(s) \subseteq Ids
         /\ \A id \in Wanted(s) \cup SwitchedOff(s) : id[1] \in Kinds
         /\ Deployment \notin SwitchedOff(s)
  <1>1. /\ Wanted(s) \subseteq {Deployment, ServiceAccount(s), Role, RoleBinding, MetricsService,
                             ServiceMonitor(s), Ingress(s)}
        /\ SwitchedOff(s) \subseteq {ServiceMonitor(s), Ingress(s)}
    BY DEF Wanted, SwitchedOff
  <1>2. /\ Deployment[1] = "Deployment" /\ ServiceAccount(s)[1] = "ServiceAccount"
        /\ Role[1] = "Role" /\ RoleBinding[1] = "RoleBinding"
        /\ MetricsService[1] = "Service" /\ ServiceMonitor(s)[1] = "ServiceMonitor"
        /\ Ingress(s)[1] = "Ingress"
    BY DEF Deployment, ServiceAccount, Role, RoleBinding, MetricsService, ServiceMonitor,
           Ingress
  <1> QED
    BY <1>1, <1>2, IdFacts DEF Kinds

(* A call that succeeds does what the spec of its copy says of its kind.   *)
LEMMA CallTarget ==
  ASSUME NEW p, Sole(p), pc[p] \in Calls,
         NEW id \in Wanted(gco[p].spec) \cup SwitchedOff(gco[p].spec),
         id = Target(p) \/ id[1] = Kind(pc[p])
  PROVE  id = Target(p) /\ id[1] = Kind(pc[p]) /\ CallMade(p)
  <1> DEFINE s == gco[p].spec
  <1>1. /\ \A i \in Wanted(s) :
             \/ i = Deployment
             \/ i = ServiceAccount(s) /\ s.saCreate
             \/ i \in {Role, RoleBinding} /\ s.rbac
             \/ i = MetricsService /\ s.metrics
             \/ i = ServiceMonitor(s) /\ s.metrics /\ s.monitorOn
             \/ i = Ingress(s) /\ s.ingressOn
        /\ \A i \in SwitchedOff(s) :
             i = ServiceMonitor(s) \/ i = Ingress(s)
    BY DEF Wanted, SwitchedOff
  <1>2. /\ Deployment[1] = "Deployment" /\ ServiceAccount(s)[1] = "ServiceAccount"
        /\ Role[1] = "Role" /\ RoleBinding[1] = "RoleBinding"
        /\ MetricsService[1] = "Service" /\ DeletedService[1] = "Service"
        /\ ServiceMonitor(s)[1] = "ServiceMonitor" /\ Ingress(s)[1] = "Ingress"
        /\ MetricsService # DeletedService
    BY DEF Deployment, ServiceAccount, Role, RoleBinding, MetricsService, DeletedService,
           ServiceMonitor, Ingress
  <1>3. CASE pc[p] = "deployment"
    <2>1. Kind(pc[p]) = "Deployment" /\ Target(p) = Deployment /\ CallMade(p)
      BY <1>3 DEF Kind, Target, CallMade, At
    <2> QED
      BY <1>1, <1>2, <2>1
  <1>4. CASE pc[p] = "serviceAccount"
    <2>1. Kind(pc[p]) = "ServiceAccount" /\ Target(p) = ServiceAccount(s)
          /\ (CallMade(p) <=> s.saCreate)
      BY <1>4 DEF Kind, Target, CallMade, At
    <2> QED
      BY <1>1, <1>2, <2>1
  <1>5. CASE pc[p] = "role"
    <2>1. Kind(pc[p]) = "Role" /\ Target(p) = Role /\ (CallMade(p) <=> s.rbac)
      BY <1>5 DEF Kind, Target, CallMade, At
    <2> QED
      BY <1>1, <1>2, <2>1
  <1>6. CASE pc[p] = "roleBinding"
    <2>1. Kind(pc[p]) = "RoleBinding" /\ Target(p) = RoleBinding /\ (CallMade(p) <=> s.rbac)
      BY <1>6 DEF Kind, Target, CallMade, At
    <2> QED
      BY <1>1, <1>2, <2>1
  <1>7. CASE pc[p] = "service"
    <2>1. /\ Kind(pc[p]) = "Service" /\ CallMade(p)
          /\ Target(p) = IF s.metrics THEN MetricsService ELSE DeletedService
      BY <1>7 DEF Kind, Target, CallMade, At
    <2> QED
      BY <1>1, <1>2, <2>1
  <1>8. CASE pc[p] = "serviceMonitor"
    <2>1. Kind(pc[p]) = "ServiceMonitor" /\ Target(p) = ServiceMonitor(s) /\ CallMade(p)
      BY <1>8 DEF Kind, Target, CallMade, At
    <2> QED
      BY <1>1, <1>2, <2>1
  <1>9. CASE pc[p] = "ingress"
    <2>1. Kind(pc[p]) = "Ingress" /\ Target(p) = Ingress(s) /\ CallMade(p)
      BY <1>9 DEF Kind, Target, CallMade, At
    <2> QED
      BY <1>1, <1>2, <2>1
  <1> QED
    BY <1>3, <1>4, <1>5, <1>6, <1>7, <1>8, <1>9, CallNames

LEMMA CallApplies ==
  ASSUME NEW p, Sole(p), pc[p] \in Calls, ~Refused(p), Executed(p),
         Clean, NEW s \in SpecType, s = gco[p].spec, NEW t \in Ids, t = Target(p)
  PROVE  /\ t \in Wanted(s) => Applied(t, s)' \/ t \in drift'
         /\ t \in SwitchedOff(s) => ~Exists(t)'
  <1> DEFINE g == gco[p]
  <1>1. /\ g \in Objects /\ s.v \in Nat /\ s.sa \in Names /\ Replicas(s) \in Nat
    BY SoleFacts, SpecFacts
  <1>2. /\ objs \in [Ids -> Owned] /\ objs' = Effect(p)
        /\ Deployment \in Ids /\ Role \in Ids /\ RoleBinding \in Ids
        /\ MetricsService \in Ids /\ ServiceAccount(s) \in Ids
        /\ ServiceMonitor(s) \in Ids /\ Ingress(s) \in Ids
    BY SoleFacts, IdFacts DEF OwnedT, Executed
  <1>3. /\ New(g) \in Owned /\ New(g).owner # 0 /\ Absent.owner = 0
        /\ \A id \in Ids : Kept(id, g) \in Owned /\ Kept(id, g).owner # 0
    BY <1>1, SoleFacts, NewType, KeptType
  <1>4. /\ Deployment[1] = "Deployment" /\ ServiceAccount(s)[1] = "ServiceAccount"
        /\ Role[1] = "Role" /\ RoleBinding[1] = "RoleBinding"
        /\ MetricsService[1] = "Service" /\ DeletedService[1] = "Service"
        /\ ServiceMonitor(s)[1] = "ServiceMonitor" /\ Ingress(s)[1] = "Ingress"
    BY DEF Deployment, ServiceAccount, Role, RoleBinding, MetricsService, DeletedService,
           ServiceMonitor, Ingress
  <1>5. /\ Wanted(s) \cap SwitchedOff(s) = {}
        /\ \A i \in SwitchedOff(s) : i = ServiceMonitor(s) \/ i = Ingress(s)
        /\ \A i \in Wanted(s) :
             \/ i = Deployment
             \/ i = ServiceAccount(s) /\ s.saCreate
             \/ i \in {Role, RoleBinding} /\ s.rbac
             \/ i = MetricsService /\ s.metrics
             \/ i = ServiceMonitor(s) /\ s.metrics /\ s.monitorOn
             \/ i = Ingress(s) /\ s.ingressOn
        /\ ServiceMonitor(s) \in SwitchedOff(s) => ~(s.metrics /\ s.monitorOn)
        /\ Ingress(s) \in SwitchedOff(s) => ~s.ingressOn
    <2>1. /\ \A i \in SwitchedOff(s) :
               \/ i = ServiceMonitor(s) /\ ~(s.metrics /\ s.monitorOn)
               \/ i = Ingress(s) /\ ~s.ingressOn
          /\ \A i \in Wanted(s) :
               \/ i = Deployment
               \/ i = ServiceAccount(s) /\ s.saCreate
               \/ i \in {Role, RoleBinding} /\ s.rbac
               \/ i = MetricsService /\ s.metrics
               \/ i = ServiceMonitor(s) /\ s.metrics /\ s.monitorOn
               \/ i = Ingress(s) /\ s.ingressOn
      BY DEF Wanted, SwitchedOff
    <2> QED
      BY <1>4, <2>1
  <1>6. CASE pc[p] = "deployment"
    <2> DEFINE live == Live(g)
               d == dep[p]
               o == [live EXCEPT !.v = IF d.v # s.v THEN s.v ELSE @,
                        !.replicas = IF d = Absent \/ d.replicas # Replicas(s)
                                     THEN Replicas(s) ELSE @]
    <2>1. t = Deployment /\ Effect(p) = Put(Deployment, o)
      BY <1>6 DEF Target, Effect, reconcileDeployment, Live
    <2>2. live \in Owned /\ live.owner # 0 /\ d \in Owned
      BY <1>1, <1>2, LiveType, SoleFacts DEF OwnedT
    <2>3. /\ o.owner = live.owner
          /\ o.v = IF d.v # s.v THEN s.v ELSE live.v
          /\ o.replicas = IF d = Absent \/ d.replicas # Replicas(s)
                          THEN Replicas(s) ELSE live.replicas
      BY <2>2 DEF Owned
    <2>4. objs'[Deployment] = o
      BY <1>2, <2>1 DEF Put
    <2>5. CASE d # objs[Deployment]
      <3>1. Deployment \in drift'
        BY <1>6, <2>5 DEF Executed, At
      <3> QED
        BY <1>4, <1>5, <2>1, <3>1
    <2>6. CASE d = objs[Deployment]
      <3>1. s.v # 0
        BY <1>6 DEF Refused, At
      <3>2. o.v = s.v /\ o.replicas = Replicas(s)
        <4>1. CASE Exists(Deployment)
          <5>1. live = d
            BY <2>6, <4>1 DEF Live
          <5> QED
            BY <2>3, <5>1
        <4>2. CASE ~Exists(Deployment)
          <5>1. d = Absent
            BY <1>2, <2>6, <4>2 DEF Clean
          <5>2. d.v = 0
            <6>1. Absent.v = 0
              BY DEF Absent
            <6> QED
              BY <5>1, <6>1
          <5> QED
            BY <2>3, <3>1, <5>1, <5>2
        <4> QED
          BY <4>1, <4>2
      <3>3. Deployment \notin {RoleBinding}
        BY <1>4
      <3> QED
        BY <1>4, <1>5, <2>1, <2>2, <2>3, <2>4, <3>2, <3>3 DEF Applied, Exists
    <2> QED
      BY <1>4, <1>5, <2>1, <2>5, <2>6
  <1>7. CASE pc[p] = "serviceAccount"
    <2>1. t = ServiceAccount(s)
      BY <1>7 DEF Target
    <2>2. s.saCreate => objs'[t] = New(g)
      <3>1. s.saCreate => Effect(p) = Put(ServiceAccount(s), New(g))
        BY <1>7 DEF Effect, reconcileServiceAccount
      <3> QED
        BY <1>2, <2>1, <3>1 DEF Put
    <2> QED
      BY <1>3, <1>4, <1>5, <2>1, <2>2 DEF Applied, Exists
  <1>8. CASE pc[p] = "role"
    <2>1. t = Role
      BY <1>8 DEF Target
    <2>2. s.rbac => objs'[t] = Kept(Role, g)
      <3>1. s.rbac => Effect(p) = Put(Role, Kept(Role, g))
        BY <1>8 DEF Effect, reconcileRole
      <3> QED
        BY <1>2, <2>1, <3>1 DEF Put
    <2> QED
      BY <1>2, <1>3, <1>4, <1>5, <2>1, <2>2 DEF Applied, Exists
  <1>9. CASE pc[p] = "roleBinding"
    <2> DEFINE o == [Kept(RoleBinding, g) EXCEPT !.subject = s.sa]
    <2>1. t = RoleBinding
      BY <1>9 DEF Target
    <2>2. s.rbac => objs'[t] = o
      <3>1. s.rbac => Effect(p) = Put(RoleBinding, o)
        BY <1>9 DEF Effect, reconcileRoleBinding
      <3> QED
        BY <1>2, <2>1, <3>1 DEF Put
    <2>3. o.owner # 0 /\ o.subject = s.sa
      BY <1>2, <1>3 DEF Owned
    <2> QED
      BY <1>4, <1>5, <2>1, <2>2, <2>3 DEF Applied, Exists
  <1>10. CASE pc[p] = "service"
    <2> DEFINE o == [Kept(MetricsService, g) EXCEPT !.v = s.v]
    <2>1. t = IF s.metrics THEN MetricsService ELSE DeletedService
      BY <1>10 DEF Target
    <2>2. s.metrics => objs'[MetricsService] = o
      <3>1. s.metrics => Effect(p) = Put(MetricsService, o)
        BY <1>10 DEF Effect, reconcileMetricsService
      <3> QED
        BY <1>2, <3>1 DEF Put
    <2>3. o.owner # 0 /\ o.v = s.v
      BY <1>2, <1>3 DEF Owned
    <2> QED
      BY ZenonT(30), <1>4, <1>5, <2>1, <2>2, <2>3 DEF Applied, Exists
  <1>11. CASE pc[p] = "serviceMonitor"
    <2> DEFINE o == [New(g) EXCEPT !.v = s.v]
    <2>1. t = ServiceMonitor(s)
      BY <1>11 DEF Target
    <2>2. objs'[t] = IF s.metrics /\ s.monitorOn THEN o ELSE Absent
      <3>1. Effect(p) = IF s.metrics /\ s.monitorOn THEN Put(ServiceMonitor(s), o)
                        ELSE Put(ServiceMonitor(s), Absent)
        BY <1>11 DEF Effect, reconcileServiceMonitor, deleteServiceMonitor, Delete
      <3> QED
        BY <1>2, <2>1, <3>1 DEF Put
    <2>3. o.owner # 0 /\ o.v = s.v
      BY <1>3 DEF Owned
    <2> QED
      BY <1>3, <1>4, <1>5, <2>1, <2>2, <2>3 DEF Applied, Exists
  <1>12. CASE pc[p] = "ingress"
    <2> DEFINE o == [Kept(Ingress(s), g) EXCEPT !.v = s.v]
    <2>1. t = Ingress(s)
      BY <1>12 DEF Target
    <2>2. objs'[t] = IF s.ingressOn THEN o ELSE Absent
      <3>1. Effect(p) = IF s.ingressOn THEN Put(Ingress(s), o) ELSE Put(Ingress(s), Absent)
        BY <1>12 DEF Effect, reconcileIngress, deleteIngress, Delete
      <3> QED
        BY <1>2, <2>1, <3>1 DEF Put
    <2>3. o.owner # 0 /\ o.v = s.v
      BY <1>2, <1>3 DEF Owned
    <2> QED
      BY <1>3, <1>4, <1>5, <2>1, <2>2, <2>3 DEF Applied, Exists
  <1> QED
    BY <1>6, <1>7, <1>8, <1>9, <1>10, <1>11, <1>12, CallNames

LEMMA CleanNext ==
  ASSUME NEW p, Sole(p), Clean, Acts(p)
  PROVE  Clean'
  <1> SUFFICES ASSUME NEW id \in Ids, objs'[id].owner = 0
               PROVE  objs'[id] = Absent
    BY DEF Clean, Exists
  <1>1. objs[id].owner = 0 => objs[id] = Absent
    BY DEF Clean, Exists
  <1>2. CASE UNCHANGED <<objs, drift>>
    BY <1>1, <1>2
  <1>3. CASE pc[p] \in Calls /\ Executed(p)
    BY <1>1, <1>3, ExecutedShape DEF Became
  <1>4. CASE \E D \in SUBSET Ids : Lose(D)
    BY <1>1, <1>4 DEF Lose
  <1>5. CASE OthersScale
    <2>1. objs \in [Ids -> Owned] /\ Deployment \in Ids
      BY SoleFacts DEF OwnedT, Ids
    <2>2. objs[Deployment].owner # 0 /\ objs' = [objs EXCEPT ![Deployment].replicas = @ + 1]
      BY <1>5 DEF OthersScale, Exists
    <2>3. objs'[Deployment].owner = objs[Deployment].owner
      BY ZenonT(30), <2>1, <2>2 DEF Owned
    <2>4. id # Deployment => objs'[id] = objs[id]
      BY <2>1, <2>2
    <2> QED
      BY <1>1, <2>2, <2>3, <2>4
  <1> QED
    BY <1>2, <1>3, <1>4, <1>5, OwnedSteps

(* A call keeps what the calls before it brought about, and adds its own.  *)
LEMMA CallFulfils ==
  ASSUME NEW p, Sole(p), pc[p] \in Calls, ~Refused(p), Executed(p), Clean,
         NEW s \in SpecType, s = gco[p].spec, NEW K, Fulfilled(s, K),
         NEW c \in Calls, c = pc[p]
  PROVE  Fulfilled(s, K \cup {Kind(c)})'
  <1>1. Wanted(s) \subseteq Ids /\ SwitchedOff(s) \subseteq Ids
    BY SpecIds
  <1>2. /\ Target(p) \in Ids
        /\ \A id \in Ids : id # Target(p) =>
              /\ objs'[id] = objs[id]
              /\ id \in drift => id \in drift'
    <2>1. \A id \in Ids : id # Target(p) => (id \in drift => id \in drift')
      BY DEF Executed
    <2> QED
      BY <2>1, ExecutedShape
  <1>3. PICK t \in Ids : t = Target(p)
    BY <1>2
  <1>4. /\ t \in Wanted(s) => Applied(t, s)' \/ t \in drift'
        /\ t \in SwitchedOff(s) => ~Exists(t)'
    BY <1>3, CallApplies
  <1>5. ASSUME NEW id \in Wanted(s), id[1] \in K \cup {Kind(c)}
        PROVE  Applied(id, s)' \/ id \in drift'
    <2>1. CASE id = t
      BY <1>4, <2>1
    <2>2. CASE id # t
      <3>1. id \in Ids /\ id[1] \in K
        BY <1>1, <1>3, <1>5, <2>2, CallTarget
      <3>2. Applied(id, s) \/ id \in drift
        BY <3>1 DEF Fulfilled
      <3>3. objs'[id] = objs[id] /\ (id \in drift => id \in drift')
        BY <1>2, <1>3, <2>2, <3>1
      <3> QED
        BY <3>2, <3>3 DEF Applied, Exists
    <2> QED
      BY <2>1, <2>2
  <1>6. ASSUME NEW id \in SwitchedOff(s), id[1] \in K \cup {Kind(c)}
        PROVE  ~Exists(id)'
    <2>1. CASE id = t
      BY <1>4, <2>1
    <2>2. CASE id # t
      <3>1. id \in Ids /\ id[1] \in K
        BY <1>1, <1>3, <1>6, <2>2, CallTarget
      <3>2. ~Exists(id)
        BY <3>1 DEF Fulfilled
      <3>3. objs'[id] = objs[id]
        BY <1>2, <1>3, <2>2, <3>1
      <3> QED
        BY <3>2, <3>3 DEF Exists
    <2> QED
      BY <2>1, <2>2
  <1> QED
    BY <1>5, <1>6 DEF Fulfilled

(* What others do is drift, and restores nothing.                          *)
LEMMA OthersFulfil ==
  ASSUME NEW p, Sole(p),
         \/ UNCHANGED <<objs, drift>>
         \/ \E D \in SUBSET Ids : Lose(D)
         \/ OthersScale,
         NEW s \in SpecType, NEW K, Fulfilled(s, K)
  PROVE  Fulfilled(s, K)'
  <1>1. Wanted(s) \subseteq Ids /\ SwitchedOff(s) \subseteq Ids
    BY SpecIds
  <1>2. ASSUME NEW id \in Ids
        PROVE  /\ id \in drift => id \in drift'
               /\ objs'[id] = objs[id] \/ id \in drift'
               /\ objs[id].owner = 0 => objs'[id].owner = 0
    <2>1. CASE UNCHANGED <<objs, drift>>
      BY <2>1
    <2>2. CASE \E D \in SUBSET Ids : Lose(D)
      <3>1. Absent.owner = 0
        BY DEF Absent
      <3> QED
        BY <2>2, <3>1 DEF Lose
    <2>3. CASE OthersScale
      <3>1. objs \in [Ids -> Owned]
        BY SoleFacts DEF OwnedT
      <3>2. /\ objs[Deployment].owner # 0 /\ drift' = drift \cup {Deployment}
            /\ objs' = [objs EXCEPT ![Deployment].replicas = @ + 1]
        BY <2>3 DEF OthersScale, Exists
      <3>3. id # Deployment => objs'[id] = objs[id]
        BY <3>1, <3>2
      <3> QED
        BY <3>2, <3>3
    <2> QED
      BY <2>1, <2>2, <2>3
  <1>3. ASSUME NEW id \in Wanted(s), id[1] \in K
        PROVE  Applied(id, s)' \/ id \in drift'
    <2>1. Applied(id, s) \/ id \in drift
      BY <1>3 DEF Fulfilled
    <2> QED
      BY <1>1, <1>2, <2>1 DEF Applied, Exists
  <1>4. ASSUME NEW id \in SwitchedOff(s), id[1] \in K
        PROVE  ~Exists(id)'
    <2>1. ~Exists(id)
      BY <1>4 DEF Fulfilled
    <2> QED
      BY <1>1, <1>2, <2>1 DEF Exists
  <1> QED
    BY <1>3, <1>4 DEF Fulfilled

(* A worker that observes the current generation has its spec.             *)
LEMMA SameSpec ==
  ASSUME NEW p, GuardOK(p), GenerationOK(p), pc[p] \in Working,
         gco[p].gen = Current.gen
  PROVE  gco[p].spec = Current.spec
  BY DEF GuardOK, HandsOK, HeldAs, GenerationOK, GraspOK, NotNewer

LEMMA AnyStepFulfils ==
  ASSUME NEW p, Sole(p), GuardOK(p), GenerationOK(p), Clean, Acts(p),
         NEW s \in SpecType, NEW K, Fulfilled(s, K),
         pc[p] \in Calls => gco[p].spec = s
  PROVE  Fulfilled(s, K)'
  <1>1. CASE pc[p] \in Calls /\ ~Refused(p) /\ Executed(p)
    <2>1. PICK c \in Calls : c = pc[p]
      BY <1>1
    <2>2. Fulfilled(s, K \cup {Kind(c)})'
      BY <1>1, <2>1, CallFulfils
    <2> QED
      BY <2>2 DEF Fulfilled
  <1>2. CASE \/ UNCHANGED <<objs, drift>>
             \/ \E D \in SUBSET Ids : Lose(D)
             \/ OthersScale
    BY <1>2, OthersFulfil
  <1>3. CASE Apply(p) \/ ApplyFault(p)
    <2>1. (pc[p] \in Calls /\ ~Refused(p) /\ Executed(p)) \/ UNCHANGED <<objs, drift>>
      BY <1>3 DEF Apply, ApplyFault
    <2> QED
      BY <1>1, <1>2, <2>1
  <1> QED
    BY <1>2, <1>3, OwnedSteps

LEMMA ObservingFulfilled ==
  ASSUME NEW p, Sole(p), GuardOK(p), GenerationOK(p), Clean, ProgressOK(p), Acts(p),
         Observing'
  PROVE  Fulfilled(Current.spec, Before("statusGet"))'
  <1>0. Current.spec \in SpecType /\ (pc[p] \in Working => gco[p].spec \in SpecType)
    BY SoleFacts, SpecFacts
  <1>1. PICK K : K = Before("statusGet")
    OBVIOUS
  <1>2. CASE StatusWritten(p)
    <2>1. /\ At(p, "statusPut") /\ Current'.spec = Current.spec
          /\ Current'.gen = Current.gen /\ Current'.observed = gco[p].gen
      BY <1>2, StatusWrites DEF StatusWritten
    <2>2. pc[p] \in Working /\ Before(pc[p]) = K /\ pc[p] \notin Calls
      BY <1>1, <2>1, BeforeFacts, CallNames DEF At, Working
    <2>3. gco[p].gen = Current.gen
      BY <2>1 DEF Observing
    <2>4. gco[p].spec = Current.spec
      BY <2>2, <2>3, SameSpec
    <2>5. Fulfilled(Current.spec, K)
      BY <2>2, <2>4 DEF ProgressOK
    <2>6. PICK s \in SpecType : s = Current.spec
      BY <1>0
    <2>7. Fulfilled(s, K)'
      BY <2>2, <2>5, <2>6, AnyStepFulfils
    <2> QED
      BY <1>1, <2>1, <2>6, <2>7
  <1>3. CASE UNCHANGED versions \/ \E o \in Objects : Write(o) /\ Follows(o)
    <2>1. Observing /\ Current'.spec = Current.spec
      BY <1>3, FollowsFacts DEF SameObserved, GenerationOK
    <2>2. Fulfilled(Current.spec, K)
      BY <1>1, <2>1 DEF ProgressOK
    <2>3. pc[p] \in Calls => gco[p].spec = Current.spec
      BY <2>1, SameSpec DEF GenerationOK, GraspOK, Working
    <2>4. PICK s \in SpecType : s = Current.spec
      BY <1>0
    <2>5. Fulfilled(s, K)'
      BY <2>2, <2>3, <2>4, AnyStepFulfils
    <2> QED
      BY <1>1, <2>1, <2>4, <2>5
  <1> QED
    BY <1>2, <1>3, VersionSteps

(* How the worker comes to its place.                                      *)
LEMMA PlaceSteps ==
  ASSUME NEW p, Sole(p), Acts(p), pc'[p] \in Working
  PROVE  \/ pc'[p] = "deployment"
         \/ /\ pc[p] \in Calls /\ ~Refused(p) /\ Executed(p)
            /\ pc'[p] = NextCall(pc[p]) /\ gco'[p] = gco[p]
         \/ /\ pc[p] \in Working /\ gco'[p] = gco[p]
            /\ pc'[p] = pc[p] \/ {pc[p], pc'[p]} \subseteq {"statusGet", "statusPut"}
  <1>1. ~Leave(p)
    <2>1. Leave(p) => pc'[p] = "idle"
      BY SoleFacts DEF Leave, GoTo
    <2> QED
      BY <2>1, CallNames DEF Working
  <1>2. CASE RemoveFinalizer(p) \/ FinalizerRefused(p) \/ FinalizerFault(p)
             \/ ApplyRefused(p) \/ ApplyFault(p) \/ StatusOk(p) \/ StatusFault(p) \/ Crash(p)
    BY <1>1, <1>2 DEF RemoveFinalizer, FinalizerRefused, FinalizerFault, ApplyRefused,
           ApplyFault, StatusOk, StatusFault, Crash, Return
  <1>3. CASE Start(p) \/ AddFinalizer(p)
    <2>1. pc'[p] \in {"removeFinalizer", "deployment", "addFinalizer"}
      BY <1>3, SoleFacts DEF Start, AddFinalizer, GoTo
    <2>2. {"removeFinalizer", "addFinalizer"} \cap Working = {}
      BY CallNames DEF Working
    <2> QED
      BY <2>1, <2>2
  <1>4. CASE Apply(p)
    BY <1>4, SoleFacts DEF Apply, GoTo
  <1>5. CASE StatusGet(p) \/ StatusRefused(p)
    <2>1. pc[p] \in {"statusGet", "statusPut"}
      BY <1>5 DEF StatusGet, StatusRefused, At
    <2>2. gco' = gco /\ pc'[p] \in {"statusGet", "statusPut"}
      BY <1>1, <1>5, SoleFacts DEF StatusGet, StatusRefused, Return, GoTo
    <2> QED
      BY <2>1, <2>2 DEF Working
  <1>6. CASE \/ ReconcileNothing(p) \/ Watch(p) \/ WatchDeployment(p) \/ Timer(p) \/ Resync(p)
             \/ Environment \/ UNCHANGED vars
    <2>1. UNCHANGED <<pc, gco>>
      BY <1>6 DEF ReconcileNothing, Watch, WatchDeployment, Timer, Resync, Environment,
           Collect, OthersRemove, OthersScale, UserEdit, UserDelete, UserRecreate, Lose,
           vars, kubeVars, workerVars
    <2> QED
      BY <2>1
  <1> QED
    BY <1>2, <1>3, <1>4, <1>5, <1>6 DEF Acts

LEMMA ProgressNext ==
  ASSUME NEW p, Sole(p), GuardOK(p), GenerationOK(p), Clean, ProgressOK(p), Acts(p)
  PROVE  ProgressOK(p)'
  <1>1. ASSUME pc'[p] \in Working
        PROVE  Fulfilled(gco[p].spec, Before(pc[p]))'
    <2>1. CASE pc'[p] = "deployment"
      <3>1. Before(pc'[p]) = {}
        BY <2>1, BeforeFacts
      <3> QED
        BY <3>1 DEF Fulfilled
    <2>2. CASE /\ pc[p] \in Calls /\ ~Refused(p) /\ Executed(p)
               /\ pc'[p] = NextCall(pc[p]) /\ gco'[p] = gco[p]
      <3>1. PICK c \in Calls : c = pc[p]
        BY <2>2
      <3>2. PICK s \in SpecType : s = gco[p].spec
        BY SoleFacts, SpecFacts
      <3>3. PICK K : K = Before(c)
        OBVIOUS
      <3>4. Fulfilled(s, K)
        BY <2>2, <3>1, <3>2, <3>3 DEF ProgressOK, Working
      <3>5. Fulfilled(s, K \cup {Kind(c)})'
        BY <2>2, <3>1, <3>2, <3>4, CallFulfils
      <3>6. Before(pc'[p]) = K \cup {Kind(c)}
        BY <2>2, <3>1, <3>3, KindFacts
      <3> QED
        BY <2>2, <3>2, <3>5, <3>6
    <2>3. CASE /\ pc[p] \in Working /\ gco'[p] = gco[p]
               /\ pc'[p] = pc[p] \/ {pc[p], pc'[p]} \subseteq {"statusGet", "statusPut"}
      <3>1. PICK s \in SpecType : s = gco[p].spec
        BY SoleFacts, SpecFacts
      <3>2. PICK K : K = Before(pc[p])
        OBVIOUS
      <3>3. Before(pc'[p]) = K
        BY <2>3, <3>2, BeforeFacts
      <3>4. Fulfilled(s, K)
        BY <2>3, <3>1, <3>2 DEF ProgressOK
      <3>5. Fulfilled(s, K)'
        BY <3>1, <3>4, AnyStepFulfils
      <3> QED
        BY <2>3, <3>1, <3>3, <3>5
    <2> QED
      BY <1>1, <2>1, <2>2, <2>3, PlaceSteps
  <1> QED
    BY <1>1, ObservingFulfilled DEF ProgressOK

LEMMA InitProgress == ASSUME Init, NEW p \in Procs PROVE Clean /\ ProgressOK(p)
  <1>1. PICK s \in Specs : KubeInit(NewObject(1, s))
    BY DEF Init
  <1>2. Current.gen = 1 /\ Current.observed = 0
    BY <1>1 DEF KubeInit, RV, Current, NewObject
  <1>3. pc[p] \notin Working
    <2>1. pc[p] = "idle"
      BY DEF Init
    <2> QED
      BY <2>1, CallNames DEF Working
  <1>4. ~Observing
    BY <1>2 DEF Observing
  <1>5. Clean
    BY DEF Init, Clean
  <1> QED
    BY <1>3, <1>4, <1>5 DEF ProgressOK

(* The second invariant: the generation that is observed is the one that   *)
(* was applied, step by step.                                              *)
Applying == Clean /\ \A p \in Procs : GenerationOK(p) /\ ProgressOK(p)

LEMMA ApplyingInvariance == OneProcess => (Spec => []Applying)
  <1> SUFFICES ASSUME OneProcess PROVE Spec => []Applying
    OBVIOUS
  <1>1. Init => Applying
    <2> SUFFICES ASSUME Init PROVE Applying
      OBVIOUS
    <2>1. PICK p : Procs = {p}
      BY DEF OneProcess
    <2>2. GenerationOK(p) /\ Clean /\ ProgressOK(p)
      BY <2>1, InitGeneration, InitProgress
    <2> QED
      BY <2>1, <2>2 DEF Applying
  <1>2. TypeOK /\ TypeOK' /\ Guarded /\ Guarded' /\ Applying /\ [Next]_vars => Applying'
    <2> SUFFICES ASSUME TypeOK, TypeOK', Guarded, Guarded', Applying, [Next]_vars
                 PROVE  Applying'
      OBVIOUS
    <2>1. PICK p : Procs = {p}
      BY DEF OneProcess
    <2>2. /\ Sole(p) /\ GuardOK(p) /\ GuardOK(p)' /\ Acts(p)
          /\ Clean /\ GenerationOK(p) /\ ProgressOK(p)
      BY <2>1, SoleActs DEF Sole, Guarded, Applying
    <2>3. Clean'
      BY <2>2, CleanNext
    <2>4. GenerationOK(p)'
      BY <2>2, GenerationNext
    <2>5. ProgressOK(p)'
      BY <2>2, ProgressNext
    <2> QED
      BY <2>1, <2>3, <2>4, <2>5 DEF Applying
  <1> QED
    BY <1>1, <1>2, TypeCorrect, GuardInvariance, PTL DEF Spec

-----------------------------------------------------------------------------
(* The pull policy.                                                        *)

(* What the worker holds is a spec that the resource has had.              *)
Known(o) == \E k \in 1 .. RV : versions[k].uid = o.uid /\ versions[k].spec = o.spec

PullOK(p) == PullOfItsOwner /\ (pc[p] \in Working => Known(gco[p]))

LEMMA VersionsKept ==
  ASSUME NEW p, Sole(p), GuardOK(p), Acts(p)
  PROVE  RV \in Nat /\ RV' \in Nat /\ RV <= RV' /\ \A k \in 1 .. RV : versions'[k] = versions[k]
  <1>1. versions \in Seq(Objects) /\ RV \in Nat /\ p \in Procs
    BY SoleFacts DEF StoreT
  <1>2. CASE UNCHANGED versions
    BY <1>1, <1>2 DEF RV
  <1>3. CASE \E o \in Objects : Write(o)
    BY <1>1, <1>3, WriteFacts
  <1>4. CASE StatusWritten(p)
    <2>1. Ready(p) \in Objects
      BY <1>4, ReadyType, SoleFacts
    <2> QED
      BY <1>2, <1>3, <1>4, <2>1 DEF StatusWritten, StoreStatus
  <1> QED
    BY <1>2, <1>3, <1>4, VersionSteps

LEMMA KnownNext ==
  ASSUME NEW p, Sole(p), GuardOK(p), Acts(p), pc[p] \in Working => Known(gco[p]),
         pc'[p] \in Working
  PROVE  Known(gco[p])'
  <1>1. /\ RV \in Nat /\ RV' \in Nat /\ RV <= RV'
        /\ \A k \in 1 .. RV : k \in 1 .. RV' /\ versions'[k] = versions[k]
    BY VersionsKept
  <1>2. CASE Start(p) /\ gco'[p] = View(p)
    <2>1. Seen(p) \in 1 .. RV /\ View(p) = versions[Seen(p)]
      BY SoleFacts
    <2> QED
      BY <1>1, <1>2, <2>1 DEF Known
  <1>3. CASE AddFinalizer(p) /\ gco'[p] = Current'
    <2>1. RV' \in 1 .. RV' /\ Current' = versions'[RV']
      BY <1>1, SoleFacts DEF Current
    <2> QED
      BY <1>3, <2>1 DEF Known
  <1>4. CASE pc[p] \in Working /\ gco'[p] = gco[p]
    BY <1>1, <1>4 DEF Known
  <1> QED
    BY <1>2, <1>3, <1>4, WorkerSteps

(* Only the call that creates the Deployment gives it a pull policy.       *)
LEMMA DeploymentSteps ==
  ASSUME NEW p, Sole(p), Acts(p), Exists(Deployment)'
  PROVE  \/ /\ Exists(Deployment)
            /\ objs'[Deployment].owner = objs[Deployment].owner
            /\ objs'[Deployment].pull = objs[Deployment].pull
         \/ /\ pc[p] \in Working
            /\ objs'[Deployment].owner = gco[p].uid
            /\ objs'[Deployment].pull = gco[p].spec.pull
  <1>1. objs \in [Ids -> Owned] /\ Deployment \in Ids /\ gco[p] \in Objects
    BY SoleFacts DEF OwnedT, Ids
  <1>2. CASE UNCHANGED <<objs, drift>>
    BY <1>2 DEF Exists
  <1>3. CASE At(p, "deployment") /\ Executed(p)
    <2> DEFINE g == gco[p]
               s == g.spec
               live == Live(g)
               o == [live EXCEPT !.v = IF dep[p].v # s.v THEN s.v ELSE @,
                        !.replicas = IF dep[p] = Absent \/ dep[p].replicas # Replicas(s)
                                     THEN Replicas(s) ELSE @]
    <2>1. objs' = Put(Deployment, o)
      BY <1>3 DEF Executed, Effect, reconcileDeployment, Live, At
    <2>2. objs'[Deployment] = o
      BY <1>1, <2>1 DEF Put
    <2>3. /\ live \in Owned
          /\ ~Exists(Deployment) => live.owner = g.uid /\ live.pull = s.pull
      BY <1>1, LiveType, SoleFacts
    <2>4. o.owner = live.owner /\ o.pull = live.pull
      BY <2>3 DEF Owned
    <2>5. Exists(Deployment) => live = objs[Deployment]
      BY DEF Live
    <2>6. pc[p] \in Working
      BY <1>3 DEF At, Working, Calls, Order
    <2> HIDE DEF o, live
    <2> QED
      BY <2>2, <2>3, <2>4, <2>5, <2>6
  <1>4. CASE ~At(p, "deployment") /\ pc[p] \in Calls /\ Executed(p)
    <2>1. Target(p) # Deployment
      BY <1>4, CallNames
         DEF Target, At, ServiceAccount, Role, RoleBinding, MetricsService, DeletedService,
             ServiceMonitor, Ingress, Deployment
    <2> QED
      BY <1>1, <1>4, <2>1, ExecutedShape DEF Exists
  <1>5. CASE \E D \in SUBSET Ids : Lose(D)
    <2>1. Absent.owner = 0
      BY DEF Absent
    <2> QED
      BY <1>1, <1>5, <2>1 DEF Lose, Exists
  <1>6. CASE OthersScale
    <2>1. objs[Deployment].owner # 0 /\ objs' = [objs EXCEPT ![Deployment].replicas = @ + 1]
      BY <1>6 DEF OthersScale, Exists
    <2>2. objs'[Deployment].owner = objs[Deployment].owner
          /\ objs'[Deployment].pull = objs[Deployment].pull
      BY ZenonT(30), <1>1, <2>1 DEF Owned
    <2> QED
      BY <2>1, <2>2 DEF Exists
  <1> QED
    BY <1>2, <1>3, <1>4, <1>5, <1>6, OwnedSteps

LEMMA PullNext ==
  ASSUME NEW p, Sole(p), GuardOK(p), Acts(p), PullOK(p)
  PROVE  PullOK(p)'
  <1>1. pc'[p] \in Working => Known(gco[p])'
    BY KnownNext DEF PullOK
  <1>2. ASSUME Exists(Deployment)'
        PROVE  \E k \in 1 .. RV' :
                  /\ versions'[k].uid = objs'[Deployment].owner
                  /\ versions'[k].spec.pull = objs'[Deployment].pull
    <2>1. \A k \in 1 .. RV : k \in 1 .. RV' /\ versions'[k] = versions[k]
      BY VersionsKept
    <2>2. \E k \in 1 .. RV :
              /\ versions[k].uid = objs'[Deployment].owner
              /\ versions[k].spec.pull = objs'[Deployment].pull
      BY <1>2, DeploymentSteps DEF PullOK, PullOfItsOwner, Known
    <2> QED
      BY <2>1, <2>2
  <1> QED
    BY <1>1, <1>2 DEF PullOK, PullOfItsOwner

LEMMA PullInvariance == OneProcess => (Spec => []PullOfItsOwner)
  <1> SUFFICES ASSUME OneProcess PROVE Spec => []PullOfItsOwner
    OBVIOUS
  <1> DEFINE Pulled == \A p \in Procs : PullOK(p)
  <1>1. Init => Pulled
    <2> SUFFICES ASSUME Init, NEW p \in Procs PROVE PullOK(p)
      OBVIOUS
    <2>1. pc[p] = "idle" /\ objs = [id \in Ids |-> Absent]
      BY DEF Init
    <2>2. ~Exists(Deployment)
      BY <2>1 DEF Exists, Absent, Ids
    <2> QED
      BY <2>1, <2>2, CallNames DEF PullOK, PullOfItsOwner, Working
  <1>2. TypeOK /\ TypeOK' /\ Guarded /\ Pulled /\ [Next]_vars => Pulled'
    <2> SUFFICES ASSUME TypeOK, TypeOK', Guarded, Pulled, [Next]_vars PROVE Pulled'
      OBVIOUS
    <2>1. PICK p : Procs = {p}
      BY DEF OneProcess
    <2>2. Sole(p) /\ GuardOK(p) /\ Acts(p) /\ PullOK(p)
      BY <2>1, SoleActs DEF Sole, Guarded
    <2>3. PullOK(p)'
      BY <2>2, PullNext
    <2> QED
      BY <2>1, <2>3
  <1>3. Pulled => PullOfItsOwner
    BY DEF OneProcess, PullOK
  <1> HIDE DEF Pulled
  <1> QED
    BY <1>1, <1>2, <1>3, TypeCorrect, GuardInvariance, PTL DEF Spec

-----------------------------------------------------------------------------
(* The status tells the truth: while ObservedGeneration is the generation, *)
(* what the spec asks for is there and what it switches off is not,        *)
(* whatever the cache showed to the reconcile that wrote it.  The pull     *)
(* policy of the Deployment may be the one of an older generation.         *)
THEOREM ObservedMeansApplied == OneProcess => (Spec => []ObservedIsApplied)
  <1> SUFFICES ASSUME OneProcess PROVE Spec => []ObservedIsApplied
    OBVIOUS
  <1>1. TypeOK /\ Applying /\ PullOfItsOwner => ObservedIsApplied
    <2> SUFFICES ASSUME TypeOK, Applying, PullOfItsOwner, Observing PROVE ObservedIsApplied
      BY DEF ObservedIsApplied, Observing
    <2>1. PICK p : Procs = {p}
      BY DEF OneProcess
    <2>2. Fulfilled(Current.spec, Before("statusGet"))
      BY <2>1 DEF Applying, ProgressOK
    <2>3. Current.spec \in SpecType
      BY <2>1, StoreFacts, TypeParts, SpecFacts
    <2>4. \A id \in Wanted(Current.spec) \cup SwitchedOff(Current.spec) :
              id[1] \in Before("statusGet")
      BY <2>3, SpecIds, BeforeFacts
    <2> QED
      BY <2>2, <2>4 DEF Fulfilled, ObservedIsApplied
  <1> QED
    BY <1>1, TypeCorrect, ApplyingInvariance, PullInvariance, PTL

-----------------------------------------------------------------------------
(* When nothing is under way.                                              *)

(* A write is news that the cache has yet to hear.                         *)
LEMMA WriteWakes ==
  ASSUME NEW p, Sole(p), \E o \in Objects : Write(o), UNCHANGED cached
  PROVE  ~Calm(p)'
  <1>1. RV \in Nat /\ cached[p] \in 1 .. RV /\ versions \in Seq(Objects)
    BY SoleFacts DEF StoreT
  <1>2. RV' = RV + 1
    BY <1>1, WriteFacts
  <1> QED
    BY <1>1, <1>2 DEF Calm

LEMMA ErrorWakes ==
  ASSUME NEW p, Sole(p), Return(p, TRUE)
  PROVE  ~Calm(p)'
  <1>1. timer'[p]
    BY SoleFacts DEF Return, Requeue, QueueT
  <1> QED
    BY <1>1 DEF Calm

LEMMA EventWakes ==
  ASSUME NEW p, Sole(p), Watch(p) \/ Timer(p) \/ Resync(p) \/ Crash(p)
  PROVE  ~Calm(p)'
  <1>1. p \in Procs /\ dirty \in [Procs -> BOOLEAN]
    BY SoleFacts DEF QueueT
  <1>2. CASE Watch(p) \/ Timer(p) \/ Resync(p)
    BY <1>1, <1>2 DEF Watch, Deliver, Timer, TimerFire, Resync, Calm
  <1>3. CASE Crash(p)
    <2>1. UNCHANGED versions /\ dirty'[p] = ~Current.gone
      BY <1>1, <1>3 DEF Crash, Relist
    <2> QED
      BY <2>1, SameHeld DEF Calm
  <1> QED
    BY <1>2, <1>3

(* Watched objects that were lost are ahead of the worker.                 *)
LostAhead(p) ==
    \A id \in Wanted(Current.spec) \cap drift \cap Watched :
        At(p, "addFinalizer") \/ (pc[p] \in Calls /\ id[1] \notin Before(pc[p]))

LEMMA WatchedKinds ==
  /\ Deployment \notin Watched
  /\ \A id \in Watched : id \in Ids /\ id[1] \in {"ServiceAccount", "Service"}
  /\ \A id \in Ids : id[1] \in {"ServiceAccount", "Service"} => id \in Watched
  BY DEF Watched, Deployment

LEMMA StartCalm ==
  ASSUME NEW p, Sole(p), GuardOK(p), GenerationOK(p),
         ReconcileNothing(p) \/ Start(p)
  PROVE  CalmOK(p)'
  <1> SUFFICES ASSUME Calm(p)' PROVE CalmOK(p)'
    BY DEF CalmOK
  <1>1. UNCHANGED <<versions, cached, objs, drift>> /\ p \in Procs
    BY SoleFacts DEF ReconcileNothing, Start, ownedVars
  <1>2. Current' = Current /\ cached[p] = RV /\ ~Current.gone /\ ~Current.deleting
    BY <1>1, SameHeld DEF Calm, RV
  <1>3. View(p) = Current
    BY <1>2 DEF View, Seen, Current
  <1>4. Start(p)
    BY <1>2, <1>3 DEF ReconcileNothing
  <1>5. gco'[p] = Current /\ pc'[p] \in {"deployment", "addFinalizer"}
    BY <1>2, <1>3, <1>4, SoleFacts DEF Start, GoTo
  <1>6. CASE pc'[p] = "deployment"
    <2>1. pc'[p] \in Calls /\ Before(pc'[p]) = {}
      BY <1>6, CallNames, BeforeFacts
    <2> QED
      BY <1>2, <1>5, <1>6, <2>1 DEF CalmOK, At
  <1>7. CASE pc'[p] = "addFinalizer"
    BY <1>2, <1>7, CallNames DEF CalmOK, At, Working
  <1> QED
    BY <1>5, <1>6, <1>7

LEMMA FinalizerCalm ==
  ASSUME NEW p, Sole(p),
         AddFinalizer(p) \/ RemoveFinalizer(p) \/ FinalizerRefused(p) \/ FinalizerFault(p)
  PROVE  CalmOK(p)'
  <1>1. CASE AddFinalizer(p) \/ RemoveFinalizer(p)
    <2>1. FinalizerAdded(p) \in Objects /\ FinalizerRemoved(p) \in Objects
      BY FinalizerType, SoleFacts
    <2> QED
      BY <1>1, <2>1, WriteWakes DEF AddFinalizer, RemoveFinalizer, CalmOK
  <1>2. CASE FinalizerRefused(p) \/ FinalizerFault(p)
    BY <1>2, ErrorWakes DEF FinalizerRefused, FinalizerFault, CalmOK
  <1> QED
    BY <1>1, <1>2

LEMMA ApplyCalm ==
  ASSUME NEW p, Sole(p), GuardOK(p), GenerationOK(p), CalmOK(p),
         Apply(p) \/ ApplyRefused(p) \/ ApplyFault(p)
  PROVE  CalmOK(p)'
  <1>1. CASE ApplyRefused(p) \/ ApplyFault(p)
    BY <1>1, ErrorWakes DEF ApplyRefused, ApplyFault, CalmOK
  <1>2. CASE Apply(p)
    <2> SUFFICES ASSUME Calm(p)' PROVE CalmOK(p)'
      BY DEF CalmOK
    <2>1. /\ UNCHANGED <<versions, cached, timer, gco>> /\ pc[p] \in Calls /\ p \in Procs
          /\ pc'[p] = NextCall(pc[p]) /\ Executed(p)
      BY <1>2, SoleFacts DEF Apply, GoTo
    <2>2. Current' = Current /\ RV' = RV
      BY <2>1, SameHeld DEF RV
    <2>3. ~dirty[p]
      BY <2>1 DEF Calm, Executed, Notify
    <2>4. Calm(p)
      BY <2>1, <2>2, <2>3 DEF Calm
    <2>5. pc[p] \in Working /\ gco[p].gen = Current.gen /\ LostAhead(p)
      BY <2>1, <2>4 DEF CalmOK, LostAhead, Working
    <2>6. gco[p].spec = Current.spec
      BY <2>5, SameSpec
    <2>7. pc'[p] \in Working /\ pc'[p] # "idle"
      BY <2>1, CallNames DEF Working
    <2>8. LostAhead(p)'
      <3> SUFFICES ASSUME NEW id \in Wanted(Current.spec) \cap drift' \cap Watched
                   PROVE  pc'[p] \in Calls /\ id[1] \notin Before(pc'[p])
        BY <2>2 DEF LostAhead
      <3>1. id # Deployment /\ id[1] \in {"ServiceAccount", "Service"}
        BY WatchedKinds
      <3>2. id \in drift /\ (id = Target(p) => ~CallMade(p))
        <4>1. CASE At(p, "deployment") /\ dep[p] # objs[Deployment]
          <5>1. drift' = drift \cup {Deployment} /\ Target(p) = Deployment
            BY <2>1, <4>1 DEF Executed, At, Target
          <5> QED
            BY <3>1, <5>1
        <4>2. CASE ~(At(p, "deployment") /\ dep[p] # objs[Deployment])
          <5>1. drift' = IF CallMade(p) THEN drift \ {Target(p)} ELSE drift
            BY <2>1, <4>2 DEF Executed
          <5> QED
            BY <5>1
        <4> QED
          BY <4>1, <4>2
      <3>3. id[1] # Kind(pc[p])
        BY <2>1, <2>6, <3>2, CallTarget
      <3>4. id[1] \notin Before(pc[p])
        BY <2>1, <2>5, <3>2, CallNames DEF LostAhead, At
      <3>5. id[1] \notin Before(pc'[p])
        BY <2>1, <3>3, <3>4, KindFacts
      <3>6. pc'[p] # "statusGet"
        BY <3>1, <3>5, BeforeFacts DEF Kinds
      <3> QED
        BY <2>1, <3>5, <3>6, CallNames
    <2> QED
      BY <2>1, <2>2, <2>5, <2>7, <2>8 DEF CalmOK, LostAhead, At
  <1> QED
    BY <1>1, <1>2

LEMMA StatusCalm ==
  ASSUME NEW p, Sole(p), GuardOK(p), CalmOK(p),
         StatusGet(p) \/ StatusOk(p) \/ StatusRefused(p) \/ StatusFault(p)
  PROVE  CalmOK(p)'
  <1>1. CASE Return(p, TRUE)
    BY <1>1, ErrorWakes DEF CalmOK
  <1> SUFFICES ASSUME ~Return(p, TRUE), Calm(p)' PROVE CalmOK(p)'
    BY <1>1 DEF CalmOK
  <1>2. /\ UNCHANGED <<cached, dirty, objs, drift>> /\ p \in Procs
        /\ pc[p] \in {"statusGet", "statusPut"}
    BY SoleFacts DEF StatusGet, StatusOk, StatusRefused, StatusFault, ownedVars, At
  <1>3. pc[p] \in Working /\ pc[p] \notin Calls
    BY <1>2, CallNames DEF Working
  <1>4. CASE /\ UNCHANGED <<versions, timer, gco>>
             /\ pc'[p] \in {"statusGet", "statusPut"}
    <2>1. Calm(p) /\ Current' = Current
      BY <1>2, <1>4, SameHeld DEF Calm, RV
    <2>2. gco[p].gen = Current.gen /\ Wanted(Current.spec) \cap drift \cap Watched = {}
      BY <1>2, <1>3, <2>1 DEF CalmOK, At
    <2> QED
      BY <1>2, <1>4, <2>1, <2>2 DEF CalmOK, At
  <1>5. CASE StatusOk(p)
    <2>1. StatusWritten(p) /\ Leave(p)
      BY <1>5 DEF StatusOk, StatusWritten, Return
    <2>2. /\ UNCHANGED versions \/ Write(Ready(p))
          /\ Current' = Ready(p) /\ Ready(p) \in Objects /\ Ready(p).observed = gco[p].gen
          /\ ~Current.gone
      BY <2>1, StatusWrites DEF StatusWritten
    <2>3. UNCHANGED versions
      BY <1>2, <2>2, WriteWakes
    <2>4. timer'[p] = timer[p]
      BY <1>2, <1>5, SoleFacts DEF StatusOk, Return, Requeue, QueueT
    <2>5. Calm(p) /\ Current' = Current
      BY <1>2, <2>3, <2>4, SameHeld DEF Calm, RV
    <2>6. gco[p].gen = Current.gen /\ Wanted(Current.spec) \cap drift \cap Watched = {}
      BY <1>2, <1>3, <2>5 DEF CalmOK, At
    <2>7. Observing'
      BY <2>2, <2>5, <2>6 DEF Observing
    <2>8. pc'[p] = "idle" /\ pc'[p] \notin Working
      <3>1. pc'[p] = "idle"
        BY <2>1, SoleFacts DEF Leave, GoTo
      <3> QED
        BY <3>1, CallNames DEF Working
    <2> QED
      BY <1>2, <2>5, <2>6, <2>7, <2>8 DEF CalmOK
  <1>6. CASE StatusGet(p) \/ StatusRefused(p)
    BY <1>4, <1>6, SoleFacts DEF StatusGet, StatusRefused, GoTo
  <1>7. ~StatusFault(p)
    BY DEF StatusFault
  <1> QED
    BY <1>5, <1>6, <1>7

LEMMA EnvironmentCalm ==
  ASSUME NEW p, Sole(p), CalmOK(p),
         \/ Watch(p) \/ WatchDeployment(p) \/ Timer(p) \/ Crash(p) \/ Resync(p)
         \/ Environment \/ UNCHANGED vars
  PROVE  CalmOK(p)'
  <1>1. CASE Watch(p) \/ Timer(p) \/ Crash(p) \/ Resync(p)
    BY <1>1, EventWakes DEF CalmOK
  <1>2. CASE UserEdit \/ UserDelete \/ UserRecreate
    <2>1. UNCHANGED cached /\ \E o \in Objects : Write(o)
      BY <1>2, UserWrites DEF UserEdit, UserDelete, UserRecreate
    <2> QED
      BY <2>1, WriteWakes DEF CalmOK
  <1>3. ASSUME UNCHANGED <<versions, cached, timer, pc, gco>>, dirty[p] => dirty'[p],
               Calm(p)' => drift' \cap Watched \subseteq drift
        PROVE  CalmOK(p)'
    <2> SUFFICES ASSUME Calm(p)' PROVE CalmOK(p)'
      BY DEF CalmOK
    <2>1. Current' = Current /\ Calm(p) /\ (Observing' <=> Observing)
      BY <1>3, SameHeld DEF Calm, RV, Observing
    <2>2. /\ At(p, "idle") => Observing
          /\ pc[p] \in Working => gco[p].gen = Current.gen
          /\ LostAhead(p)
      BY <2>1 DEF CalmOK, LostAhead
    <2>3. LostAhead(p)'
      BY <1>3, <2>1, <2>2 DEF LostAhead, At
    <2> QED
      BY <1>3, <2>1, <2>2, <2>3 DEF CalmOK, LostAhead, At
  <1>4. CASE WatchDeployment(p) \/ UNCHANGED vars
    BY <1>3, <1>4 DEF WatchDeployment, vars, kubeVars, workerVars, ownedVars
  <1>5. CASE OthersScale
    <2>1. /\ UNCHANGED <<versions, cached, dirty, timer, pc, gco>>
          /\ drift' = drift \cup {Deployment}
      BY <1>5 DEF OthersScale, kubeVars, workerVars
    <2> QED
      BY <1>3, <2>1, WatchedKinds
  <1>6. CASE Collect \/ OthersRemove
    <2>1. PICK D \in SUBSET Ids : Lose(D) /\ \A id \in D : Exists(id)
      <3>1. CASE Collect
        BY <1>6, <3>1 DEF Collect
      <3>2. CASE OthersRemove
        BY <1>6, <3>2 DEF OthersRemove
      <3> QED
        BY <1>6, <3>1, <3>2
    <2>2. p \in Procs /\ Absent.owner = 0
      BY SoleFacts DEF Absent
    <2>3. \A id \in D : objs'[id] # objs[id]
      BY <2>1, <2>2 DEF Lose, Exists
    <2>4. dirty'[p] <=> dirty[p] \/ \E id \in D \cap Watched : objs'[id] # objs[id]
      BY <2>1, <2>2 DEF Lose, Notify
    <2>5. Calm(p)' => drift' \cap Watched \subseteq drift
      BY <2>1, <2>3, <2>4 DEF Calm, Lose
    <2>6. UNCHANGED <<versions, cached, timer, pc, gco>>
      BY <2>1 DEF Lose, workerVars
    <2> QED
      BY <1>3, <2>4, <2>5, <2>6
  <1> QED
    BY <1>1, <1>2, <1>4, <1>5, <1>6 DEF Environment

LEMMA CalmNext ==
  ASSUME NEW p, Sole(p), GuardOK(p), GenerationOK(p), CalmOK(p), Acts(p)
  PROVE  CalmOK(p)'
  BY StartCalm, FinalizerCalm, ApplyCalm, StatusCalm, EnvironmentCalm DEF Acts

(* No lost wake-up: with nothing queued, delayed or undelivered the spec   *)
(* is applied, but for an edit of the pull policy, and the status says so; *)
(* a ServiceAccount or a Service that somebody removed has been made again.*)
THEOREM QuietIsApplied == OneProcess => (Spec => []QuietMeansApplied)
  <1> SUFFICES ASSUME OneProcess PROVE Spec => []QuietMeansApplied
    OBVIOUS
  <1> DEFINE Calmed == \A p \in Procs : CalmOK(p)
  <1>1. Init => Calmed
    <2>1. Init => \A p \in Procs : dirty[p]
      BY DEF Init, KubeInit
    <2> QED
      BY <2>1 DEF CalmOK, Calm
  <1>2. TypeOK /\ TypeOK' /\ Guarded /\ Applying /\ Calmed /\ [Next]_vars => Calmed'
    <2> SUFFICES ASSUME TypeOK, TypeOK', Guarded, Applying, Calmed, [Next]_vars
                 PROVE  Calmed'
      OBVIOUS
    <2>1. PICK p : Procs = {p}
      BY DEF OneProcess
    <2>2. Sole(p) /\ GuardOK(p) /\ GenerationOK(p) /\ CalmOK(p) /\ Acts(p)
      BY <2>1, SoleActs DEF Sole, Guarded, Applying
    <2>3. CalmOK(p)'
      BY <2>2, CalmNext
    <2> QED
      BY <2>1, <2>3
  <1>3. TypeOK /\ Applying /\ Calmed => QuietMeansApplied
    <2> SUFFICES ASSUME TypeOK, Applying, Calmed, NEW p \in Procs, Quiet(p)
                 PROVE  /\ Current.observed = Current.gen
                        /\ \A id \in Wanted(Current.spec) :
                              Applied(id, Current.spec)
                              \/ (id \in drift /\ id[1] \notin {"ServiceAccount", "Service"})
      BY DEF QuietMeansApplied
    <2>1. Calm(p) /\ At(p, "idle") /\ CalmOK(p)
      BY DEF Quiet, Calm
    <2>2. Observing /\ Wanted(Current.spec) \cap drift \cap Watched = {}
      BY <2>1, CallNames DEF CalmOK, At
    <2>3. Fulfilled(Current.spec, Before("statusGet"))
      BY <2>2 DEF Applying, ProgressOK
    <2>4. Current.spec \in SpecType
      BY StoreFacts, TypeParts, SpecFacts
    <2>5. \A id \in Wanted(Current.spec) : id \in Ids /\ id[1] \in Before("statusGet")
      BY <2>4, SpecIds, BeforeFacts
    <2> QED
      BY <2>2, <2>3, <2>5, WatchedKinds DEF Fulfilled, Observing
  <1> HIDE DEF Calmed
  <1> QED
    BY <1>1, <1>2, <1>3, TypeCorrect, GuardInvariance, ApplyingInvariance, PTL DEF Spec
=============================================================================
