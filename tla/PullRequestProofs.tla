------------------------- MODULE PullRequestProofs --------------------------
(***************************************************************************)
(* Theorems about PullRequest, for every value of its constants: any       *)
(* number of processes, with or without cache lag, and any bounds.         *)
(***************************************************************************)
EXTENDS PullRequest, TLAPS

-----------------------------------------------------------------------------
(* Objects and versions.                                                   *)

LEMMA NewObjectType ==
  ASSUME NEW r \in BOOLEAN
  PROVE  NewObject(r) \in Objects /\ ~IsSettled(NewObject(r))
  BY DEF NewObject, Objects, Phases, IsSettled

(* What the store keeps from its older versions in every step.             *)
OldKept ==
    /\ versions' \in Seq(Objects)
    /\ RV \in Nat /\ RV' \in Nat /\ RV >= 1 /\ RV <= RV'
    /\ \A k \in 1 .. RV : versions'[k] = versions[k]

LEMMA NothingWritten ==
  ASSUME StoreOK, UNCHANGED versions
  PROVE  OldKept /\ RV' = RV
  BY DEF OldKept, StoreOK, RV

LEMMA WriteType ==
  ASSUME StoreOK, NEW o \in Objects, Write(o)
  PROVE  OldKept /\ RV' = RV + 1 /\ versions'[RV + 1] = o
  BY DEF OldKept, StoreOK, RV, Write

(* GitHub only adds pull requests.                                         *)
LEMMA OpensMore ==
  ASSUME WorldOK, GitHubOpens
  PROVE  /\ prs' \in Seq(Nat) /\ prOpen' \in BOOLEAN
         /\ DOMAIN prs \subseteq DOMAIN prs'
         /\ Len(prs) + 1 \in DOMAIN prs' /\ Len(prs) + 1 \in Nat
  BY DEF WorldOK, GitHubOpens

-----------------------------------------------------------------------------
(* The parts of the invariant under the building blocks of the actions.    *)

LEMMA StoreKept ==
  ASSUME StoreOK, UNCHANGED <<versions, cached>>, DOMAIN prs \subseteq DOMAIN prs'
  PROVE  StoreOK'
  BY DEF StoreOK, CreatedIsOpened, RV

LEMMA StoreWritten ==
  ASSUME StoreOK, NEW o \in Objects, Write(o),
         o.phase = "Created" => o.number \in DOMAIN prs,
         UNCHANGED <<cached, prs>>
  PROVE  StoreOK'
  <1>1. OldKept /\ RV' = RV + 1 /\ versions'[RV + 1] = o
    BY WriteType
  <1>2. CreatedIsOpened'
    <2> SUFFICES ASSUME NEW k \in 1 .. RV', versions'[k].phase = "Created"
                 PROVE  versions'[k].number \in DOMAIN prs
      BY DEF CreatedIsOpened
    <2>1. k \in 1 .. RV \/ k = RV + 1
      BY <1>1 DEF OldKept
    <2> QED
      BY <1>1, <2>1 DEF OldKept, StoreOK, CreatedIsOpened
  <1>3. cached' \in [Procs -> 1 .. RV']
    <2>1. 1 .. RV \subseteq 1 .. RV'
      BY <1>1 DEF OldKept
    <2> QED
      BY <2>1 DEF StoreOK
  <1> QED
    BY <1>1, <1>2, <1>3 DEF StoreOK, OldKept

LEMMA LocalsKept ==
  ASSUME LocalsOK, OldKept, UNCHANGED workerVars, DOMAIN prs \subseteq DOMAIN prs'
  PROVE  LocalsOK'
  <1>1. 1 .. RV \subseteq 1 .. RV'
    BY DEF OldKept
  <1>2. \A q \in Procs : versions'[rv[q]] = versions[rv[q]]
    BY DEF OldKept, LocalsOK
  <1> QED
    BY <1>1, <1>2 DEF LocalsOK, workerVars, UnsettledCopies, HoldsNumber, At

LEMMA LeaveOK ==
  ASSUME StoreOK, LocalsOK, OldKept, NEW p \in Procs, Leave(p),
         DOMAIN prs \subseteq DOMAIN prs'
  PROVE  LocalsOK'
  <1>1. 1 .. RV \subseteq 1 .. RV' /\ 1 \in 1 .. RV'
    BY DEF OldKept
  <1>2. \A q \in Procs : versions'[rv[q]] = versions[rv[q]]
    BY DEF OldKept, LocalsOK
  <1>3. versions[1] \in Objects
    BY DEF StoreOK, RV
  <1>4. /\ pc' \in [Procs -> PCs] /\ obj' \in [Procs -> Objects]
        /\ rv' \in [Procs -> 1 .. RV'] /\ want' \in [Procs -> Wants]
    BY <1>1, <1>3 DEF LocalsOK, Leave, GoTo, PCs, Wants, Phases
  <1>5. UnsettledCopies'
    BY <1>2 DEF UnsettledCopies, LocalsOK, Leave, GoTo
  <1>6. HoldsNumber'
    BY DEF HoldsNumber, LocalsOK, Leave, GoTo, At
  <1> QED
    BY <1>4, <1>5, <1>6 DEF LocalsOK

(* A worker with an unsettled copy goes on with it.                        *)
LEMMA LocalsMoved ==
  ASSUME LocalsOK, OldKept, NEW p \in Procs, NEW l \in PCs \ {"put"},
         pc[p] \notin {"idle", "delete"} \/ l = "delete",
         GoTo(p, l), UNCHANGED <<obj, rv, want, versions, prs>>
  PROVE  LocalsOK'
  BY DEF LocalsOK, GoTo, PCs, UnsettledCopies, HoldsNumber, At, RV

LEMMA UpdateStatusOK ==
  ASSUME LocalsOK, NEW p \in Procs, NEW w \in Wants,
         pc[p] \notin {"idle", "delete"},
         UpdateStatus(p, w), UNCHANGED <<rv, versions>>,
         obj' \in [Procs -> Objects],
         \A q \in Procs : q # p => obj'[q] = obj[q],
         DOMAIN prs \subseteq DOMAIN prs',
         w = "Created" => obj'[p].number \in DOMAIN prs'
  PROVE  LocalsOK'
  <1>1. /\ pc' \in [Procs -> PCs] /\ rv' \in [Procs -> 1 .. RV']
        /\ want' \in [Procs -> Wants]
    BY DEF LocalsOK, UpdateStatus, GoTo, PCs, RV
  <1>2. UnsettledCopies'
    BY DEF LocalsOK, UpdateStatus, GoTo, UnsettledCopies
  <1>3. HoldsNumber'
    BY DEF LocalsOK, UpdateStatus, GoTo, HoldsNumber, At
  <1> QED
    BY <1>1, <1>2, <1>3 DEF LocalsOK

LEMMA RequeueType ==
  ASSUME WorldOK, NEW p \in Procs, NEW again \in BOOLEAN, Requeue(p, again)
  PROVE  timer' \in [Procs -> BOOLEAN]
  BY DEF WorldOK, Requeue

LEMMA MishapType ==
  ASSUME WorldOK, Mishap PROVE mishaps' \in 0 .. MaxMishaps
  BY PullRequestAssumption DEF WorldOK, Mishap

-----------------------------------------------------------------------------
(* The initial states, and one lemma per group of actions.                 *)

LEMMA InitInv == Init => IInv
  <1> SUFFICES ASSUME Init PROVE IInv
    OBVIOUS
  <1>1. PICK r \in RestChoices : KubeInit(NewObject(r))
    BY DEF Init
  <1>2. PICK o \in Objects : o = NewObject(r) /\ o.phase = ""
    BY NewObjectType, PullRequestAssumption DEF NewObject
  <1>3. /\ versions = <<o>> /\ RV = 1 /\ versions[1] = o
        /\ versions \in Seq(Objects)
    <2>1. versions = <<o>>
      BY <1>1, <1>2 DEF KubeInit
    <2> QED
      BY <2>1 DEF RV
  <1>4. StoreOK
    <2>1. cached \in [Procs -> 1 .. RV]
      BY <1>1, <1>3 DEF KubeInit
    <2>2. CreatedIsOpened
      <3>1. \A k \in 1 .. RV : k = 1
        BY <1>3
      <3> QED
        BY <1>2, <1>3, <3>1 DEF CreatedIsOpened
    <2> QED
      BY <1>3, <2>1, <2>2 DEF StoreOK
  <1>5. LocalsOK
    <2>1. pc \in [Procs -> PCs] /\ want \in [Procs -> Wants]
      BY DEF Init, PCs, Wants, Phases
    <2>2. obj \in [Procs -> Objects] /\ rv \in [Procs -> 1 .. RV]
      BY <1>3 DEF Init
    <2>3. \A p \in Procs : pc[p] = "idle"
      BY DEF Init
    <2> QED
      BY <2>1, <2>2, <2>3 DEF LocalsOK, UnsettledCopies, HoldsNumber, At
  <1>6. WorldOK
    <2>1. dirty \in [Procs -> BOOLEAN] /\ timer \in [Procs -> BOOLEAN]
      BY <1>1 DEF KubeInit
    <2>2. branch \in SUBSET Nat
      BY DEF Init
    <2>3. prOpen \in BOOLEAN
      BY DEF Init
    <2>4. expired \in BOOLEAN /\ attempts \in Nat
      BY DEF Init
    <2>5. prs \in Seq(Nat)
      <3>1. prs = <<>>
        BY DEF Init
      <3> QED
        BY <3>1
    <2>6. /\ unmet \in 0 .. MaxUnmet /\ closes \in 0 .. MaxCloses
          /\ mishaps \in 0 .. MaxMishaps
      BY PullRequestAssumption DEF Init
    <2> QED
      BY <2>1, <2>2, <2>3, <2>4, <2>5, <2>6 DEF WorldOK
  <1> QED
    BY <1>4, <1>5, <1>6 DEF IInv

LEMMA CurrentOK ==
  ASSUME IInv
  PROVE  Current \in Objects /\ RV \in 1 .. RV /\
         (Current.phase = "Created" => Current.number \in DOMAIN prs)
  BY DEF IInv, StoreOK, RV, Current, CreatedIsOpened

LEMMA ReconcileInv ==
  ASSUME IInv, NEW p \in Procs,
         ReconcileGone(p) \/ ReconcileExpired(p) \/ ReconcileSettled(p)
  PROVE  IInv'
  <1> USE DEF IInv, Begin, TakeKey
  <1>1. /\ UNCHANGED <<versions, cached, worldVars, boundVars>>
        /\ dirty' \in [Procs -> BOOLEAN] /\ timer' \in [Procs -> BOOLEAN]
    BY RequeueType DEF ReconcileGone, ReconcileExpired, ReconcileSettled, WorldOK
  <1>2. OldKept /\ DOMAIN prs \subseteq DOMAIN prs' /\ UNCHANGED prs
    BY <1>1, NothingWritten DEF worldVars, remoteVars
  <1>3. StoreOK'
    BY <1>1, <1>2, StoreKept
  <1>4. LocalsOK'
    <2>1. CASE ReconcileExpired(p)
      BY <2>1, <1>1, <1>2, LocalsMoved DEF ReconcileExpired, PCs
    <2>2. CASE ReconcileGone(p) \/ ReconcileSettled(p)
      BY <2>2, <1>2, LocalsKept DEF ReconcileGone, ReconcileSettled
    <2> QED
      BY <2>1, <2>2
  <1>5. WorldOK'
    BY <1>1 DEF WorldOK, worldVars, remoteVars, boundVars
  <1> QED
    BY <1>3, <1>4, <1>5

LEMMA StartInv ==
  ASSUME IInv, NEW p \in Procs, Start(p)
  PROVE  IInv'
  <1> USE DEF IInv, Start, Begin, TakeKey
  <1>1. OldKept /\ DOMAIN prs \subseteq DOMAIN prs' /\ RV' = RV
    BY NothingWritten DEF worldVars, remoteVars
  <1>2. StoreOK'
    BY <1>1, StoreKept DEF worldVars, remoteVars
  <1>3. WorldOK'
    BY DEF WorldOK, worldVars, remoteVars, boundVars
  <1>4. Seen(p) \in 1 .. RV /\ View(p) \in Objects
    BY DEF Seen, View, StoreOK, RV
  <1>5. /\ pc' \in [Procs -> PCs] /\ obj' \in [Procs -> Objects]
        /\ rv' \in [Procs -> 1 .. RV'] /\ want' \in [Procs -> Wants]
    BY <1>1, <1>4 DEF LocalsOK, UpdateStatus, GoTo, PCs, Wants, Phases
  <1>6. \A q \in Procs : q # p =>
            pc'[q] = pc[q] /\ obj'[q] = obj[q] /\ rv'[q] = rv[q] /\ want'[q] = want[q]
    BY DEF LocalsOK, UpdateStatus, GoTo
  <1>7. pc'[p] = "put" => want'[p] = "Running"
    BY DEF LocalsOK, UpdateStatus, GoTo
  <1>8. UnsettledCopies'
    BY <1>4, <1>6 DEF UnsettledCopies, LocalsOK, View
  <1>9. HoldsNumber'
    BY <1>6, <1>7 DEF HoldsNumber, LocalsOK, At, worldVars, remoteVars
  <1> QED
    BY <1>2, <1>3, <1>5, <1>8, <1>9 DEF LocalsOK

(* A Delete appends a version that only differs in gone.                   *)
LEMMA GoneOK ==
  ASSUME IInv
  PROVE  /\ [Current EXCEPT !.gone = TRUE] \in Objects
         /\ [Current EXCEPT !.gone = TRUE].phase = Current.phase
         /\ [Current EXCEPT !.gone = TRUE].number = Current.number
  BY CurrentOK DEF Objects

(* An edit is a write that keeps phase and number.                         *)
LEMMA EditOK ==
  ASSUME IInv, NEW r \in RestChoices
  PROVE  LET o == [Current EXCEPT !.gen = @ + 1, !.rest = r]
         IN  o \in Objects /\ o.phase = Current.phase /\ o.number = Current.number
  <1>1. r \in BOOLEAN
    BY PullRequestAssumption
  <1>2. Current.gen + 1 \in Nat
    BY CurrentOK DEF Objects
  <1> QED
    BY <1>1, <1>2, CurrentOK DEF Objects

LEMMA DeleteInv ==
  ASSUME IInv, NEW p \in Procs, Delete(p) \/ DeleteFault(p)
  PROVE  IInv'
  <1> USE DEF IInv
  <1>1. /\ UNCHANGED <<cached, dirty, worldVars, unmet, closes>> /\ Leave(p)
        /\ timer' \in [Procs -> BOOLEAN] /\ mishaps' \in 0 .. MaxMishaps
        /\ UNCHANGED versions \/ Write([Current EXCEPT !.gone = TRUE])
    <2>1. mishaps' \in 0 .. MaxMishaps
      BY MishapType DEF Delete, DeleteFault, WorldOK, boundVars
    <2>2. Leave(p) /\ timer' \in [Procs -> BOOLEAN]
      BY RequeueType DEF Delete, DeleteFault, Return
    <2> QED
      BY <2>1, <2>2 DEF Delete, DeleteFault, boundVars
  <1>2. UNCHANGED prs
    BY <1>1 DEF worldVars, remoteVars
  <1>3. OldKept /\ StoreOK'
    <2>1. CASE UNCHANGED versions
      BY <1>1, <1>2, <2>1, NothingWritten, StoreKept
    <2>2. CASE Write([Current EXCEPT !.gone = TRUE])
      BY <1>1, <1>2, <2>2, GoneOK, CurrentOK, WriteType, StoreWritten
    <2> QED
      BY <1>1, <2>1, <2>2
  <1>4. LocalsOK'
    BY <1>1, <1>2, <1>3, LeaveOK
  <1>5. WorldOK'
    BY <1>1 DEF WorldOK, worldVars, remoteVars
  <1> QED
    BY <1>3, <1>4, <1>5

LEMMA RestInv ==
  ASSUME IInv, NEW p \in Procs, RestMet(p) \/ RestUnmet(p) \/ RestError(p)
  PROVE  IInv'
  <1> USE DEF IInv
  <1>1. /\ UNCHANGED <<kubeVars, obj, rv, worldVars, closes, mishaps>>
        /\ unmet' \in 0 .. MaxUnmet /\ At(p, "rest")
    BY PullRequestAssumption DEF RestMet, RestUnmet, RestError, WorldOK, boundVars
  <1>2. PICK w \in Wants \ {"Created"} : UpdateStatus(p, w)
    BY DEF RestMet, RestUnmet, RestError, Wants, Phases
  <1>3. UNCHANGED <<versions, cached, dirty, timer, prs>>
    BY <1>1 DEF kubeVars, worldVars, remoteVars
  <1>4. StoreOK'
    BY <1>3, StoreKept
  <1>5. LocalsOK'
    BY <1>1, <1>2, <1>3, UpdateStatusOK DEF LocalsOK, At
  <1>6. WorldOK'
    BY <1>1, <1>3 DEF WorldOK, worldVars, remoteVars
  <1> QED
    BY <1>4, <1>5, <1>6

(* What a worker puts, and the version it replaces.                        *)
LEMMA WrittenOK ==
  ASSUME IInv, NEW p \in Procs, At(p, "put")
  PROVE  /\ Written(p) \in Objects
         /\ Written(p).phase = want[p]
         /\ Written(p).phase = "Created" => Written(p).number \in DOMAIN prs
         /\ rv[p] = RV => ~IsSettled(Current)
  <1>1. /\ obj[p] \in Objects /\ want[p] \in Wants
        /\ want[p] = "Created" => obj[p].number \in DOMAIN prs
        /\ ~IsSettled(versions[rv[p]])
    BY DEF IInv, LocalsOK, HoldsNumber, UnsettledCopies, At
  <1> QED
    BY <1>1 DEF Written, Objects, Wants, Current

LEMMA PutOkInv ==
  ASSUME IInv, NEW p \in Procs, PutOk(p)
  PROVE  IInv'
  <1> USE DEF IInv
  <1>1. /\ At(p, "put") /\ Write(Written(p)) /\ UpdateDone(p)
        /\ UNCHANGED <<cached, dirty, branch, prs, prOpen, expired, boundVars>>
        /\ attempts' \in Nat
    BY DEF PutOk, CountAttempt, WorldOK, remoteVars
  <1>2. OldKept /\ RV' = RV + 1 /\ versions'[RV + 1] = Written(p)
    BY <1>1, WrittenOK, WriteType
  <1>3. StoreOK'
    BY <1>1, WrittenOK, StoreWritten
  <1>4. CASE want[p] = "Running"
    <2>1. /\ GoTo(p, "auth") /\ obj' = [obj EXCEPT ![p] = Written(p)]
          /\ rv' = [rv EXCEPT ![p] = RV + 1] /\ UNCHANGED <<want, timer>>
      BY <1>1, <1>4 DEF UpdateDone, Adopt
    <2>2. 1 .. RV \subseteq 1 .. RV' /\ RV + 1 \in 1 .. RV'
      BY <1>2 DEF OldKept
    <2>3. /\ pc' \in [Procs -> PCs] /\ obj' \in [Procs -> Objects]
          /\ rv' \in [Procs -> 1 .. RV'] /\ want' \in [Procs -> Wants]
      BY <1>1, <2>1, <2>2, WrittenOK DEF LocalsOK, GoTo, PCs
    <2>4. UnsettledCopies'
      <3> SUFFICES ASSUME NEW q \in Procs, pc'[q] \notin {"idle", "delete"}
                   PROVE  ~IsSettled(versions'[rv'[q]])
        BY DEF UnsettledCopies
      <3>1. CASE q = p
        <4>1. versions'[rv'[q]] = Written(p)
          BY <1>2, <2>1, <3>1 DEF LocalsOK
        <4> QED
          BY <1>1, <1>4, <4>1, WrittenOK DEF IsSettled
      <3>2. CASE q # p
        BY <1>2, <2>1, <3>2 DEF LocalsOK, GoTo, OldKept, UnsettledCopies
      <3> QED
        BY <3>1, <3>2
    <2>5. HoldsNumber'
      BY <1>1, <2>1 DEF HoldsNumber, LocalsOK, GoTo, At
    <2>6. WorldOK'
      BY <1>1, <2>1 DEF WorldOK, boundVars
    <2> QED
      BY <1>3, <2>3, <2>4, <2>5, <2>6 DEF LocalsOK
  <1>5. CASE want[p] # "Running"
    <2>1. Leave(p) /\ timer' \in [Procs -> BOOLEAN]
      BY <1>1, <1>5, RequeueType DEF UpdateDone, Return
    <2>2. LocalsOK'
      BY <1>1, <1>2, <2>1, LeaveOK
    <2>3. WorldOK'
      BY <1>1, <2>1 DEF WorldOK, boundVars
    <2> QED
      BY <1>3, <2>2, <2>3
  <1> QED
    BY <1>4, <1>5

LEMMA PutFailedInv ==
  ASSUME IInv, NEW p \in Procs, PutRefused(p) \/ PutFault(p)
  PROVE  IInv'
  <1> USE DEF IInv
  <1>1. /\ At(p, "put") /\ Leave(p) /\ timer' \in [Procs -> BOOLEAN]
        /\ UNCHANGED <<cached, dirty, branch, prs, prOpen, expired, unmet, closes>>
        /\ mishaps' \in 0 .. MaxMishaps /\ attempts' \in Nat
        /\ UNCHANGED versions \/ Write(Written(p))
    <2>1. mishaps' \in 0 .. MaxMishaps
      BY MishapType DEF PutRefused, PutFault, WorldOK, boundVars
    <2>2. Leave(p) /\ timer' \in [Procs -> BOOLEAN]
      BY RequeueType DEF PutRefused, PutFault, UpdateFailed, Return
    <2>3. attempts' \in Nat
      BY DEF PutRefused, PutFault, CountAttempt, WorldOK, worldVars
    <2> QED
      BY <2>1, <2>2, <2>3 DEF PutRefused, PutFault, worldVars, remoteVars, boundVars
  <1>2. OldKept /\ StoreOK'
    <2>1. CASE UNCHANGED versions
      BY <1>1, <2>1, NothingWritten, StoreKept
    <2>2. CASE Write(Written(p))
      BY <1>1, <2>2, WrittenOK, WriteType, StoreWritten
    <2> QED
      BY <1>1, <2>1, <2>2
  <1>3. LocalsOK'
    BY <1>1, <1>2, LeaveOK
  <1>4. WorldOK'
    BY <1>1 DEF WorldOK
  <1> QED
    BY <1>2, <1>3, <1>4

LEMMA WorkInv ==
  ASSUME IInv, NEW p \in Procs,
         Auth(p) \/ PushAccepted(p) \/ PushRefused(p) \/ PushFailed(p) \/ OpenFailed(p)
  PROVE  IInv'
  <1> USE DEF IInv
  <1>1. /\ UNCHANGED <<kubeVars, obj, rv, prs, prOpen, expired, attempts, boundVars>>
        /\ pc[p] \in {"auth", "push", "open"} /\ branch' \in SUBSET Nat
    BY DEF Auth, PushAccepted, PushRefused, PushFailed, OpenFailed, At, worldVars,
           remoteVars, WorldOK, LocalsOK, Objects
  <1>2. OldKept /\ UNCHANGED <<versions, cached>>
    BY <1>1, NothingWritten DEF kubeVars
  <1>3. StoreOK'
    BY <1>1, <1>2, StoreKept
  <1>4. LocalsOK'
    <2>1. CASE UpdateStatus(p, "Failed")
      BY <1>1, <1>2, <2>1, UpdateStatusOK DEF LocalsOK, Wants, Phases
    <2>2. CASE (GoTo(p, "push") \/ GoTo(p, "open")) /\ UNCHANGED want
      BY <1>1, <1>2, <2>2, LocalsMoved DEF PCs
    <2> QED
      BY <2>1, <2>2 DEF Auth, PushAccepted, PushRefused, PushFailed, OpenFailed
  <1>5. WorldOK'
    BY <1>1 DEF WorldOK, kubeVars, boundVars
  <1> QED
    BY <1>3, <1>4, <1>5

LEMMA OpenInv ==
  ASSUME IInv, NEW p \in Procs, Opened(p) \/ OpenLost(p)
  PROVE  IInv'
  <1> USE DEF IInv
  <1>1. /\ UNCHANGED <<kubeVars, rv, branch, expired, attempts, unmet, closes>>
        /\ At(p, "open") /\ GitHubOpens /\ mishaps' \in 0 .. MaxMishaps
    BY PullRequestAssumption DEF Opened, OpenLost, Mishap, WorldOK, boundVars
  <1>2. OldKept /\ UNCHANGED <<versions, cached, dirty, timer>>
    BY <1>1, NothingWritten DEF kubeVars
  <1>3. StoreOK'
    BY <1>1, <1>2, OpensMore, StoreKept
  <1>4. LocalsOK'
    <2>1. CASE Opened(p)
      <3>1. /\ obj' = [obj EXCEPT ![p].number = Len(prs) + 1]
            /\ UpdateStatus(p, "Created")
        BY <2>1 DEF Opened
      <3>2. /\ obj' \in [Procs -> Objects] /\ obj'[p].number = Len(prs) + 1
            /\ \A q \in Procs : q # p => obj'[q] = obj[q]
        BY <1>1, <3>1, OpensMore DEF LocalsOK, Objects
      <3> QED
        BY <1>1, <1>2, <3>1, <3>2, OpensMore, UpdateStatusOK DEF At, Wants, Phases
    <2>2. CASE OpenLost(p)
      BY <1>1, <1>2, <2>2, OpensMore, UpdateStatusOK
         DEF OpenLost, LocalsOK, At, Wants, Phases
    <2> QED
      BY <2>1, <2>2
  <1>5. WorldOK'
    BY <1>1, <1>2, OpensMore DEF WorldOK
  <1> QED
    BY <1>3, <1>4, <1>5

LEMMA QueueInv ==
  ASSUME IInv, NEW p \in Procs, Watch(p) \/ Timer(p) \/ Crash(p)
  PROVE  IInv'
  <1> USE DEF IInv
  <1>1. /\ UNCHANGED <<versions, worldVars, unmet, closes>>
        /\ dirty' \in [Procs -> BOOLEAN] /\ timer' \in [Procs -> BOOLEAN]
        /\ cached' \in [Procs -> 1 .. RV] /\ mishaps' \in 0 .. MaxMishaps
        /\ UNCHANGED workerVars \/ Leave(p)
    <2>1. CASE Watch(p) \/ Timer(p)
      <3>1. mishaps' \in 0 .. MaxMishaps
        BY <2>1 DEF Watch, Timer, WorldOK, boundVars
      <3>2. cached' \in [Procs -> 1 .. RV]
        BY <2>1 DEF Watch, Timer, Deliver, TimerFire, StoreOK, RV
      <3>3. dirty' \in [Procs -> BOOLEAN] /\ timer' \in [Procs -> BOOLEAN]
        BY <2>1 DEF Watch, Timer, Deliver, TimerFire, WorldOK
      <3> QED
        BY <2>1, <3>1, <3>2, <3>3 DEF Watch, Timer, Deliver, TimerFire, boundVars
    <2>2. CASE Crash(p)
      <3>1. Current.gone \in BOOLEAN
        BY CurrentOK DEF Objects
      <3>2. RV \in 1 .. RV
        BY CurrentOK
      <3>3. mishaps' \in 0 .. MaxMishaps
        BY <2>2, MishapType DEF Crash
      <3>4. /\ cached' \in [Procs -> 1 .. RV]
            /\ dirty' \in [Procs -> BOOLEAN] /\ timer' \in [Procs -> BOOLEAN]
        BY <2>2, <3>1, <3>2 DEF Crash, Relist, WorldOK, StoreOK
      <3> QED
        BY <2>2, <3>3, <3>4 DEF Crash, Relist
    <2> QED
      BY <2>1, <2>2
  <1>2. OldKept /\ UNCHANGED prs /\ RV' = RV
    BY <1>1, NothingWritten DEF worldVars, remoteVars
  <1>3. StoreOK'
    BY <1>1, <1>2 DEF StoreOK, CreatedIsOpened
  <1>4. LocalsOK'
    BY <1>1, <1>2, LocalsKept, LeaveOK
  <1>5. WorldOK'
    BY <1>1 DEF WorldOK, worldVars, remoteVars
  <1> QED
    BY <1>3, <1>4, <1>5

LEMMA UserInv ==
  ASSUME IInv, UserEdit \/ UserDelete
  PROVE  IInv'
  <1> USE DEF IInv
  <1>1. /\ UNCHANGED <<cached, dirty, timer, workerVars, worldVars, unmet, closes>>
        /\ mishaps' \in 0 .. MaxMishaps
    <2>1. mishaps' \in 0 .. MaxMishaps
      BY MishapType DEF UserEdit, UserDelete, WorldOK, boundVars
    <2> QED
      BY <2>1 DEF UserEdit, UserDelete, boundVars
  <1>2. PICK o \in Objects : Write(o) /\ o.phase = Current.phase
                                      /\ o.number = Current.number
    <2>1. CASE UserDelete
      BY <2>1, GoneOK DEF UserDelete
    <2>2. CASE UserEdit
      BY <2>2, EditOK DEF UserEdit
    <2> QED
      BY <2>1, <2>2
  <1>3. UNCHANGED prs
    BY <1>1 DEF worldVars, remoteVars
  <1>4. OldKept
    BY <1>2, WriteType
  <1>5. StoreOK'
    BY <1>1, <1>2, <1>3, CurrentOK, StoreWritten
  <1>6. LocalsOK'
    BY <1>1, <1>3, <1>4, LocalsKept
  <1>7. WorldOK'
    BY <1>1 DEF WorldOK, worldVars, remoteVars
  <1> QED
    BY <1>5, <1>6, <1>7

LEMMA WorldInv ==
  ASSUME IInv, UserCloses \/ TTLPasses
  PROVE  IInv'
  <1> USE DEF IInv
  <1>1. /\ UNCHANGED <<kubeVars, workerVars, prs, attempts, unmet, mishaps>>
        /\ branch' \in SUBSET Nat /\ prOpen' \in BOOLEAN /\ expired' \in BOOLEAN
        /\ closes' \in 0 .. MaxCloses
    <2>1. branch' \in SUBSET Nat
      BY DEF UserCloses, TTLPasses, WorldOK, remoteVars
    <2>2. prOpen' \in BOOLEAN /\ expired' \in BOOLEAN
      BY DEF UserCloses, TTLPasses, WorldOK, remoteVars
    <2>3. closes' \in 0 .. MaxCloses
      BY PullRequestAssumption DEF UserCloses, TTLPasses, WorldOK, boundVars
    <2> QED
      BY <2>1, <2>2, <2>3 DEF UserCloses, TTLPasses, remoteVars, boundVars
  <1>2. OldKept /\ UNCHANGED <<versions, cached, dirty, timer>>
    BY <1>1, NothingWritten DEF kubeVars
  <1>3. StoreOK' /\ LocalsOK'
    BY <1>1, <1>2, StoreKept, LocalsKept
  <1>4. WorldOK'
    BY <1>1, <1>2 DEF WorldOK
  <1> QED
    BY <1>3, <1>4

LEMMA StutterInv == ASSUME IInv, UNCHANGED vars PROVE IInv'
  <1> USE DEF IInv
  <1>1. /\ UNCHANGED <<versions, cached, dirty, timer, workerVars, prs>>
    BY DEF vars, kubeVars, worldVars, remoteVars
  <1>2. OldKept
    BY <1>1, NothingWritten
  <1>3. StoreOK' /\ LocalsOK'
    BY <1>1, <1>2, StoreKept, LocalsKept
  <1>4. WorldOK'
    BY <1>1 DEF WorldOK, vars, worldVars, remoteVars, boundVars
  <1> QED
    BY <1>3, <1>4

LEMMA NextInv == IInv /\ [Next]_vars => IInv'
  <1> SUFFICES ASSUME IInv, [Next]_vars PROVE IInv'
    OBVIOUS
  <1>1. ASSUME NEW p \in Procs, Step(p) PROVE IInv'
    BY <1>1, ReconcileInv, StartInv, DeleteInv, RestInv, PutOkInv, PutFailedInv,
       WorkInv, OpenInv DEF Step
  <1>2. ASSUME NEW p \in Procs, Watch(p) \/ Timer(p) PROVE IInv'
    BY <1>2, QueueInv
  <1>3. CASE Environment
    BY <1>3, PutFailedInv, DeleteInv, OpenInv, QueueInv, UserInv, WorldInv
       DEF Environment
  <1>4. CASE UNCHANGED vars
    BY <1>4, StutterInv
  <1> QED
    BY <1>1, <1>2, <1>3, <1>4 DEF Next, System

-----------------------------------------------------------------------------
(* The theorems.                                                           *)

(* The invariant holds in every state of the one-shot path.                *)
THEOREM Invariance == Spec => []IInv
  BY InitInv, NextInv, PTL DEF Spec

(* Every variable keeps its type.                                          *)
THEOREM TypeCorrect == Spec => []TypeOK
  <1>1. IInv => TypeOK
    BY DEF IInv, StoreOK, LocalsOK, WorldOK, TypeOK
  <1> QED
    BY <1>1, Invariance, PTL

(* A Created status names a pull request of this resource, for any number  *)
(* of replicas on caches however old.                                      *)
THEOREM CreatedWasOpened == Spec => []CreatedIsOpened
  <1>1. IInv => CreatedIsOpened
    BY DEF IInv, StoreOK
  <1> QED
    BY <1>1, Invariance, PTL

(* A write that is no put of a worker keeps phase and number.              *)
LEMMA PhaseKept ==
  ASSUME IInv, NEW o \in Objects, Write(o), o.phase = Current.phase,
         o.number = Current.number
  PROVE  Current'.phase = Current.phase /\ Current'.number = Current.number
  BY DEF Write, Current, RV, IInv, StoreOK

(* Created and Failed are final: an accepted put replaces an unsettled     *)
(* version (UnsettledCopies), and nothing else writes a phase.             *)
THEOREM SettledForGood == Spec => FinalPhases
  <1> DEFINE Final == IsSettled(Current) =>
                          /\ Current'.phase = Current.phase
                          /\ Current'.number = Current.number
  <1>1. ASSUME IInv, [Next]_vars PROVE Final
    <2>1. CASE UNCHANGED versions
      BY <2>1 DEF Current, RV
    <2>2. ASSUME NEW p \in Procs, PutOk(p) \/ PutFault(p), ~UNCHANGED versions
          PROVE  Final
      <3>1. At(p, "put") /\ rv[p] = RV
        BY <2>2 DEF PutOk, PutFault, Accepted
      <3> QED
        BY <1>1, <3>1, WrittenOK
    <2>3. ASSUME NEW p \in Procs, Delete(p) \/ DeleteFault(p), ~UNCHANGED versions
          PROVE  Final
      <3>1. Write([Current EXCEPT !.gone = TRUE])
        BY <2>3 DEF Delete, DeleteFault
      <3> QED
        BY <1>1, <3>1, GoneOK, PhaseKept
    <2>4. CASE UserDelete
      BY <1>1, <2>4, GoneOK, PhaseKept DEF UserDelete
    <2>5. CASE UserEdit
      BY <1>1, <2>5, EditOK, PhaseKept DEF UserEdit
    <2>6. CASE ~UNCHANGED versions
      <3>1. ASSUME NEW p \in Procs, System(p)
            PROVE  PutOk(p) \/ Delete(p)
        BY <2>6, <3>1
           DEF System, Step, ReconcileGone, ReconcileExpired, ReconcileSettled,
               Start, RestMet, RestUnmet, RestError, PutRefused, Auth, PushAccepted,
               PushRefused, PushFailed, Opened, OpenFailed, Watch, Timer, Deliver,
               TimerFire, kubeVars
      <3>2. ASSUME Environment
            PROVE  \/ \E p \in Procs : PutFault(p) \/ DeleteFault(p)
                   \/ UserEdit \/ UserDelete
        BY <2>6, <3>2
           DEF Environment, OpenLost, Crash, Relist, UserCloses, TTLPasses, kubeVars
      <3>3. Next
        BY <1>1, <2>6 DEF vars, kubeVars
      <3> HIDE DEF Final
      <3> QED
        BY <2>2, <2>3, <2>4, <2>5, <2>6, <3>1, <3>2, <3>3 DEF Next
    <2> QED
      BY <2>1, <2>6
  <1>2. IInv /\ [Next]_vars => [Final]_vars
    BY <1>1
  <1> QED
    BY <1>2, Invariance, PTL DEF Spec, FinalPhases
-----------------------------------------------------------------------------
(* One process, on a cache however old.                                    *)

OneProcess == \E p : Procs = {p}

(* Nothing is written, and a worker that covers the current version still  *)
(* does (or the version is gone).                                          *)
LEMMA CoveredKept ==
  ASSUME OneAttemptEach, UNCHANGED <<versions, attempts, mishaps>>,
         \A q \in Procs : InAttempt(q) /\ rv[q] = RV =>
             Current.gone \/ (InAttempt(q)' /\ rv'[q] = rv[q])
  PROVE  OneAttemptEach'
  <1>1. RV' = RV /\ Current' = Current
    BY DEF RV, Current
  <1>2. Covered => Covered'
    BY <1>1 DEF Covered, IsSettled
  <1> QED
    BY <1>2 DEF OneAttemptEach

(* A Running update is only executed when no worker covers the version.    *)
LEMMA RunningUncovered ==
  ASSUME IInv, OneProcess, NEW p \in Procs, At(p, "put"), Accepted(p),
         want[p] \in {"Running", "Pending"}
  PROVE  ~Covered
  <1>1. ~IsSettled(Current) /\ ~Current.gone
    BY WrittenOK DEF Accepted
  <1>2. \A q \in Procs : q = p
    BY DEF OneProcess
  <1>3. ~InAttempt(p)
    BY DEF InAttempt, At
  <1> QED
    BY <1>1, <1>2, <1>3 DEF Covered

(* What a write makes the current version.                                 *)
LEMMA CurrentWritten ==
  ASSUME IInv, NEW o \in Objects, Write(o)
  PROVE  Current' = o /\ RV' = RV + 1
  BY DEF Write, Current, RV, IInv, StoreOK

LEMMA OneAttemptPut ==
  ASSUME IInv, OneProcess, OneAttemptEach, NEW p \in Procs, PutOk(p)
  PROVE  OneAttemptEach'
  <1>1. /\ At(p, "put") /\ Accepted(p) /\ Write(Written(p)) /\ CountAttempt(p)
        /\ UNCHANGED mishaps
    BY DEF PutOk, boundVars
  <1>2. Current' = Written(p) /\ want[p] \in Wants
    BY <1>1, WrittenOK, CurrentWritten DEF IInv, LocalsOK
  <1>3. attempts \in Nat /\ mishaps \in Nat
    BY DEF IInv, WorldOK
  <1>4. CASE want[p] = "Running"
    <2>1. attempts <= mishaps /\ attempts' = attempts + 1
      BY <1>1, <1>4, RunningUncovered DEF OneAttemptEach, CountAttempt
    <2>2. pc' = [pc EXCEPT ![p] = "auth"] /\ rv' = [rv EXCEPT ![p] = RV + 1]
      BY <1>4 DEF PutOk, UpdateDone, GoTo, Adopt
    <2>3. InAttempt(p)' /\ rv'[p] = RV'
      BY <1>1, <2>2, WrittenOK, CurrentWritten DEF InAttempt, IInv, LocalsOK
    <2> QED
      BY <1>1, <1>3, <2>1, <2>3 DEF OneAttemptEach, Covered
  <1>5. CASE want[p] = "Pending"
    BY <1>1, <1>3, <1>5, RunningUncovered DEF OneAttemptEach, CountAttempt
  <1>6. CASE want[p] \in {"Created", "Failed"}
    <2>1. IsSettled(Current)'
      BY <1>1, <1>2, <1>6, WrittenOK DEF IsSettled
    <2> QED
      BY <1>1, <1>6, <2>1 DEF OneAttemptEach, Covered, CountAttempt
  <1> QED
    BY <1>2, <1>4, <1>5, <1>6 DEF Wants, Phases

LEMMA OneAttemptMishap ==
  ASSUME IInv, OneProcess, OneAttemptEach,
         \/ \E p \in Procs : PutFault(p) \/ DeleteFault(p) \/ OpenLost(p) \/ Crash(p)
         \/ UserEdit
  PROVE  OneAttemptEach'
  <1>1. attempts \in Nat /\ mishaps \in Nat
    BY DEF IInv, WorldOK
  <1>2. mishaps' = mishaps + 1
    BY DEF PutFault, DeleteFault, OpenLost, Crash, UserEdit, Mishap
  <1>3. attempts' = attempts \/ (attempts' = attempts + 1 /\ attempts <= mishaps)
    <2>1. ASSUME NEW p \in Procs, PutFault(p), attempts' # attempts
          PROVE  attempts' = attempts + 1 /\ attempts <= mishaps
      <3>1. /\ At(p, "put") /\ Accepted(p) /\ want[p] = "Running"
            /\ attempts' = attempts + 1
        BY <2>1 DEF PutFault, CountAttempt
      <3> QED
        BY <3>1, RunningUncovered DEF OneAttemptEach
    <2>2. ASSUME NEW p \in Procs, DeleteFault(p) \/ OpenLost(p) \/ Crash(p)
          PROVE  attempts' = attempts
      BY <2>2 DEF DeleteFault, OpenLost, Crash, worldVars
    <2>3. UserEdit => attempts' = attempts
      BY DEF UserEdit, worldVars
    <2> QED
      BY <2>1, <2>2, <2>3
  <1> QED
    BY <1>1, <1>2, <1>3 DEF OneAttemptEach

LEMMA OneAttemptDelete ==
  ASSUME IInv, OneAttemptEach, NEW o \in Objects, o.gone, Write(o),
         UNCHANGED <<attempts, mishaps>>
  PROVE  OneAttemptEach'
  BY CurrentWritten DEF OneAttemptEach, Covered

LEMMA OneAttemptOther ==
  ASSUME IInv, OneAttemptEach, NEW p \in Procs,
         \/ ReconcileGone(p) \/ ReconcileExpired(p) \/ ReconcileSettled(p)
         \/ Start(p) \/ RestMet(p) \/ RestUnmet(p) \/ RestError(p)
         \/ PutRefused(p) \/ Auth(p) \/ PushAccepted(p) \/ PushRefused(p)
         \/ PushFailed(p) \/ Opened(p) \/ OpenFailed(p) \/ Watch(p) \/ Timer(p)
  PROVE  OneAttemptEach'
  <1> USE DEF InAttempt, At, GoTo, UpdateStatus
  <1>0. /\ pc \in [Procs -> PCs] /\ rv \in [Procs -> 1 .. RV]
        /\ want \in [Procs -> Wants]
    BY DEF IInv, LocalsOK
  <1>1. CASE ReconcileGone(p) \/ ReconcileSettled(p) \/ Watch(p) \/ Timer(p)
    <2>1. UNCHANGED <<versions, attempts, mishaps, pc, rv, want>>
      BY <1>1 DEF ReconcileGone, ReconcileSettled, Watch, Timer, Deliver, TimerFire,
                  worldVars, boundVars, workerVars
    <2> QED
      BY <2>1, CoveredKept
  <1>2. CASE ReconcileExpired(p) \/ Start(p)
    <2>1. /\ UNCHANGED <<versions, attempts, mishaps>> /\ pc[p] = "idle"
          /\ \A q \in Procs : q # p =>
                 pc'[q] = pc[q] /\ rv'[q] = rv[q] /\ want'[q] = want[q]
      BY <1>0, <1>2 DEF ReconcileExpired, Start, Begin, worldVars, boundVars
    <2> QED
      BY <2>1, CoveredKept
  <1>3. CASE RestMet(p) \/ RestUnmet(p) \/ RestError(p)
    <2>1. /\ UNCHANGED <<versions, attempts, mishaps, rv>> /\ pc[p] = "rest"
          /\ \A q \in Procs : q # p => pc'[q] = pc[q] /\ want'[q] = want[q]
      BY <1>0, <1>3 DEF RestMet, RestUnmet, RestError, kubeVars, worldVars, boundVars
    <2> QED
      BY <2>1, CoveredKept
  <1>4. CASE PutRefused(p)
    <2>1. /\ UNCHANGED <<versions, attempts, mishaps>> /\ ~Accepted(p)
          /\ \A q \in Procs : q # p =>
                 pc'[q] = pc[q] /\ rv'[q] = rv[q] /\ want'[q] = want[q]
      BY <1>0, <1>4 DEF PutRefused, UpdateFailed, Return, Leave, worldVars, boundVars
    <2> QED
      BY <2>1, CoveredKept DEF Accepted
  <1>5. CASE \/ Auth(p) \/ PushAccepted(p) \/ PushRefused(p) \/ PushFailed(p)
             \/ Opened(p) \/ OpenFailed(p)
    <2>1. /\ UNCHANGED <<versions, attempts, mishaps, rv>>
          /\ pc'[p] \in {"push", "open"} \/
             (pc'[p] = "put" /\ want'[p] \in {"Created", "Failed"})
          /\ \A q \in Procs : q # p => pc'[q] = pc[q] /\ want'[q] = want[q]
      BY <1>0, <1>5 DEF Auth, PushAccepted, PushRefused, PushFailed, Opened, OpenFailed,
                  kubeVars, worldVars, boundVars
    <2> QED
      BY <2>1, CoveredKept
  <1> QED
    BY <1>1, <1>2, <1>3, <1>4, <1>5

LEMMA OneAttemptNext ==
  OneProcess /\ IInv /\ OneAttemptEach /\ [Next]_vars => OneAttemptEach'
  <1> SUFFICES ASSUME OneProcess, IInv, OneAttemptEach, [Next]_vars
               PROVE  OneAttemptEach'
    OBVIOUS
  <1>1. ASSUME NEW p \in Procs, Delete(p) PROVE OneAttemptEach'
    <2>1. UNCHANGED <<attempts, mishaps>>
      BY <1>1 DEF Delete, worldVars, boundVars
    <2>2. CASE Write([Current EXCEPT !.gone = TRUE])
      BY <2>1, <2>2, GoneOK, CurrentOK, OneAttemptDelete DEF Objects
    <2>3. CASE Current.gone /\ UNCHANGED versions
      BY <2>1, <2>3, CoveredKept
    <2> QED
      BY <1>1, <2>2, <2>3 DEF Delete
  <1>2. CASE UserDelete
    BY <1>2, GoneOK, CurrentOK, OneAttemptDelete
       DEF UserDelete, Objects, worldVars, boundVars
  <1>3. CASE UserCloses \/ TTLPasses \/ UNCHANGED vars
    <2>1. UNCHANGED <<versions, attempts, mishaps, pc, rv, want>>
      BY <1>3 DEF UserCloses, TTLPasses, vars, kubeVars, workerVars, worldVars, boundVars
    <2> QED
      BY <2>1, CoveredKept DEF InAttempt, At
  <1> QED
    BY <1>1, <1>2, <1>3, OneAttemptPut, OneAttemptMishap, OneAttemptOther
       DEF Next, System, Step, Environment

(* One process tries createPullRequest once, and once more for a mishap:   *)
(* optimistic locking keeps an outdated cache from repeating the work.     *)
THEOREM AttemptsBounded == OneProcess => (Spec => []AttemptsAccounted)
  <1> SUFFICES ASSUME OneProcess PROVE Spec => []AttemptsAccounted
    OBVIOUS
  <1>1. Init => OneAttemptEach
    BY PullRequestAssumption DEF Init, OneAttemptEach
  <1>2. IInv /\ OneAttemptEach /\ [Next]_vars => OneAttemptEach'
    BY OneAttemptNext
  <1>3. OneAttemptEach => AttemptsAccounted
    BY DEF OneAttemptEach, AttemptsAccounted
  <1> QED
    BY <1>1, <1>2, <1>3, Invariance, PTL DEF Spec

-----------------------------------------------------------------------------
(* One process without a mishap: the number of a pull request is not lost. *)

(* Nothing is written, and no worker takes the work up or drops a number.  *)
LEMMA NumberKept ==
  ASSUME NumberIsKept, UNCHANGED <<versions, prs, mishaps>>,
         \A q \in Procs :
             /\ AtWork(q)' => AtWork(q) /\ rv'[q] = rv[q]
             /\ Carries(q) => Carries(q)' \/ rv[q] # RV \/ Current.gone
  PROVE  NumberIsKept'
  <1> SUFFICES ASSUME mishaps = 0 PROVE NumberIsKept'
    BY DEF NumberIsKept
  <1>1. RV' = RV /\ Current' = Current
    BY DEF RV, Current
  <1>2. \A q \in Procs : Carries(q) =>
            Carries(q)' \/ (Current.gone /\ ~IsSettled(Current))
    BY DEF NumberIsKept, AtWork
  <1>3. ~IsSettled(Current) => Current.phase # "Failed"
    BY DEF IsSettled
  <1> QED
    BY <1>1, <1>2, <1>3 DEF NumberIsKept

(* When a worker is about to write another phase than Created, and may, no *)
(* pull request is open.                                                   *)
LEMMA NothingOpened ==
  ASSUME IInv, OneProcess, NumberIsKept, mishaps = 0, NEW p \in Procs,
         At(p, "put"), Accepted(p), want[p] # "Created"
  PROVE  prs = <<>>
  <1>1. ~IsSettled(Current) /\ ~Current.gone
    BY WrittenOK DEF Accepted
  <1>2. \A q \in Procs : q = p
    BY DEF OneProcess
  <1> QED
    BY <1>1, <1>2 DEF NumberIsKept, IsSettled, Carries

LEMMA NumberPut ==
  ASSUME IInv, OneProcess, NumberIsKept, NEW p \in Procs, PutOk(p)
  PROVE  NumberIsKept'
  <1> SUFFICES ASSUME mishaps = 0 PROVE NumberIsKept'
    BY DEF NumberIsKept, PutOk, boundVars
  <1>1. /\ At(p, "put") /\ Accepted(p) /\ Write(Written(p)) /\ UpdateDone(p)
        /\ UNCHANGED prs
    BY DEF PutOk, remoteVars
  <1>2. /\ Current' = Written(p) /\ RV' = RV + 1 /\ Written(p).phase = want[p]
    BY <1>1, WrittenOK, CurrentWritten
  <1>3. \A q \in Procs : q = p
    BY DEF OneProcess
  <1>4. pc \in [Procs -> PCs] /\ rv \in [Procs -> 1 .. RV]
    BY DEF IInv, LocalsOK
  <1>5. CASE want[p] = "Running"
    <2>1. rv'[p] = RV + 1
      BY <1>1, <1>4, <1>5 DEF UpdateDone, Adopt
    <2>2. ~IsSettled(Current)'
      BY <1>2, <1>5 DEF IsSettled
    <2>3. prs' = <<>>
      BY <1>1, <1>5, NothingOpened
    <2> QED
      BY <1>2, <1>3, <2>1, <2>2, <2>3 DEF NumberIsKept
  <1>6. CASE want[p] # "Running"
    <2>1. pc'[p] = "idle"
      BY <1>1, <1>4, <1>6 DEF UpdateDone, Return, Leave, GoTo
    <2>2. ~AtWork(p)'
      BY <2>1 DEF AtWork, Carries, At
    <2>3. Current'.phase = "Created" \/ prs' = <<>>
      BY <1>1, <1>2, NothingOpened
    <2> QED
      BY <1>3, <2>2, <2>3 DEF NumberIsKept
  <1> QED
    BY <1>5, <1>6

LEMMA NumberOpened ==
  ASSUME IInv, NumberIsKept, NEW p \in Procs, Opened(p)
  PROVE  NumberIsKept'
  <1>1. /\ UNCHANGED <<versions, rv, mishaps>> /\ pc[p] = "open"
        /\ pc' = [pc EXCEPT ![p] = "put"] /\ want' = [want EXCEPT ![p] = "Created"]
    BY DEF Opened, At, UpdateStatus, GoTo, kubeVars, boundVars
  <1>2. RV' = RV /\ Current' = Current
    BY <1>1 DEF RV, Current
  <1>3. Carries(p)' /\ AtWork(p)
    BY <1>1 DEF Carries, AtWork, At, IInv, LocalsOK
  <1>4. \A q \in Procs : AtWork(q)' => AtWork(q)
    BY <1>1, <1>3 DEF Carries, AtWork, At, IInv, LocalsOK
  <1> QED
    BY <1>1, <1>2, <1>3, <1>4 DEF NumberIsKept, IsSettled

(* The object is deleted by a user, or by a worker that does nothing else. *)
LEMMA NumberGone ==
  ASSUME IInv, NumberIsKept, NEW o \in Objects, o.gone, o.phase = Current.phase,
         Write(o), UNCHANGED <<prs, mishaps>>,
         \A q \in Procs : /\ AtWork(q)' => AtWork(q)
                          /\ Carries(q) => Carries(q)'
  PROVE  NumberIsKept'
  BY CurrentWritten DEF NumberIsKept, IsSettled

LEMMA NumberOther ==
  ASSUME IInv, NumberIsKept, NEW p \in Procs,
         \/ ReconcileGone(p) \/ ReconcileExpired(p) \/ ReconcileSettled(p)
         \/ Start(p) \/ RestMet(p) \/ RestUnmet(p) \/ RestError(p)
         \/ PutRefused(p) \/ Auth(p) \/ PushAccepted(p) \/ PushRefused(p)
         \/ PushFailed(p) \/ OpenFailed(p) \/ Watch(p) \/ Timer(p)
  PROVE  NumberIsKept'
  <1> USE DEF AtWork, Carries, At, GoTo, UpdateStatus
  <1>0. /\ pc \in [Procs -> PCs] /\ rv \in [Procs -> 1 .. RV]
        /\ want \in [Procs -> Wants]
    BY DEF IInv, LocalsOK
  <1>1. CASE ReconcileGone(p) \/ ReconcileSettled(p) \/ Watch(p) \/ Timer(p)
    <2>1. UNCHANGED <<versions, prs, mishaps, pc, rv, want>>
      BY <1>1 DEF ReconcileGone, ReconcileSettled, Watch, Timer, Deliver, TimerFire,
                  worldVars, remoteVars, boundVars, workerVars
    <2> QED
      BY <2>1, NumberKept
  <1>2. CASE ReconcileExpired(p) \/ Start(p)
    <2>1. /\ UNCHANGED <<versions, prs, mishaps>> /\ pc[p] = "idle"
          /\ pc'[p] \in {"delete", "rest"} \/ (pc'[p] = "put" /\ want'[p] = "Running")
          /\ \A q \in Procs : q # p =>
                 pc'[q] = pc[q] /\ rv'[q] = rv[q] /\ want'[q] = want[q]
      BY <1>0, <1>2 DEF ReconcileExpired, Start, Begin, worldVars, remoteVars, boundVars
    <2> QED
      BY <2>1, NumberKept
  <1>3. CASE RestMet(p) \/ RestUnmet(p) \/ RestError(p)
    <2>1. /\ UNCHANGED <<versions, prs, rv>> /\ pc[p] = "rest"
          /\ UNCHANGED mishaps
          /\ pc'[p] = "put" /\ want'[p] # "Created"
          /\ \A q \in Procs : q # p => pc'[q] = pc[q] /\ want'[q] = want[q]
      BY <1>0, <1>3 DEF RestMet, RestUnmet, RestError, kubeVars, worldVars, remoteVars,
                  boundVars
    <2> QED
      BY <2>1, NumberKept
  <1>4. CASE PutRefused(p)
    <2>1. /\ UNCHANGED <<versions, prs, mishaps>> /\ ~Accepted(p) /\ pc'[p] = "idle"
          /\ \A q \in Procs : q # p =>
                 pc'[q] = pc[q] /\ rv'[q] = rv[q] /\ want'[q] = want[q]
      BY <1>0, <1>4 DEF PutRefused, UpdateFailed, Return, Leave, worldVars, remoteVars,
                  boundVars
    <2> QED
      BY <2>1, NumberKept DEF Accepted
  <1>5. CASE \/ Auth(p) \/ PushAccepted(p) \/ PushRefused(p) \/ PushFailed(p)
             \/ OpenFailed(p)
    <2>1. /\ UNCHANGED <<versions, prs, mishaps, rv>>
          /\ pc[p] \in {"auth", "push", "open"}
          /\ \A q \in Procs : q # p => pc'[q] = pc[q] /\ want'[q] = want[q]
      BY <1>0, <1>5 DEF Auth, PushAccepted, PushRefused, PushFailed, OpenFailed,
                  kubeVars, worldVars, remoteVars, boundVars
    <2> QED
      BY <2>1, NumberKept
  <1> QED
    BY <1>1, <1>2, <1>3, <1>4, <1>5

LEMMA NumberNext ==
  OneProcess /\ IInv /\ NumberIsKept /\ [Next]_vars => NumberIsKept'
  <1> SUFFICES ASSUME OneProcess, IInv, NumberIsKept, [Next]_vars
               PROVE  NumberIsKept'
    OBVIOUS
  <1>1. ASSUME NEW p \in Procs, Delete(p) PROVE NumberIsKept'
    <2>1. /\ UNCHANGED <<prs, mishaps>> /\ pc[p] = "delete" /\ pc'[p] = "idle"
          /\ \A q \in Procs : q # p =>
                 pc'[q] = pc[q] /\ rv'[q] = rv[q] /\ want'[q] = want[q]
      BY <1>1 DEF Delete, Return, Leave, GoTo, At, worldVars, remoteVars, boundVars,
                  IInv, LocalsOK
    <2>2. CASE Write([Current EXCEPT !.gone = TRUE])
      BY <2>1, <2>2, GoneOK, CurrentOK, NumberGone DEF Objects, AtWork, Carries, At
    <2>3. CASE Current.gone /\ UNCHANGED versions
      BY <2>1, <2>3, NumberKept DEF AtWork, Carries, At
    <2> QED
      BY <1>1, <2>2, <2>3 DEF Delete
  <1>2. CASE UserDelete
    BY <1>2, GoneOK, CurrentOK, NumberGone
       DEF UserDelete, Objects, worldVars, remoteVars, boundVars, workerVars, AtWork,
           Carries, At
  <1>3. CASE UserCloses \/ TTLPasses \/ UNCHANGED vars
    <2>1. UNCHANGED <<versions, prs, mishaps, pc, rv, want>>
      BY <1>3 DEF UserCloses, TTLPasses, vars, kubeVars, workerVars, worldVars,
                  remoteVars, boundVars
    <2> QED
      BY <2>1, NumberKept DEF AtWork, Carries, At
  <1>4. CASE \/ \E p \in Procs : PutFault(p) \/ DeleteFault(p) \/ OpenLost(p) \/ Crash(p)
             \/ UserEdit
    <2>1. mishaps' = mishaps + 1
      BY <1>4 DEF PutFault, DeleteFault, OpenLost, Crash, UserEdit, Mishap
    <2>2. mishaps \in Nat
      BY DEF IInv, WorldOK
    <2> QED
      BY <2>1, <2>2 DEF NumberIsKept
  <1> QED
    BY <1>1, <1>2, <1>3, <1>4, NumberPut, NumberOpened, NumberOther
       DEF Next, System, Step, Environment

(* With one process, a resource with an opened pull request only fails     *)
(* after a mishap.                                                         *)
THEOREM PullRequestsNotLost == OneProcess => (Spec => []NoneLost)
  <1> SUFFICES ASSUME OneProcess PROVE Spec => []NoneLost
    OBVIOUS
  <1>1. Init => NumberIsKept
    BY DEF Init, NumberIsKept, AtWork, Carries, At
  <1>2. IInv /\ NumberIsKept /\ [Next]_vars => NumberIsKept'
    BY NumberNext
  <1>3. IInv /\ NumberIsKept => NoneLost
    <2> SUFFICES ASSUME IInv, NumberIsKept, prs # <<>>, Current.phase = "Failed",
                        mishaps = 0
                 PROVE  FALSE
      BY DEF NoneLost, IInv, WorldOK
    <2>1. PICK p \in Procs : Carries(p)
      BY DEF NumberIsKept
    <2> QED
      BY <2>1 DEF NumberIsKept, AtWork, IsSettled
  <1> QED
    BY <1>1, <1>2, <1>3, Invariance, PTL DEF Spec

-----------------------------------------------------------------------------
(* No wake-up is lost, for any number of processes.                        *)

(* A write is an event for everybody.                                      *)
LEMMA AwakeWritten ==
  ASSUME IInv, AwakeOK, NEW o \in Objects, ~Current.gone, Write(o), UNCHANGED cached
  PROVE  AwakeOK'
  <1>1. OldKept /\ RV' = RV + 1 /\ versions'[RV + 1] = o
    BY WriteType DEF IInv
  <1>2. \A q \in Procs : cached[q] \in 1 .. RV /\ RV \in Nat
    BY DEF IInv, StoreOK, RV
  <1>3. NeverAsleep'
    BY <1>1, <1>2 DEF NeverAsleep, Alert
  <1>4. \A k \in 1 .. RV : ~versions[k].gone
    BY DEF AwakeOK, GoneIsLast, Current
  <1>5. GoneIsLast'
    <2> SUFFICES ASSUME NEW k \in 1 .. RV', versions'[k].gone PROVE k = RV'
      BY DEF GoneIsLast
    <2>1. k \in 1 .. RV \/ k = RV + 1
      BY <1>1 DEF OldKept
    <2> QED
      BY <1>1, <1>4, <2>1 DEF OldKept
  <1> QED
    BY <1>3, <1>5 DEF AwakeOK

(* Nothing is written: only the worker that takes a step may fall asleep.  *)
LEMMA AwakeQuiet ==
  ASSUME IInv, AwakeOK, UNCHANGED versions, NEW p \in Procs,
         \A q \in Procs : q # p =>
             /\ pc'[q] = pc[q] /\ dirty'[q] = dirty[q] /\ timer'[q] = timer[q]
             /\ cached'[q] = cached[q],
         At(p, "idle")' => Alert(p)'
  PROVE  AwakeOK'
  <1>1. RV' = RV /\ Current' = Current /\ GoneIsLast'
    BY DEF RV, Current, AwakeOK, GoneIsLast
  <1>2. \A q \in Procs : q # p /\ At(q, "idle")' => Alert(q)'
    BY <1>1 DEF AwakeOK, NeverAsleep, At, Alert
  <1> QED
    BY <1>1, <1>2 DEF AwakeOK, NeverAsleep

(* A reconcile that comes back later, or that is not over.                 *)
LEMMA AwakeReturn ==
  ASSUME IInv, AwakeOK, NEW p \in Procs, Return(p, TRUE),
         UNCHANGED <<versions, cached, dirty>>
  PROVE  AwakeOK'
  <1>1. timer' = [timer EXCEPT ![p] = TRUE] /\ timer \in [Procs -> BOOLEAN]
    BY DEF Return, Requeue, IInv, WorldOK
  <1>2. Alert(p)'
    BY <1>1 DEF Alert
  <1>3. \A q \in Procs : q # p => pc'[q] = pc[q] /\ timer'[q] = timer[q]
    BY <1>1 DEF Return, Leave, GoTo, IInv, LocalsOK
  <1> QED
    BY <1>2, <1>3, AwakeQuiet

LEMMA AwakeMoved ==
  ASSUME IInv, AwakeOK, NEW p \in Procs, NEW l \in PCs \ {"idle"}, GoTo(p, l),
         UNCHANGED <<versions, cached, timer>>,
         UNCHANGED dirty \/ TakeKey(p)
  PROVE  AwakeOK'
  <1>1. ~At(p, "idle")'
    BY DEF At, GoTo, IInv, LocalsOK
  <1>2. \A q \in Procs : q # p => pc'[q] = pc[q] /\ dirty'[q] = dirty[q]
    BY DEF GoTo, TakeKey, IInv, LocalsOK, WorldOK
  <1> QED
    BY <1>1, <1>2, AwakeQuiet

LEMMA AwakeBegin ==
  ASSUME IInv, AwakeOK, NEW p \in Procs,
         \/ ReconcileGone(p) \/ ReconcileExpired(p) \/ ReconcileSettled(p)
         \/ Start(p)
  PROVE  AwakeOK'
  <1>1. CASE ReconcileGone(p)
    <2>1. Seen(p) \in 1 .. RV
      BY DEF IInv, StoreOK, Seen, RV
    <2>2. Current.gone
      BY <1>1, <2>1 DEF ReconcileGone, View, AwakeOK, GoneIsLast, Current
    <2>3. UNCHANGED <<versions, cached, timer, pc>>
      BY <1>1 DEF ReconcileGone, workerVars
    <2>4. Alert(p)'
      BY <2>2, <2>3 DEF Alert, Current, RV
    <2>5. \A q \in Procs : q # p => dirty'[q] = dirty[q]
      BY <1>1 DEF ReconcileGone, Begin, TakeKey, IInv, WorldOK
    <2> QED
      BY <2>3, <2>4, <2>5, AwakeQuiet
  <1>2. CASE ReconcileSettled(p)
    <2>1. /\ UNCHANGED <<versions, cached, pc>>
          /\ timer' = [timer EXCEPT ![p] = TRUE]
          /\ timer \in [Procs -> BOOLEAN]
      BY <1>2 DEF ReconcileSettled, workerVars, Requeue, IInv, WorldOK
    <2>2. Alert(p)'
      BY <2>1 DEF Alert
    <2>3. \A q \in Procs : q # p => dirty'[q] = dirty[q] /\ timer'[q] = timer[q]
      BY <1>2, <2>1 DEF ReconcileSettled, Begin, TakeKey, IInv, WorldOK
    <2> QED
      BY <2>1, <2>2, <2>3, AwakeQuiet
  <1>3. CASE ReconcileExpired(p)
    BY <1>3, AwakeMoved DEF ReconcileExpired, Begin, PCs
  <1>4. CASE Start(p)
    <2>1. GoTo(p, "rest") \/ GoTo(p, "put")
      BY <1>4 DEF Start, UpdateStatus
    <2> QED
      BY <1>4, <2>1, AwakeMoved DEF Start, Begin, PCs
  <1> QED
    BY <1>1, <1>2, <1>3, <1>4

(* The status writes and the deletion: an accepted one is an event, the    *)
(* key comes back after the others.                                        *)
LEMMA AwakePut ==
  ASSUME IInv, AwakeOK, NEW p \in Procs,
         PutOk(p) \/ PutRefused(p) \/ PutFault(p)
  PROVE  AwakeOK'
  <1>1. At(p, "put") /\ UNCHANGED <<cached, dirty>>
    BY DEF PutOk, PutRefused, PutFault
  <1>2. CASE ~UNCHANGED versions
    <2>1. Accepted(p) /\ Write(Written(p))
      BY <1>2 DEF PutOk, PutRefused, PutFault
    <2> QED
      BY <1>1, <2>1, WrittenOK, AwakeWritten DEF Accepted
  <1>3. CASE UNCHANGED versions
    <2>1. ~PutOk(p)
      <3>1. Len(Append(versions, Written(p))) # Len(versions)
        BY <1>1, WrittenOK DEF IInv, StoreOK
      <3> QED
        BY <1>3, <3>1 DEF PutOk, Write
    <2>2. Return(p, TRUE)
      BY <2>1 DEF PutRefused, PutFault, UpdateFailed
    <2> QED
      BY <1>1, <1>3, <2>2, AwakeReturn
  <1> QED
    BY <1>2, <1>3

LEMMA AwakeDelete ==
  ASSUME IInv, AwakeOK, NEW p \in Procs, Delete(p) \/ DeleteFault(p)
  PROVE  AwakeOK'
  <1>1. UNCHANGED <<cached, dirty>>
    BY DEF Delete, DeleteFault
  <1>2. CASE ~Current.gone /\ Write([Current EXCEPT !.gone = TRUE])
    BY <1>1, <1>2, GoneOK, AwakeWritten
  <1>3. CASE ~(~Current.gone /\ Write([Current EXCEPT !.gone = TRUE]))
    <2>1. Return(p, TRUE) /\ UNCHANGED versions
      BY <1>3 DEF Delete, DeleteFault
    <2> QED
      BY <1>1, <2>1, AwakeReturn
  <1> QED
    BY <1>2, <1>3

LEMMA AwakeWork ==
  ASSUME IInv, AwakeOK, NEW p \in Procs,
         \/ RestMet(p) \/ RestUnmet(p) \/ RestError(p) \/ Auth(p)
         \/ PushAccepted(p) \/ PushRefused(p) \/ PushFailed(p)
         \/ Opened(p) \/ OpenFailed(p) \/ OpenLost(p)
  PROVE  AwakeOK'
  <1>1. UNCHANGED <<versions, cached, dirty, timer>>
    BY DEF RestMet, RestUnmet, RestError, Auth, PushAccepted, PushRefused, PushFailed,
           Opened, OpenFailed, OpenLost, kubeVars
  <1>2. GoTo(p, "put") \/ GoTo(p, "push") \/ GoTo(p, "open")
    BY DEF RestMet, RestUnmet, RestError, Auth, PushAccepted, PushRefused, PushFailed,
           Opened, OpenFailed, OpenLost, UpdateStatus
  <1> QED
    BY <1>1, <1>2, AwakeMoved DEF PCs

LEMMA AwakeQueue ==
  ASSUME IInv, AwakeOK, NEW p \in Procs, Watch(p) \/ Timer(p) \/ Crash(p)
  PROVE  AwakeOK'
  <1> USE DEF IInv, WorldOK, LocalsOK, StoreOK
  <1>1. UNCHANGED versions
    BY DEF Watch, Deliver, Timer, TimerFire, Crash, Relist
  <1>2. RV' = RV /\ Current' = Current
    BY <1>1 DEF RV, Current
  <1>3. \A q \in Procs : q # p =>
            /\ pc'[q] = pc[q] /\ dirty'[q] = dirty[q] /\ timer'[q] = timer[q]
            /\ cached'[q] = cached[q]
    BY DEF Watch, Deliver, Timer, TimerFire, Crash, Relist, Leave, GoTo, workerVars
  <1>4. dirty'[p] \/ Current.gone
    BY CurrentOK DEF Watch, Deliver, Timer, TimerFire, Crash, Relist, Objects
  <1> QED
    BY <1>1, <1>2, <1>3, <1>4, AwakeQuiet DEF Alert

LEMMA AwakeUser ==
  ASSUME IInv, AwakeOK, UserEdit \/ UserDelete \/ UserCloses \/ TTLPasses
  PROVE  AwakeOK'
  <1>1. CASE UserEdit
    <2>1. PICK r \in RestChoices : Write([Current EXCEPT !.gen = @ + 1, !.rest = r])
      BY <1>1 DEF UserEdit
    <2> QED
      BY <1>1, <2>1, EditOK, AwakeWritten DEF UserEdit
  <1>2. CASE UserDelete
    BY <1>2, GoneOK, AwakeWritten DEF UserDelete
  <1>3. CASE UserCloses \/ TTLPasses
    BY <1>3 DEF UserCloses, TTLPasses, kubeVars, workerVars, AwakeOK, GoneIsLast,
                NeverAsleep, At, Alert, RV, Current
  <1> QED
    BY <1>1, <1>2, <1>3

LEMMA AwakeNext == IInv /\ AwakeOK /\ [Next]_vars => AwakeOK'
  <1> SUFFICES ASSUME IInv, AwakeOK, [Next]_vars PROVE AwakeOK'
    OBVIOUS
  <1>1. ASSUME NEW p \in Procs, System(p) PROVE AwakeOK'
    BY <1>1, AwakeBegin, AwakePut, AwakeDelete, AwakeWork, AwakeQueue DEF System, Step
  <1>2. CASE Environment
    BY <1>2, AwakePut, AwakeDelete, AwakeWork, AwakeQueue, AwakeUser DEF Environment
  <1>3. CASE UNCHANGED vars
    BY <1>3 DEF vars, kubeVars, workerVars, AwakeOK, GoneIsLast, NeverAsleep, At, Alert,
                RV, Current
  <1> QED
    BY <1>1, <1>2, <1>3 DEF Next

(* Nobody who may still have to do something for the resource stops        *)
(* looking at it, whatever fails and in whatever order events arrive: what *)
(* fairness then makes of it is Settles.                                   *)
THEOREM NobodySleeps == Spec => []NeverAsleep
  <1>1. Init => AwakeOK
    <2> SUFFICES ASSUME Init PROVE AwakeOK
      OBVIOUS
    <2>1. PICK r \in RestChoices : KubeInit(NewObject(r))
      BY DEF Init
    <2>2. RV = 1 /\ \A p \in Procs : dirty[p]
      BY <2>1 DEF KubeInit, RV
    <2>3. \A k \in 1 .. RV : k = RV
      BY <2>2
    <2> QED
      BY <2>2, <2>3 DEF AwakeOK, GoneIsLast, NeverAsleep, Alert
  <1>2. AwakeOK => NeverAsleep
    BY DEF AwakeOK
  <1> QED
    BY <1>1, <1>2, AwakeNext, Invariance, PTL DEF Spec
=============================================================================
