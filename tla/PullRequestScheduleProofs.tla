-------------------- MODULE PullRequestScheduleProofs ----------------------
(***************************************************************************)
(* Theorems about PullRequestSchedule, for any period, history limit, cache*)
(* lag and bounds: types, the records of a history and that nobody sleeps  *)
(* for any number of replicas; the order of a history, the accounts of the *)
(* executions and the pull request that is open for one.                   *)
(***************************************************************************)
EXTENDS PullRequestSchedule, ScheduledObjectProofs

-----------------------------------------------------------------------------
(* Histories.                                                              *)

LEMMA RecordFirst ==
  ASSUME NEW h \in Seq(Records), NEW r \in Records
  PROVE  /\ Recorded(h, r) \in Seq(Records) /\ Len(h) \in Nat
         /\ Len(Recorded(h, r)) \in 1 .. MaxHistory
         /\ Len(h) + 1 <= MaxHistory => Len(Recorded(h, r)) = Len(h) + 1
         /\ MaxHistory <= Len(h) => Len(Recorded(h, r)) = MaxHistory
         /\ Recorded(h, r)[1] = r
         /\ \A i \in 2 .. Len(Recorded(h, r)) :
                i - 1 \in 1 .. Len(h) /\ Recorded(h, r)[i] = h[i - 1]
  BY RecordedType

(* A sound record in front of a sound history.                             *)
LEMMA RecordedOK ==
  ASSUME NEW h \in Seq(Records), NEW r \in Records, NEW n \in Nat,
         HistoryOK(h, n), r.number <= n, (r.phase = "Created") <=> (r.number > 0)
  PROVE  /\ Recorded(h, r) \in Seq(Records)
         /\ HistoryOK(Recorded(h, r), n)
  <1> DEFINE g == Recorded(h, r)
  <1>1. /\ g \in Seq(Records) /\ Len(g) <= MaxHistory /\ g[1] = r
        /\ \A i \in 2 .. Len(g) : i - 1 \in 1 .. Len(h) /\ g[i] = h[i - 1]
    BY RecordFirst
  <1> HIDE DEF g
  <1>2. ASSUME NEW i \in DOMAIN g
        PROVE  g[i].number <= n /\ ((g[i].phase = "Created") <=> (g[i].number > 0))
    <2>1. i = 1 \/ i \in 2 .. Len(g)
      BY <1>1
    <2>2. CASE i = 1
      BY <1>1, <2>2
    <2>3. CASE i \in 2 .. Len(g)
      BY <1>1, <2>3 DEF HistoryOK
    <2> QED
      BY <2>1, <2>2, <2>3
  <1>3. HistoryOK(g, n)
    BY <1>1, <1>2 DEF HistoryOK
  <1> QED
    BY <1>1, <1>3 DEF g

LEMMA HistoryGrows ==
  ASSUME NEW h \in Seq(Records), NEW n \in Nat, NEW m \in Nat, n <= m, HistoryOK(h, n)
  PROVE  HistoryOK(h, m)
  <1>1. \A i \in DOMAIN h : h[i].number \in Nat
    <2>1. \A i \in DOMAIN h : h[i] \in Records
      OBVIOUS
    <2> QED
      BY <2>1 DEF Records
  <1> QED
    BY <1>1 DEF HistoryOK

-----------------------------------------------------------------------------
(* Objects.                                                                *)

LEMMA NewObjectType ==
  ASSUME NEW s \in Specs
  PROVE  /\ NewObject(s) \in Objects
         /\ \A n \in Nat : HistoryOK(NewObject(s).hist, n)
  <1>1. s \in [suspend: BOOLEAN, valid: BOOLEAN]
    BY ScheduleAssumption
  <1>2. NewObject(s) \in Objects
    BY <1>1 DEF NewObject, Objects, Phases
  <1>3. NewObject(s).hist = <<>>
    BY DEF NewObject
  <1> QED
    BY <1>2, <1>3, ScheduleAssumption DEF HistoryOK

(* What an update writes is well typed, and its history sound.             *)
LEMMA MergeOK ==
  ASSUME IInv, NEW p \in Procs, NEW f \in Objects, HistoryOK(f.hist, prs)
  PROVE  Merge(p, f) \in Objects /\ HistoryOK(Merge(p, f).hist, prs)
  <1>1. /\ obj[p] \in Objects /\ HistoryOK(obj[p].hist, prs) /\ op[p] \in Ops
        /\ Recording(p) => obj[p].number \in 1 .. prs
    BY DEF IInv, LocalsOK
  <1>2. now \in Nat /\ start[p] \in Nat /\ prs \in Nat
    BY DEF IInv, ClockOK, CountersOK
  <1>3. NextRun(start[p]) \in Nat
    BY <1>2, NextRunType
  <1>4. CASE op[p] \in StatusOps
    <2>1. PhaseOf(op[p]) \in Phases
      BY <1>4 DEF StatusOps, PhaseOf, Phases
    <2>2. Merge(p, f) = MergeStatus(f, obj[p], PhaseOf(op[p]))
      BY <1>4 DEF Merge, StatusOps, NextOps
    <2>3. MergeStatus(f, obj[p], PhaseOf(op[p])) \in Objects
      BY <1>1, <1>2, <2>1 DEF MergeStatus, Objects
    <2>4. MergeStatus(f, obj[p], PhaseOf(op[p])).hist \in {f.hist, obj[p].hist}
      BY <1>1 DEF MergeStatus, Objects
    <2> QED
      BY <1>1, <2>2, <2>3, <2>4
  <1>5. CASE op[p] \in NextOps
    <2>1. Merge(p, f) = [f EXCEPT !.next = NextRun(start[p])]
      BY <1>5 DEF Merge, StatusOps, NextOps
    <2> QED
      BY <1>3, <2>1 DEF Objects
  <1>6. ASSUME NEW ph \in {"Created", "Failed", "Pending"}, NEW n \in Nat, n <= prs,
               (ph = "Created") <=> (n > 0)
        PROVE  /\ MergeRecord(f, obj[p], ph, n) \in Objects
               /\ HistoryOK(MergeRecord(f, obj[p], ph, n).hist, prs)
    <2> DEFINE r == [number |-> n, phase |-> ph]
               g == Recorded(f.hist, r)
    <2>1. r \in Records /\ r.number <= prs /\ ((r.phase = "Created") <=> (r.number > 0))
      BY <1>6 DEF Records, Phases
    <2>2. f.hist \in Seq(Records)
      BY DEF Objects
    <2>3. g \in Seq(Records) /\ HistoryOK(g, prs)
      BY <1>2, <2>1, <2>2, RecordedOK
    <2>4. MergeRecord(f, obj[p], ph, n) =
            [f EXCEPT !.phase = ph, !.sync = now, !.number = n, !.last = obj[p].last,
                      !.hist = g]
      BY DEF MergeRecord, Recorded
    <2>5. obj[p].last \in Nat /\ ph \in Phases
      BY <1>1 DEF Objects, Phases
    <2> HIDE DEF g
    <2> QED
      BY <1>2, <2>3, <2>4, <2>5 DEF Objects
  <1>7. CASE op[p] = "recordCreated"
    <2>1. Merge(p, f) = MergeRecord(f, obj[p], "Created", obj[p].number)
      BY <1>7 DEF Merge, StatusOps, NextOps
    <2>2. obj[p].number \in 1 .. prs
      BY <1>1, <1>7 DEF Recording
    <2> QED
      BY <1>2, <1>6, <2>1, <2>2
  <1>8. CASE op[p] \in {"recordFailed", "recordPending"}
    <2>1. Merge(p, f) = MergeRecord(f, obj[p], PhaseOf(op[p]), 0)
      BY <1>8 DEF Merge, StatusOps, NextOps
    <2>2. PhaseOf(op[p]) \in {"Failed", "Pending"}
      BY <1>8 DEF PhaseOf
    <2> QED
      BY <1>2, <1>6, <2>1, <2>2
  <1> QED
    BY <1>1, <1>4, <1>5, <1>7, <1>8 DEF Ops, StatusOps, NextOps, RecordOps

-----------------------------------------------------------------------------
(* The parts of the invariant under the building blocks of the actions.    *)

LEMMA VersionOK ==
  ASSUME IInv, NEW k \in 1 .. RV
  PROVE  versions[k] \in Objects /\ HistoryOK(versions[k].hist, prs)
  BY DEF IInv, StoreOK, RV

LEMMA ViewOK ==
  ASSUME IInv, NEW p \in Procs
  PROVE  /\ Seen(p) \in 1 .. RV
         /\ View(p) \in Objects /\ HistoryOK(View(p).hist, prs)
  <1>1. RV \in Nat /\ RV >= 1 /\ cached[p] \in 1 .. RV
    BY DEF IInv, StoreOK, RV
  <1>2. Seen(p) \in 1 .. RV
    BY <1>1 DEF Seen
  <1> QED
    BY <1>2, VersionOK DEF View

LEMMA CurrentOK ==
  ASSUME IInv
  PROVE  /\ RV \in Nat /\ RV >= 1
         /\ Current \in Objects /\ HistoryOK(Current.hist, prs)
  <1>1. RV \in 1 .. RV /\ RV \in Nat /\ RV >= 1
    BY DEF IInv, StoreOK, RV
  <1> QED
    BY <1>1, VersionOK DEF Current

(* The store when nothing is written, while the caches stay or move on.    *)
LEMMA StoreKept ==
  ASSUME IInv, versions' = versions, cached' \in [Procs -> 1 .. RV],
         fresh' \in [Procs -> 1 .. RV], prs' \in Nat, prs <= prs'
  PROVE  StoreOK'
  <1>1. RV' = RV
    BY DEF RV
  <1>2. \A k \in 1 .. RV : HistoryOK(versions[k].hist, prs')
    <2> TAKE k \in 1 .. RV
    <2>1. versions[k].hist \in Seq(Records) /\ prs \in Nat
      BY VersionOK DEF Objects, IInv, CountersOK
    <2> QED
      BY <2>1, VersionOK, HistoryGrows
  <1> QED
    BY <1>1, <1>2 DEF IInv, StoreOK

LEMMA StoreWritten ==
  ASSUME IInv, NEW o \in Objects, Write(o), HistoryOK(o.hist, prs),
         UNCHANGED <<cached, prs>>, fresh' \in [Procs -> 1 .. RV]
  PROVE  StoreOK'
  <1>1. /\ versions' \in Seq(Objects) /\ RV \in Nat /\ RV' = RV + 1
        /\ \A k \in 1 .. RV : versions'[k] = versions[k]
        /\ versions'[RV + 1] = o
    BY WriteType DEF IInv, StoreOK
  <1>2. 1 .. RV \subseteq 1 .. RV' /\ RV' >= 1
    BY <1>1
  <1>3. \A k \in 1 .. RV' : HistoryOK(versions'[k].hist, prs)
    <2> TAKE k \in 1 .. RV'
    <2>1. k \in 1 .. RV \/ k = RV + 1
      BY <1>1
    <2> QED
      BY <1>1, <2>1, VersionOK
  <1>4. cached' \in [Procs -> 1 .. RV'] /\ fresh' \in [Procs -> 1 .. RV']
    BY <1>2 DEF IInv, StoreOK
  <1> QED
    BY <1>1, <1>2, <1>3, <1>4 DEF StoreOK

(* An update that changes nothing makes no version.                        *)
LEMMA StoreStored ==
  ASSUME IInv, NEW o \in Objects, Store(o), HistoryOK(o.hist, prs),
         UNCHANGED <<cached, prs>>, fresh' \in [Procs -> 1 .. RV]
  PROVE  StoreOK'
  <1>1. CASE UNCHANGED versions
    BY <1>1, StoreKept DEF IInv, StoreOK, CountersOK
  <1>2. CASE Write(o)
    BY <1>2, StoreWritten
  <1> QED
    BY <1>1, <1>2 DEF Store

LEMMA LocalsKept ==
  ASSUME IInv, UNCHANGED <<obj, op, tries, prs>>, pc' \in [Procs -> PCs]
  PROVE  LocalsOK'
  BY DEF IInv, LocalsOK, Recording

LEMMA LeaveOK ==
  ASSUME IInv, NEW p \in Procs, Leave(p), UNCHANGED prs
  PROVE  /\ LocalsOK' /\ fresh' \in [Procs -> 1 .. RV]
         /\ (now' = now => start' \in [Procs -> 0 .. now'])
  <1>1. 1 \in 1 .. RV
    BY CurrentOK
  <1>2. versions[1] \in Objects /\ HistoryOK(versions[1].hist, prs)
    BY <1>1, VersionOK
  <1>3. fresh' \in [Procs -> 1 .. RV]
    BY <1>1 DEF Leave, IInv, StoreOK
  <1>4. 0 \in 0 .. MaxRetries - 1
    BY ScheduleAssumption
  <1>5. "wait" \in Ops /\ "wait" \notin {"recordCreated"}
    BY DEF Ops, NextOps
  <1>6. "idle" \in PCs
    BY DEF PCs
  <1>7. LocalsOK'
    BY <1>2, <1>4, <1>5, <1>6 DEF IInv, LocalsOK, Leave, GoTo, Recording
  <1>8. now' = now => start' \in [Procs -> 0 .. now']
    BY ScheduleAssumption DEF Leave, IInv, ClockOK
  <1> QED
    BY <1>3, <1>7, <1>8

LEMMA UpdateOK ==
  ASSUME IInv, NEW p \in Procs, NEW o \in Objects, NEW u \in Ops, Update(p, o, u),
         prs' \in Nat, prs <= prs', HistoryOK(o.hist, prs'),
         u \in {"recordCreated"} => o.number \in 1 .. prs'
  PROVE  LocalsOK' /\ fresh' = fresh
  <1>1. \A q \in Procs :
            /\ HistoryOK(obj[q].hist, prs')
            /\ Recording(q) => obj[q].number \in 1 .. prs'
    <2> TAKE q \in Procs
    <2>1. /\ obj[q].hist \in Seq(Records) /\ HistoryOK(obj[q].hist, prs)
          /\ Recording(q) => obj[q].number \in 1 .. prs
      BY DEF IInv, LocalsOK, Objects
    <2>2. prs \in Nat
      BY DEF IInv, CountersOK
    <2> QED
      BY <2>1, <2>2, HistoryGrows
  <1>2. 0 \in 0 .. MaxRetries - 1
    BY ScheduleAssumption
  <1>3. "get" \in PCs
    BY DEF PCs
  <1>4. LocalsOK'
    BY <1>1, <1>2, <1>3 DEF IInv, LocalsOK, Update, GoTo, Recording
  <1> QED
    BY <1>4 DEF Update

(* A requeue is at a natural time.                                         *)
LEMMA RequeueOK ==
  ASSUME IInv, NEW p \in Procs, NEW t \in Nat, RequeueAt(p, t)
  PROVE  due' \in [Procs -> Nat] /\ timer' \in [Procs -> BOOLEAN]
  BY DEF IInv, ClockOK, RequeueAt, Requeue

LEMMA TimesOK ==
  ASSUME IInv, NEW p \in Procs
  PROVE  /\ now \in Nat /\ start[p] \in Nat /\ prs \in Nat
         /\ NextRun(now) \in Nat /\ NextRun(start[p]) \in Nat
         /\ WaitUntil(NextRun(now)) \in Nat /\ WaitUntil(NextRun(start[p])) \in Nat
         /\ now + MinWait \in Nat
  <1>1. now \in Nat /\ start[p] \in Nat /\ prs \in Nat
    BY DEF IInv, ClockOK, CountersOK
  <1>2. NextRun(now) \in Nat /\ NextRun(start[p]) \in Nat
    BY <1>1, NextRunType
  <1> QED
    BY <1>1, <1>2, WaitOK, ScheduleAssumption

(* The clock keeps its types in a step that does not move it.              *)
LEMMA ClockKept ==
  ASSUME IInv, now' = now, start' \in [Procs -> 0 .. now'],
         dirty' \in [Procs -> BOOLEAN],
         \/ NoRequeue
         \/ \E p \in Procs : \E t \in Nat : RequeueAt(p, t)
  PROVE  ClockOK'
  <1>1. due' \in [Procs -> Nat] /\ timer' \in [Procs -> BOOLEAN]
    <2>1. CASE NoRequeue
      BY <2>1 DEF NoRequeue, IInv, ClockOK
    <2>2. ASSUME NEW p \in Procs, NEW t \in Nat, RequeueAt(p, t)
          PROVE  due' \in [Procs -> Nat] /\ timer' \in [Procs -> BOOLEAN]
      BY <2>2, RequeueOK
    <2> QED
      BY <2>1, <2>2
  <1> QED
    BY <1>1 DEF IInv, ClockOK

(* After the record comes the next time.                                   *)
LEMMA PublishNextOK ==
  ASSUME IInv, NEW p \in Procs, NEW o \in Objects, PublishNext(p, o),
         HistoryOK(o.hist, prs), op[p] \in RecordOps, UNCHANGED <<now, dirty, prs>>
  PROVE  LocalsOK' /\ ClockOK' /\ fresh' \in [Procs -> 1 .. RV]
  <1> DEFINE u == NextOpAfter(op[p])
  <1>1. u \in Ops /\ u # "recordCreated"
    BY DEF NextOpAfter, Ops, NextOps
  <1>2. Update(p, o, u) /\ NoRequeue /\ UNCHANGED start
    BY DEF PublishNext
  <1>3. prs' \in Nat /\ prs <= prs'
    BY TimesOK
  <1> HIDE DEF u
  <1>4. LocalsOK' /\ fresh' = fresh
    BY <1>1, <1>2, <1>3, UpdateOK
  <1>5. /\ start' \in [Procs -> 0 .. now'] /\ fresh' \in [Procs -> 1 .. RV]
        /\ dirty' \in [Procs -> BOOLEAN]
    BY <1>2, <1>4 DEF IInv, ClockOK, StoreOK
  <1> QED
    BY <1>2, <1>4, <1>5, ClockKept

LEMMA LeaveClockOK ==
  ASSUME IInv, NEW p \in Procs, Leave(p), NoRequeue \/ \E t \in Nat : RequeueAt(p, t),
         UNCHANGED <<now, dirty, prs>>
  PROVE  LocalsOK' /\ ClockOK' /\ fresh' \in [Procs -> 1 .. RV]
  <1>1. dirty' \in [Procs -> BOOLEAN]
    BY DEF IInv, ClockOK
  <1> QED
    BY <1>1, LeaveOK, ClockKept

LEMMA EndsOK ==
  ASSUME IInv, NEW p \in Procs, EndExecution(p) \/ ReturnError(p)
  PROVE  Leave(p) /\ (NoRequeue \/ \E t \in Nat : RequeueAt(p, t))
  BY TimesOK DEF EndExecution, ReturnError, RequeueIfAhead

LEMMA UpdateFailedOK ==
  ASSUME IInv, NEW p \in Procs, UpdateFailed(p), UNCHANGED <<now, dirty, prs>>
  PROVE  LocalsOK' /\ ClockOK' /\ fresh' \in [Procs -> 1 .. RV]
  <1>1. op[p] \in Ops /\ obj[p] \in Objects /\ HistoryOK(obj[p].hist, prs)
    BY DEF IInv, LocalsOK
  <1>2. CASE op[p] \in RecordOps
    <2>1. PublishNext(p, obj[p])
      BY <1>2 DEF UpdateFailed, RecordOps, StatusOps
    <2> QED
      BY <1>1, <1>2, <2>1, PublishNextOK
  <1>3. CASE op[p] \notin RecordOps
    <2>1. EndExecution(p) \/ ReturnError(p)
      BY <1>1, <1>3 DEF UpdateFailed, Ops, StatusOps, RecordOps, NextOps
    <2> QED
      BY <2>1, EndsOK, LeaveClockOK
  <1> QED
    BY <1>2, <1>3

LEMMA UpdateDoneOK ==
  ASSUME IInv, NEW p \in Procs, NEW o \in Objects, UpdateDone(p, o),
         HistoryOK(o.hist, prs), UNCHANGED <<now, dirty, prs>>
  PROVE  LocalsOK' /\ ClockOK' /\ fresh' \in [Procs -> 1 .. RV]
  <1>1. dirty' \in [Procs -> BOOLEAN] /\ op[p] \in Ops /\ obj[p] \in Objects
    BY DEF IInv, ClockOK, LocalsOK
  <1>2. CASE op[p] = "running"
    <2>1. /\ GoTo(p, "rest") /\ obj' = [obj EXCEPT ![p] = o]
          /\ NoRequeue /\ UNCHANGED <<start, fresh, op, tries>>
      BY <1>2 DEF UpdateDone, RecordOps
    <2>2. LocalsOK'
      BY <1>2, <2>1 DEF IInv, LocalsOK, GoTo, PCs, Recording
    <2>3. start' \in [Procs -> 0 .. now'] /\ fresh' \in [Procs -> 1 .. RV]
      BY <2>1 DEF IInv, ClockOK, StoreOK
    <2> QED
      BY <1>1, <2>1, <2>2, <2>3, ClockKept
  <1>3. CASE op[p] \in RecordOps
    <2>1. PublishNext(p, o)
      BY <1>3 DEF UpdateDone, RecordOps
    <2> QED
      BY <1>3, <2>1, PublishNextOK
  <1>4. CASE op[p] \notin {"running"} \cup RecordOps
    <2>1. op[p] \in {"suspended", "invalid", "wait", "nextCreated", "nextOther"}
      BY <1>1, <1>4 DEF Ops, StatusOps, NextOps
    <2>2. Leave(p) /\ (NoRequeue \/ \E t \in Nat : RequeueAt(p, t))
      <3>1. CASE op[p] \in {"nextCreated", "nextOther"}
        BY <3>1, EndsOK DEF UpdateDone, RecordOps
      <3>2. CASE op[p] \in {"suspended", "invalid", "wait"}
        BY <3>2, TimesOK DEF UpdateDone, RecordOps, ReturnError
      <3> QED
        BY <2>1, <3>1, <3>2
    <2> QED
      BY <2>2, LeaveClockOK
  <1> QED
    BY <1>2, <1>3, <1>4

-----------------------------------------------------------------------------
(* The initial states, and one lemma per group of actions.                 *)

LEMMA InitInv == Init => IInv
  <1> SUFFICES ASSUME Init PROVE IInv
    OBVIOUS
  <1>1. PICK s \in Specs : KubeInit(NewObject(s))
    BY DEF Init
  <1> DEFINE o == NewObject(s)
  <1>2. o \in Objects /\ HistoryOK(o.hist, 0)
    BY NewObjectType
  <1>3. /\ versions = <<o>> /\ cached = [q \in Procs |-> 1]
        /\ dirty = [q \in Procs |-> TRUE] /\ timer = [q \in Procs |-> FALSE]
    BY <1>1 DEF KubeInit
  <1> HIDE DEF o
  <1>4. versions \in Seq(Objects) /\ RV = 1 /\ versions[1] = o
    BY <1>2, <1>3 DEF RV
  <1>5. /\ prs = 0 /\ prOpen = FALSE /\ ahead \in BOOLEAN /\ runs = 0 /\ closes = 0
        /\ ScheduleInit
    BY DEF Init
  <1>6. StoreOK
    BY <1>2, <1>3, <1>4, <1>5 DEF StoreOK, ScheduleInit
  <1>7. LocalsOK
    <2>1. 0 \in 0 .. MaxRetries - 1
      BY ScheduleAssumption
    <2>2. "idle" \in PCs /\ "wait" \in Ops
      BY DEF PCs, Ops, NextOps
    <2> QED
      BY <1>2, <1>4, <1>5, <2>1, <2>2 DEF LocalsOK, ScheduleInit, Recording
  <1>8. ClockOK
    <2>1. 1 \in 1 .. MaxTime
      BY ScheduleAssumption
    <2>2. now \in 1 .. MaxTime /\ due \in [Procs -> Nat]
      BY <1>5, <2>1 DEF ScheduleInit
    <2>3. start \in [Procs -> 0 .. now]
      BY <1>5 DEF ScheduleInit
    <2> QED
      BY <1>3, <2>2, <2>3 DEF ClockOK
  <1>9. CountersOK
    <2>1. prOpen \in BOOLEAN
      BY <1>5, Zenon
    <2> QED
      BY <1>5, <2>1, ScheduleAssumption, PullRequestScheduleAssumption
         DEF CountersOK, ScheduleInit
  <1> QED
    BY <1>6, <1>7, <1>8, <1>9 DEF IInv

(* Reconcile reads the object: nothing is written but the locals.          *)
LEMMA ReconcileInv ==
  ASSUME IInv, NEW p \in Procs, Reconcile(p), UNCHANGED worldVars
  PROVE  IInv'
  <1>1. /\ Begin(p) /\ UNCHANGED <<versions, cached, now, edits, crashes, faults>>
        /\ UNCHANGED <<ahead, prs, prOpen, runs, closes>>
    BY DEF Reconcile, ReconcileGone, ReconcileSuspended, ReconcileInvalid, Scheduled,
           ReconcileWait, ReconcileRun, Begin, worldVars
  <1>2. CountersOK'
    <2>1. stale' \in 0 .. MaxStale
      BY <1>1, ScheduleAssumption DEF Begin, IInv, CountersOK
    <2> QED
      BY <1>1, <2>1 DEF IInv, CountersOK
  <1>3. dirty' \in [Procs -> BOOLEAN]
    BY <1>1 DEF Begin, TakeKey, IInv, ClockOK
  <1>4. View(p) \in Objects /\ HistoryOK(View(p).hist, prs)
    BY ViewOK
  <1>5. now \in Nat /\ prs' \in Nat /\ prs <= prs'
    BY <1>1, TimesOK
  <1>6. LocalsOK' /\ fresh' = fresh
    <2>1. CASE UNCHANGED workerVars
      BY <1>1, <2>1, LocalsKept DEF workerVars, IInv, LocalsOK
    <2>2. ASSUME NEW o \in Objects, NEW u \in {"suspended", "invalid", "wait", "running"},
                 Update(p, o, u), o.hist = View(p).hist
          PROVE  LocalsOK' /\ fresh' = fresh
      <3>1. u \in Ops /\ u \notin {"recordCreated"}
        BY DEF Ops, StatusOps, NextOps
      <3> QED
        BY <1>1, <1>4, <1>5, <2>2, <3>1, UpdateOK
    <2>3. /\ [View(p) EXCEPT !.last = now] \in Objects
          /\ [View(p) EXCEPT !.last = now].hist = View(p).hist
      BY <1>4, <1>5 DEF Objects
    <2> QED
      BY <1>4, <2>1, <2>2, <2>3
         DEF Reconcile, ReconcileGone, ReconcileSuspended, ReconcileInvalid,
             ReconcileWait, ReconcileRun
  <1>7. start' \in [Procs -> 0 .. now']
    <2>1. UNCHANGED start \/ start' = [start EXCEPT ![p] = now]
      BY DEF Reconcile, ReconcileGone, ReconcileSuspended, ReconcileInvalid,
             ReconcileWait, ReconcileRun, workerVars
    <2> QED
      BY <1>1, <1>5, <2>1 DEF IInv, ClockOK
  <1>8. NoRequeue \/ \E t \in Nat : RequeueAt(p, t)
    BY TimesOK DEF Reconcile, ReconcileGone, ReconcileSuspended, ReconcileInvalid,
                   ReconcileWait, ReconcileRun
  <1>9. ClockOK'
    BY <1>1, <1>3, <1>7, <1>8, ClockKept
  <1>10. StoreOK'
    BY <1>1, <1>5, <1>6, StoreKept DEF IInv, StoreOK
  <1> QED
    BY <1>2, <1>6, <1>9, <1>10 DEF IInv

LEMMA GetInv ==
  ASSUME IInv, NEW p \in Procs, GetOk(p) \/ PutConflict(p), UNCHANGED worldVars
  PROVE  IInv'
  <1>1. /\ UNCHANGED <<versions, cached, dirty, now, obj, start, op>>
        /\ UNCHANGED <<edits, crashes, faults, stale, ahead, prs, prOpen, runs, closes>>
        /\ NoRequeue
    BY DEF GetOk, PutConflict, boundVars, worldVars
  <1>2. CountersOK'
    BY <1>1 DEF IInv, CountersOK
  <1>3. fresh' \in [Procs -> 1 .. RV]
    BY ViewOK DEF GetOk, PutConflict, IInv, StoreOK
  <1>4. tries' \in [Procs -> 0 .. MaxRetries - 1]
    BY ScheduleAssumption DEF GetOk, PutConflict, RetriesLeft, IInv, LocalsOK
  <1>5. pc' \in [Procs -> PCs]
    BY DEF GetOk, PutConflict, GoTo, PCs, IInv, LocalsOK
  <1>6. LocalsOK'
    BY <1>1, <1>4, <1>5 DEF IInv, LocalsOK, Recording
  <1>7. StoreOK'
    BY SMTT(20), <1>1, <1>3, TimesOK, StoreKept DEF IInv, StoreOK
  <1>8. ClockOK'
    BY <1>1, ClockKept DEF IInv, ClockOK
  <1> QED
    BY <1>2, <1>6, <1>7, <1>8 DEF IInv

LEMMA WrittenOK ==
  ASSUME IInv, NEW p \in Procs
  PROVE  Written(p) \in Objects /\ HistoryOK(Written(p).hist, prs)
  <1>1. fresh[p] \in 1 .. RV
    BY DEF IInv, StoreOK
  <1> QED
    BY <1>1, VersionOK, MergeOK DEF Written

LEMMA PutInv ==
  ASSUME IInv, NEW p \in Procs, PutOk(p) \/ PutFailed(p) \/ PutFault(p)
  PROVE  IInv'
  <1>1. UNCHANGED <<cached, dirty, now, ahead, prs, prOpen, closes, edits, crashes, stale>>
    BY DEF PutOk, PutFailed, PutFault, Exhausted, RemoteKept, boundVars, worldVars
  <1>2. LocalsOK' /\ ClockOK' /\ fresh' \in [Procs -> 1 .. RV]
    <2>1. CASE UpdateFailed(p)
      BY <1>1, <2>1, UpdateFailedOK
    <2>2. CASE UpdateDone(p, Written(p))
      BY <1>1, <2>2, WrittenOK, UpdateDoneOK
    <2> QED
      BY <2>1, <2>2 DEF PutOk, PutFailed, PutFault
  <1>3. StoreOK'
    <2>1. CASE UNCHANGED versions
      BY SMTT(20), <1>1, <1>2, <2>1, TimesOK, StoreKept DEF IInv, StoreOK
    <2>2. CASE Store(Written(p))
      BY <1>1, <1>2, <2>2, WrittenOK, StoreStored
    <2> QED
      BY <2>1, <2>2 DEF PutOk, PutFailed, PutFault, Exhausted
  <1>4. CountersOK'
    <2>1. runs' \in Nat
      BY DEF PutOk, PutFailed, PutFault, CountRun, worldVars, IInv, CountersOK
    <2>2. faults' \in 0 .. MaxFaults
      <3>1. faults' = faults \/ (faults < MaxFaults /\ faults' = faults + 1)
        BY DEF PutOk, PutFailed, PutFault, Exhausted, Fault, boundVars
      <3> QED
        BY <3>1, ScheduleAssumption DEF IInv, CountersOK
    <2> QED
      BY <1>1, <2>1, <2>2 DEF IInv, CountersOK
  <1> QED
    BY <1>2, <1>3, <1>4 DEF IInv

(* A step of the execution: the store and the clock stay as they are.      *)
LEMMA WorkingOK ==
  ASSUME IInv, LocalsOK', fresh' = fresh,
         UNCHANGED <<kubeVars, clockVars, start, runs, closes, edits, crashes, stale>>,
         faults' \in 0 .. MaxFaults, prs' \in {prs, prs + 1}, ahead' \in BOOLEAN,
         prOpen' \in BOOLEAN
  PROVE  IInv'
  <1>1. UNCHANGED <<versions, cached, dirty, timer, now, due, start, runs, closes>>
    BY DEF kubeVars, clockVars
  <1>2. prs' \in Nat /\ prs <= prs'
    BY DEF IInv, CountersOK
  <1>3. StoreOK'
    BY <1>1, <1>2, StoreKept DEF IInv, StoreOK
  <1>4. ClockOK'
    BY <1>1 DEF IInv, ClockOK
  <1>5. CountersOK'
    BY <1>1, <1>2 DEF IInv, CountersOK
  <1> QED
    BY <1>3, <1>4, <1>5 DEF IInv

LEMMA ExecuteInv ==
  ASSUME IInv, NEW p \in Procs,
         Rest(p) \/ Auth(p) \/ Push(p) \/ PushFailed(p) \/ Opened(p) \/ OpenFailed(p)
           \/ OpenLost(p)
  PROVE  IInv'
  <1>1. /\ obj[p] \in Objects /\ HistoryOK(obj[p].hist, prs)
        /\ obj[p].hist \in Seq(Records) /\ prs \in Nat
        /\ ahead \in BOOLEAN /\ prOpen \in BOOLEAN
        /\ faults \in 0 .. MaxFaults
    BY DEF IInv, LocalsOK, CountersOK, Objects
  <1>2. /\ UNCHANGED <<kubeVars, clockVars, start, runs, closes, edits, crashes, stale>>
        /\ prs' \in {prs, prs + 1} /\ ahead' \in BOOLEAN /\ prOpen' \in BOOLEAN
    BY <1>1 DEF Rest, Auth, Push, PushFailed, Opened, OpenFailed, OpenLost, GitHubOpens,
                Working, boundVars
  <1>3. faults' \in 0 .. MaxFaults
    <2>1. faults' = faults \/ (faults < MaxFaults /\ faults' = faults + 1)
      BY DEF Rest, Auth, Push, PushFailed, Opened, OpenFailed, OpenLost, Fault, Working,
             boundVars
    <2> QED
      BY <1>1, <2>1, ScheduleAssumption
  <1>4. prs' \in Nat /\ prs <= prs'
    BY <1>1, <1>2
  <1>5. ASSUME NEW o \in Objects, o.hist = obj[p].hist,
               \/ Update(p, o, "recordFailed") \/ Update(p, o, "recordPending")
               \/ Update(p, o, "recordCreated") /\ o.number \in 1 .. prs'
        PROVE  LocalsOK' /\ fresh' = fresh
    <2>1. HistoryOK(o.hist, prs')
      BY <1>1, <1>4, <1>5, HistoryGrows
    <2>2. {"recordFailed", "recordPending", "recordCreated"} \subseteq Ops
      BY DEF Ops, RecordOps
    <2> QED
      BY <1>4, <1>5, <2>1, <2>2, UpdateOK
  <1>6. ASSUME NEW l \in PCs, Move(p, l), UNCHANGED prs
        PROVE  LocalsOK' /\ fresh' = fresh
    <2>1. pc' \in [Procs -> PCs]
      BY <1>6 DEF Move, GoTo, IInv, LocalsOK
    <2> QED
      BY <1>6, <2>1, LocalsKept DEF Move
  <1>7. {"auth", "push", "open"} \subseteq PCs
    BY DEF PCs
  <1>8. CASE Rest(p) \/ Auth(p) \/ Push(p) \/ PushFailed(p) \/ OpenFailed(p) \/ OpenLost(p)
    <2>1. LocalsOK' /\ fresh' = fresh
      BY <1>1, <1>5, <1>6, <1>7, <1>8
         DEF Rest, Auth, Push, PushFailed, OpenFailed, OpenLost
    <2> QED
      BY <1>2, <1>3, <2>1, WorkingOK
  <1>9. CASE Opened(p)
    <2> DEFINE o == [obj[p] EXCEPT !.number = prs + 1]
    <2>1. o \in Objects /\ o.hist = obj[p].hist /\ o.number = prs + 1
      <3>1. prs + 1 \in Nat
        BY <1>1
      <3> QED
        BY <1>1, <3>1 DEF Objects
    <2>2. Update(p, o, "recordCreated") /\ prs' = prs + 1
      BY <1>9 DEF Opened, GitHubOpens
    <2> HIDE DEF o
    <2>3. o.number \in 1 .. prs'
      BY <1>1, <2>1, <2>2
    <2>4. LocalsOK' /\ fresh' = fresh
      BY <1>5, <2>1, <2>2, <2>3
    <2> QED
      BY <1>2, <1>3, <2>4, WorkingOK
  <1> QED
    BY <1>8, <1>9

LEMMA WatchTimerInv ==
  ASSUME IInv, NEW p \in Procs, Watch(p) \/ Timer(p), UNCHANGED worldVars
  PROVE  IInv'
  <1>1. /\ UNCHANGED <<versions, now, due, pc, obj, start, fresh, op, tries>>
        /\ UNCHANGED <<edits, crashes, faults, stale, ahead, prs, prOpen, runs, closes>>
    BY DEF Watch, Timer, Deliver, TimerFire, clockVars, workerVars, boundVars, worldVars
  <1>2. CountersOK'
    BY <1>1 DEF IInv, CountersOK
  <1>3. LocalsOK'
    BY <1>1, LocalsKept DEF IInv, LocalsOK
  <1>4. cached' \in [Procs -> 1 .. RV]
    <2>1. CASE Watch(p)
      <3>1. /\ cached[p] < RV /\ cached' = [cached EXCEPT ![p] = @ + 1]
            /\ cached \in [Procs -> 1 .. RV] /\ RV \in Nat
        BY <2>1, CurrentOK DEF Watch, Deliver, IInv, StoreOK
      <3> QED
        BY <3>1
    <2>2. CASE Timer(p)
      BY <2>2 DEF Timer, TimerFire, IInv, StoreOK
    <2> QED
      BY <2>1, <2>2
  <1>5. StoreOK'
    BY SMTT(20), <1>1, <1>4, TimesOK, StoreKept DEF IInv, StoreOK
  <1>6. dirty' \in [Procs -> BOOLEAN] /\ timer' \in [Procs -> BOOLEAN]
    BY DEF Watch, Timer, Deliver, TimerFire, IInv, ClockOK
  <1>7. ClockOK'
    BY <1>1, <1>6 DEF IInv, ClockOK
  <1> QED
    BY <1>2, <1>3, <1>5, <1>7 DEF IInv

LEMMA TickInv ==
  ASSUME IInv, Tick, UNCHANGED worldVars
  PROVE  IInv'
  <1>1. UNCHANGED <<versions, cached, dirty, timer, due, pc, obj, start, fresh, op, tries>>
        /\ UNCHANGED <<edits, crashes, faults, stale, ahead, prs, prOpen, runs, closes>>
    BY DEF Tick, kubeVars, workerVars, boundVars, worldVars
  <1>2. StoreOK'
    BY <1>1, StoreKept DEF IInv, StoreOK, CountersOK
  <1>3. LocalsOK'
    BY <1>1, LocalsKept DEF IInv, LocalsOK
  <1>4. now' \in 1 .. MaxTime /\ now <= now' /\ now \in Nat
    BY ScheduleAssumption DEF Tick, IInv, ClockOK
  <1>5. 0 .. now \subseteq 0 .. now'
    BY <1>4
  <1>6. start \in [Procs -> 0 .. now']
    BY <1>5 DEF IInv, ClockOK
  <1> QED
    BY <1>1, <1>2, <1>3, <1>4, <1>6 DEF IInv, ClockOK, CountersOK

LEMMA CrashInv ==
  ASSUME IInv, NEW p \in Procs, Crash(p), UNCHANGED worldVars
  PROVE  IInv'
  <1>1. /\ UNCHANGED <<versions, now, due, edits, faults, stale, ahead, prs,
                    prOpen, runs, closes>>
        /\ Leave(p) /\ Relist(p)
    BY DEF Crash, Relist, clockVars, worldVars
  <1>2. cached' \in [Procs -> 1 .. RV]
    <2>1. RV \in 1 .. RV
      BY CurrentOK
    <2> QED
      BY <1>1, <2>1 DEF Relist, IInv, StoreOK
  <1>3. LocalsOK' /\ fresh' \in [Procs -> 1 .. RV] /\ start' \in [Procs -> 0 .. now']
    BY <1>1, LeaveOK
  <1>4. StoreOK'
    BY <1>1, <1>2, <1>3, TimesOK, StoreKept
  <1>5. Current.gone \in BOOLEAN
    BY CurrentOK DEF Objects
  <1>6. dirty' \in [Procs -> BOOLEAN] /\ timer' \in [Procs -> BOOLEAN]
    BY <1>1, <1>5 DEF Relist, IInv, ClockOK
  <1>7. ClockOK'
    BY <1>1, <1>3, <1>6 DEF IInv, ClockOK
  <1>8. CountersOK'
    <2>1. crashes' \in 0 .. MaxCrashes
      BY ScheduleAssumption DEF Crash, IInv, CountersOK
    <2> QED
      BY <1>1, <2>1 DEF IInv, CountersOK
  <1> QED
    BY <1>3, <1>4, <1>7, <1>8 DEF IInv

(* What the user writes keeps the history.                                 *)
LEMMA UserWrites ==
  ASSUME IInv, UserEdit \/ UserDelete
  PROVE  \E o \in Objects : Write(o) /\ o.hist = Current.hist
  <1>1. Current \in Objects
    BY CurrentOK
  <1>2. CASE UserEdit
    <2>1. PICK s \in Specs :
              Write([Current EXCEPT !.suspend = s.suspend, !.valid = s.valid])
      BY <1>2 DEF UserEdit
    <2>2. s \in [suspend: BOOLEAN, valid: BOOLEAN]
      BY ScheduleAssumption
    <2>3. /\ [Current EXCEPT !.suspend = s.suspend, !.valid = s.valid] \in Objects
          /\ [Current EXCEPT !.suspend = s.suspend, !.valid = s.valid].hist = Current.hist
      BY <1>1, <2>2 DEF Objects
    <2> QED
      BY <2>1, <2>3
  <1>3. CASE UserDelete
    <2>1. /\ [Current EXCEPT !.gone = TRUE] \in Objects
          /\ [Current EXCEPT !.gone = TRUE].hist = Current.hist
      BY <1>1 DEF Objects
    <2> QED
      BY <1>3, <2>1 DEF UserDelete
  <1> QED
    BY <1>2, <1>3

LEMMA UserInv ==
  ASSUME IInv, UserEdit \/ UserDelete, UNCHANGED worldVars
  PROVE  IInv'
  <1>1. UNCHANGED <<cached, dirty, timer, now, due, pc, obj, start, fresh, op, tries>>
        /\ UNCHANGED <<crashes, faults, stale, ahead, prs, prOpen, runs, closes>>
    BY DEF UserEdit, UserDelete, clockVars, workerVars, boundVars, worldVars
  <1>2. StoreOK'
    <2>1. PICK o \in Objects : Write(o) /\ o.hist = Current.hist
      BY UserWrites
    <2> QED
      BY <1>1, <2>1, CurrentOK, StoreWritten DEF IInv, StoreOK
  <1>3. LocalsOK'
    BY <1>1, LocalsKept DEF IInv, LocalsOK
  <1>4. ClockOK'
    BY <1>1 DEF IInv, ClockOK
  <1>5. edits' \in 0 .. MaxEdits
    <2>1. \/ edits' = edits
          \/ edits < MaxEdits /\ edits' = edits + 1
      BY DEF UserEdit, UserDelete, boundVars
    <2> QED
      BY <2>1, ScheduleAssumption DEF IInv, CountersOK
  <1>6. CountersOK'
    BY <1>1, <1>5 DEF IInv, CountersOK
  <1> QED
    BY <1>2, <1>3, <1>4, <1>6 DEF IInv

LEMMA ClosesInv == IInv /\ UserCloses => IInv'
  <1> SUFFICES ASSUME IInv, UserCloses PROVE IInv'
    OBVIOUS
  <1>1. UNCHANGED <<versions, cached, dirty, timer, now, due, pc, obj, start, fresh, op,
                    tries, prs, runs, edits, crashes, faults, stale>>
    BY DEF UserCloses, kubeVars, clockVars, workerVars, boundVars
  <1>2. StoreOK'
    BY <1>1, StoreKept, CurrentOK DEF IInv, StoreOK, CountersOK
  <1>3. LocalsOK'
    BY <1>1, LocalsKept DEF IInv, LocalsOK
  <1>4. CountersOK'
    <2>1. prOpen' \in BOOLEAN /\ ahead' \in BOOLEAN
      BY Zenon DEF UserCloses
    <2>2. closes' \in 0 .. MaxCloses
      BY PullRequestScheduleAssumption DEF UserCloses, IInv, CountersOK
    <2> QED
      BY <1>1, <2>1, <2>2 DEF IInv, CountersOK
  <1> QED
    BY <1>1, <1>2, <1>3, <1>4 DEF IInv, ClockOK

LEMMA StutterInv == IInv /\ UNCHANGED vars => IInv'
  <1> SUFFICES ASSUME IInv, UNCHANGED vars PROVE IInv'
    OBVIOUS
  <1>1. UNCHANGED <<versions, cached, dirty, timer, now, due, pc, obj, start, fresh, op,
                    tries, ahead, prs, prOpen, runs, closes, edits, crashes, faults,
                    stale>>
    BY DEF vars, kubeVars, clockVars, workerVars, worldVars, boundVars
  <1>2. StoreOK'
    BY <1>1, StoreKept, CurrentOK DEF IInv, StoreOK, CountersOK
  <1>3. LocalsOK'
    BY <1>1, LocalsKept DEF IInv, LocalsOK
  <1> QED
    BY <1>1, <1>2, <1>3 DEF IInv, ClockOK, CountersOK

LEMMA NextInv == IInv /\ [Next]_vars => IInv'
  <1> SUFFICES ASSUME IInv, [Next]_vars PROVE IInv'
    OBVIOUS
  <1>1. ASSUME NEW p \in Procs, Step(p) PROVE IInv'
    BY <1>1, ReconcileInv, GetInv, PutInv, ExecuteInv DEF Step, WorldKept
  <1>2. ASSUME NEW p \in Procs, Delivered(p) \/ Elapsed(p) PROVE IInv'
    BY <1>2, WatchTimerInv DEF Delivered, Elapsed, WorldKept
  <1>3. CASE Ticked
    BY <1>3, TickInv DEF Ticked, WorldKept
  <1>4. CASE Environment
    BY <1>4, PutInv, ExecuteInv, CrashInv, UserInv, ClosesInv DEF Environment, WorldKept
  <1>5. CASE UNCHANGED vars
    BY <1>5, StutterInv
  <1> QED
    BY <1>1, <1>2, <1>3, <1>4, <1>5 DEF Next

-----------------------------------------------------------------------------
(* The invariant holds in every reachable state, for any number of         *)
(* replicas on caches however old.                                         *)
THEOREM Invariance == Spec => []IInv
  BY InitInv, NextInv, PTL DEF Spec

(* Every variable keeps its type; no worker has seen a later time.         *)
THEOREM TypeCorrect == Spec => []TypeOK
  <1>1. IInv => TypeOK
    BY DEF IInv, StoreOK, LocalsOK, ClockOK, CountersOK, TypeOK
  <1> QED
    BY <1>1, Invariance, PTL

-----------------------------------------------------------------------------
(* The order of a history, with one process.                               *)

OneProcess == \E p : Procs = {p}

(* A record that is newer than the history, or has no number, keeps the    *)
(* order when it is put in front.                                          *)
LEMMA RecordedInOrder ==
  ASSUME NEW h \in Seq(Records), NEW r \in Records, Ordered(h),
         r.number = 0 \/ Newer(h, r.number)
  PROVE  Ordered(Recorded(h, r))
  <1> DEFINE g == Recorded(h, r)
  <1>1. /\ g \in Seq(Records) /\ g[1] = r
        /\ \A i \in 2 .. Len(g) : i - 1 \in 1 .. Len(h) /\ g[i] = h[i - 1]
    BY RecordFirst
  <1> HIDE DEF g
  <1>2. ASSUME NEW i \in DOMAIN g, NEW j \in DOMAIN g, i < j, g[i].number > 0
        PROVE  g[j].number < g[i].number
    <2>1. /\ i \in 1 .. Len(g) /\ j \in 2 .. Len(g) /\ j - 1 \in 1 .. Len(h)
          /\ g[j] = h[j - 1]
      BY <1>1, <1>2
    <2>2. CASE i = 1
      BY <1>1, <1>2, <2>1, <2>2 DEF Newer
    <2>3. CASE i # 1
      <3>1. i - 1 \in 1 .. Len(h) /\ g[i] = h[i - 1] /\ i - 1 < j - 1
        BY <1>1, <1>2, <2>1, <2>3
      <3> QED
        BY <1>2, <2>1, <3>1 DEF Ordered
    <2> QED
      BY <2>2, <2>3
  <1>3. Ordered(g)
    BY <1>2 DEF Ordered
  <1> QED
    BY <1>3 DEF g

LEMMA VersionInOrder ==
  ASSUME IInv, OrderOK, NEW p \in Procs, NEW k \in 1 .. RV
  PROVE  /\ Ordered(versions[k].hist)
         /\ Recording(p) => Newer(versions[k].hist, obj[p].number)
  BY DEF OrderOK

(* What an update writes is in order; only a record adds to the history.   *)
LEMMA WrittenInOrder ==
  ASSUME IInv, OrderOK, NEW p \in Procs
  PROVE  Ordered(Written(p).hist)
  <1> DEFINE f == versions[fresh[p]]
  <1>1. fresh[p] \in 1 .. RV
    BY DEF IInv, StoreOK
  <1>2. /\ f \in Objects /\ Ordered(f.hist)
        /\ Recording(p) => Newer(f.hist, obj[p].number)
    BY <1>1, VersionOK, VersionInOrder
  <1>3. /\ obj[p] \in Objects /\ op[p] \in Ops /\ Ordered(obj[p].hist)
        /\ Written(p) = Merge(p, f) /\ f.hist \in Seq(Records)
    BY <1>2 DEF IInv, LocalsOK, OrderOK, Written, Objects
  <1> HIDE DEF f
  <1>4. CASE op[p] \in StatusOps
    <2>1. Written(p) = MergeStatus(f, obj[p], PhaseOf(op[p]))
      BY <1>3, <1>4 DEF Merge, StatusOps, NextOps
    <2>2. MergeStatus(f, obj[p], PhaseOf(op[p])).hist \in {f.hist, obj[p].hist}
      BY <1>2 DEF MergeStatus, Objects
    <2> QED
      BY <1>2, <1>3, <2>1, <2>2
  <1>5. CASE op[p] \in NextOps
    <2>1. Written(p) = [f EXCEPT !.next = NextRun(start[p])]
      BY <1>3, <1>5 DEF Merge, StatusOps, NextOps
    <2>2. Written(p).hist = f.hist
      BY <1>2, <2>1 DEF Objects
    <2> QED
      BY <1>2, <2>2 DEF Recording
  <1>6. ASSUME NEW ph \in Phases, NEW n \in Nat, n = 0 \/ Newer(f.hist, n)
        PROVE  Ordered(MergeRecord(f, obj[p], ph, n).hist)
    <2>1. [number |-> n, phase |-> ph] \in Records
      BY DEF Records
    <2>2. Ordered(Recorded(f.hist, [number |-> n, phase |-> ph]))
      BY <1>2, <1>3, <1>6, <2>1, RecordedInOrder
    <2>3. MergeRecord(f, obj[p], ph, n).hist
            = Recorded(f.hist, [number |-> n, phase |-> ph])
      BY <1>2 DEF MergeRecord, Recorded, Objects
    <2> QED
      BY <2>2, <2>3
  <1>7. CASE op[p] = "recordCreated"
    <2>1. Written(p) = MergeRecord(f, obj[p], "Created", obj[p].number)
      BY <1>3, <1>7 DEF Merge, StatusOps, NextOps
    <2>2. Newer(f.hist, obj[p].number) /\ obj[p].number \in Nat
      BY <1>2, <1>3, <1>7 DEF Recording, Objects
    <2>3. "Created" \in Phases
      BY DEF Phases
    <2> QED
      BY <1>6, <2>1, <2>2, <2>3
  <1>8. CASE op[p] \in {"recordFailed", "recordPending"}
    <2>1. Written(p) = MergeRecord(f, obj[p], PhaseOf(op[p]), 0)
      BY <1>3, <1>8 DEF Merge, StatusOps, NextOps
    <2>2. PhaseOf(op[p]) \in Phases
      BY <1>8 DEF PhaseOf, Phases
    <2> QED
      BY <1>6, <2>1, <2>2
  <1> QED
    BY <1>3, <1>4, <1>5, <1>7, <1>8 DEF Ops, StatusOps, NextOps, RecordOps

(* A step that stores o, or nothing, after which the worker records the    *)
(* same pull request or none.                                              *)
LEMMA OrderStored ==
  ASSUME IInv, OrderOK, NEW p, Procs = {p}, NEW o \in Objects, Store(o),
         Ordered(o.hist), Ordered(obj'[p].hist),
         Recording(p)' => /\ Recording(p) /\ obj'[p].number = obj[p].number
                          /\ Newer(o.hist, obj[p].number)
  PROVE  OrderOK'
  <1>1. /\ RV' \in Nat
        /\ \A k \in 1 .. RV' : \/ k \in 1 .. RV /\ versions'[k] = versions[k]
                               \/ versions'[k] = o
    <2>1. CASE UNCHANGED versions
      BY <2>1, CurrentOK DEF RV
    <2>2. CASE Write(o)
      <3>1. /\ RV \in Nat /\ RV' = RV + 1 /\ versions'[RV + 1] = o
            /\ \A k \in 1 .. RV : versions'[k] = versions[k]
        BY <2>2, WriteType DEF IInv, StoreOK
      <3> QED
        BY <3>1
    <2> QED
      BY <2>1, <2>2 DEF Store
  <1>2. \A k \in 1 .. RV' : Ordered(versions'[k].hist)
    BY <1>1, VersionInOrder
  <1>3. Recording(p)' => \A k \in 1 .. RV' : Newer(versions'[k].hist, obj'[p].number)
    BY <1>1, VersionInOrder
  <1> QED
    BY <1>2, <1>3 DEF OrderOK

LEMMA OrderKept ==
  ASSUME IInv, OrderOK, NEW p, Procs = {p}, UNCHANGED versions,
         Ordered(obj'[p].hist),
         Recording(p)' => Recording(p) /\ obj'[p].number = obj[p].number
  PROVE  OrderOK'
  <1>1. Store(Current)
    BY DEF Store
  <1>2. RV \in 1 .. RV
    BY CurrentOK
  <1>3. /\ Ordered(Current.hist) /\ Current \in Objects
        /\ Recording(p) => Newer(Current.hist, obj[p].number)
    BY <1>2, CurrentOK, VersionInOrder DEF Current
  <1> QED
    BY <1>1, <1>3, OrderStored

LEMMA LeaveInOrder ==
  ASSUME IInv, OrderOK, NEW p \in Procs, Leave(p)
  PROVE  Ordered(obj'[p].hist) /\ ~Recording(p)'
  <1>1. 1 \in 1 .. RV
    BY CurrentOK
  <1>2. obj'[p] = versions[1] /\ op'[p] = "wait"
    BY DEF Leave, IInv, LocalsOK
  <1> QED
    BY <1>1, <1>2, VersionInOrder DEF Recording

(* Steps that do not begin to record a pull request.                       *)
LEMMA ReconcileInOrder ==
  ASSUME IInv, OrderOK, NEW p, Procs = {p}, Reconcile(p)
  PROVE  OrderOK'
  <1>1. UNCHANGED versions /\ p \in Procs
    BY DEF Reconcile, ReconcileGone, ReconcileSuspended, ReconcileInvalid, Scheduled,
           ReconcileWait, ReconcileRun, Begin
  <1>2. CASE UNCHANGED workerVars
    BY <1>1, <1>2, OrderKept DEF workerVars, Recording, OrderOK
  <1>3. ASSUME NEW o \in Objects, NEW u \in {"suspended", "invalid", "wait", "running"},
               Update(p, o, u), o.hist = View(p).hist
        PROVE  OrderOK'
    <2>1. obj'[p] = o /\ op'[p] = u
      BY <1>1, <1>3 DEF Update, IInv, LocalsOK
    <2>2. Ordered(View(p).hist)
      BY <1>1, ViewOK, VersionInOrder DEF View
    <2> QED
      BY <1>1, <1>3, <2>1, <2>2, OrderKept DEF Recording
  <1>4. View(p) \in Objects /\ now \in Nat
    BY <1>1, ViewOK, TimesOK
  <1>5. /\ [View(p) EXCEPT !.last = now] \in Objects
        /\ [View(p) EXCEPT !.last = now].hist = View(p).hist
    BY <1>4 DEF Objects
  <1> QED
    BY <1>2, <1>3, <1>4, <1>5
       DEF Reconcile, ReconcileGone, ReconcileSuspended, ReconcileInvalid,
           ReconcileWait, ReconcileRun

LEMMA PublishInOrder ==
  ASSUME IInv, NEW p \in Procs, NEW o, PublishNext(p, o)
  PROVE  obj'[p] = o /\ ~Recording(p)'
  BY DEF PublishNext, NextOpAfter, Update, IInv, LocalsOK, Recording

LEMMA PutInOrder ==
  ASSUME IInv, OrderOK, NEW p, Procs = {p}, PutOk(p) \/ PutFailed(p) \/ PutFault(p)
  PROVE  OrderOK'
  <1>1. /\ p \in Procs /\ Written(p) \in Objects /\ Ordered(Written(p).hist)
        /\ Ordered(obj[p].hist) /\ op[p] \in Ops
    BY WrittenOK, WrittenInOrder DEF OrderOK, IInv, LocalsOK
  <1>2. UNCHANGED versions \/ Store(Written(p))
    BY DEF PutOk, PutFailed, PutFault, Exhausted
  <1>3. ASSUME Ordered(obj'[p].hist), ~Recording(p)' PROVE OrderOK'
    BY <1>1, <1>2, <1>3, OrderKept, OrderStored
  <1>4. ASSUME Leave(p) PROVE OrderOK'
    BY <1>1, <1>3, <1>4, LeaveInOrder
  <1>5. ASSUME NEW o, Ordered(o.hist), PublishNext(p, o) PROVE OrderOK'
    BY <1>1, <1>3, <1>5, PublishInOrder
  <1>6. CASE UpdateFailed(p)
    BY <1>1, <1>4, <1>5, <1>6
       DEF UpdateFailed, EndExecution, ReturnError, Ops, StatusOps, RecordOps, NextOps
  <1>7. CASE UpdateDone(p, Written(p))
    <2>1. CASE op[p] = "running"
      <3>1. obj' = [obj EXCEPT ![p] = Written(p)] /\ op' = op
        BY <1>7, <2>1 DEF UpdateDone, RecordOps
      <3>2. obj'[p] = Written(p) /\ ~Recording(p)'
        BY <1>1, <2>1, <3>1 DEF IInv, LocalsOK, Recording
      <3> QED
        BY <1>1, <1>3, <3>2
    <2>2. CASE op[p] \in RecordOps
      BY <1>1, <1>5, <1>7, <2>2 DEF UpdateDone, RecordOps
    <2>3. CASE op[p] \notin {"running"} \cup RecordOps
      <3>1. op[p] \in {"suspended", "invalid", "wait", "nextCreated", "nextOther"}
        BY <1>1, <2>3 DEF Ops, StatusOps, NextOps
      <3> QED
        BY <1>4, <1>7, <3>1 DEF UpdateDone, ReturnError, EndExecution, RecordOps
    <2> QED
      BY <2>1, <2>2, <2>3
  <1> QED
    BY <1>6, <1>7 DEF PutOk, PutFailed, PutFault

LEMMA ExecuteInOrder ==
  ASSUME IInv, OrderOK, NEW p, Procs = {p},
         Rest(p) \/ Auth(p) \/ Push(p) \/ PushFailed(p) \/ Opened(p) \/ OpenFailed(p)
           \/ OpenLost(p)
  PROVE  OrderOK'
  <1>1. /\ UNCHANGED versions /\ p \in Procs
        /\ obj[p] \in Objects /\ Ordered(obj[p].hist) /\ prs \in Nat
    BY DEF Rest, Auth, Push, PushFailed, Opened, OpenFailed, OpenLost, Working, kubeVars,
           IInv, LocalsOK, OrderOK, CountersOK
  <1>2. ASSUME NEW u \in {"recordFailed", "recordPending"}, Update(p, obj[p], u)
        PROVE  OrderOK'
    <2>1. obj'[p] = obj[p] /\ op'[p] = u
      BY <1>1, <1>2 DEF Update, IInv, LocalsOK
    <2> QED
      BY <1>1, <2>1, OrderKept DEF Recording
  <1>3. ASSUME NEW l, Move(p, l) PROVE OrderOK'
    BY <1>1, <1>3, OrderKept DEF Move, Recording
  <1>4. CASE Rest(p) \/ Auth(p) \/ Push(p) \/ PushFailed(p) \/ OpenFailed(p) \/ OpenLost(p)
    BY <1>2, <1>3, <1>4 DEF Rest, Auth, Push, PushFailed, OpenFailed, OpenLost
  <1>5. CASE Opened(p)
    <2>1. obj'[p] = [obj[p] EXCEPT !.number = prs + 1]
      BY <1>1, <1>5 DEF Opened, Update, IInv, LocalsOK
    <2>2. obj'[p].hist = obj[p].hist /\ obj'[p].number = prs + 1
      BY <1>1, <2>1 DEF Objects
    <2>3. ASSUME NEW k \in 1 .. RV PROVE Newer(versions[k].hist, prs + 1)
      <3>1. HistoryOK(versions[k].hist, prs) /\ versions[k].hist \in Seq(Records)
        BY VersionOK DEF Objects
      <3>2. \A i \in DOMAIN versions[k].hist :
                /\ versions[k].hist[i].number <= prs
                /\ versions[k].hist[i].number \in Nat
        <4>1. \A i \in DOMAIN versions[k].hist : versions[k].hist[i] \in Records
          BY <3>1
        <4> QED
          BY <3>1, <4>1 DEF HistoryOK, Records
      <3> QED
        BY <1>1, <3>2 DEF Newer
    <2>4. RV' = RV /\ \A k \in 1 .. RV : Ordered(versions[k].hist)
      BY <1>1, VersionInOrder DEF RV
    <2> QED
      BY <1>1, <2>2, <2>3, <2>4 DEF OrderOK
  <1> QED
    BY <1>4, <1>5

LEMMA OrderNext ==
  ASSUME OneProcess, IInv, OrderOK, [Next]_vars
  PROVE  OrderOK'
  <1>1. PICK p : Procs = {p}
    BY DEF OneProcess
  <1>2. p \in Procs /\ Ordered(obj[p].hist)
    BY <1>1 DEF OrderOK
  <1>3. CASE UNCHANGED <<versions, obj, op>>
    BY <1>1, <1>2, <1>3, OrderKept DEF Recording
  <1>4. CASE Crash(p)
    <2>1. Leave(p) /\ UNCHANGED versions
      BY <1>4 DEF Crash, Relist
    <2> QED
      BY <1>1, <1>2, <2>1, LeaveInOrder, OrderKept
  <1>5. CASE UserEdit \/ UserDelete
    <2>1. PICK o \in Objects : Write(o) /\ o.hist = Current.hist
      BY <1>5, UserWrites
    <2>2. UNCHANGED <<obj, op>>
      BY <1>5 DEF UserEdit, UserDelete, workerVars
    <2>3. RV \in 1 .. RV
      BY CurrentOK
    <2>4. Ordered(o.hist) /\ (Recording(p) => Newer(o.hist, obj[p].number))
      BY <1>2, <2>1, <2>3, VersionInOrder DEF Current
    <2>5. CASE o = Current
      <3>1. \A k \in 1 .. RV' : \E m \in 1 .. RV : versions'[k] = versions[m]
        <4>1. /\ RV \in Nat /\ RV' = RV + 1 /\ versions'[RV + 1] = Current
              /\ \A k \in 1 .. RV : versions'[k] = versions[k]
          BY <2>1, <2>5, WriteType, CurrentOK DEF IInv, StoreOK
        <4> QED
          BY <2>3, <4>1 DEF Current
      <3> QED
        BY <2>2, <3>1 DEF OrderOK, Recording
    <2>6. CASE o # Current
      <3>1. Store(o)
        BY <2>1, <2>6 DEF Store
      <3> QED
        BY <1>1, <1>2, <2>2, <2>4, <3>1, OrderStored DEF Recording
    <2> QED
      BY <2>5, <2>6
  <1>6. ASSUME Step(p) PROVE OrderOK'
    <2>1. CASE GetOk(p) \/ PutConflict(p)
      BY <1>3, <2>1 DEF GetOk, PutConflict
    <2> QED
      BY <1>1, <1>6, <2>1, ReconcileInOrder, PutInOrder, ExecuteInOrder DEF Step
  <1>7. CASE Delivered(p) \/ Elapsed(p) \/ Ticked \/ UserCloses \/ UNCHANGED vars
    BY <1>3, <1>7 DEF Delivered, Elapsed, Ticked, Watch, Timer, Tick, Deliver, TimerFire,
                      UserCloses, workerVars, kubeVars, vars
  <1> QED
    BY <1>1, <1>4, <1>5, <1>6, <1>7, PutInOrder, ExecuteInOrder DEF Next, Environment

(* The execution history tells the truth, newest first: a record says      *)
(* Created exactly when it names a pull request, GitHub has opened that    *)
(* pull request, and an older record names an older one, on caches however *)
(* old and whatever crashes, edits, conflicts, lost answers and failed     *)
(* calls come in between.                                                  *)
THEOREM HistoryTellsTheTruth == OneProcess => (Spec => []HistoryIsHonest)
  <1> SUFFICES ASSUME OneProcess PROVE Spec => []HistoryIsHonest
    OBVIOUS
  <1>1. Init => OrderOK
    <2> SUFFICES ASSUME Init PROVE OrderOK
      OBVIOUS
    <2>1. PICK s \in Specs : KubeInit(NewObject(s))
      BY DEF Init
    <2>2. versions = <<NewObject(s)>> /\ NewObject(s).hist = <<>>
      BY <2>1 DEF KubeInit, NewObject
    <2>3. RV = 1 /\ versions[1].hist = <<>>
      BY <2>2 DEF RV
    <2>4. \A p \in Procs : obj[p] = versions[1] /\ op[p] = "wait"
      BY DEF Init, ScheduleInit
    <2> QED
      BY <2>3, <2>4 DEF OrderOK, Ordered, Recording
  <1>2. IInv /\ OrderOK /\ [Next]_vars => OrderOK'
    BY OrderNext
  <1>3. IInv /\ OrderOK => HistoryIsHonest
    <2> SUFFICES ASSUME IInv, OrderOK, NEW k \in 1 .. RV
                 PROVE  HistoryOK(versions[k].hist, prs) /\ Ordered(versions[k].hist)
      BY DEF HistoryIsHonest, HistoryOK, Ordered
    <2> QED
      BY VersionOK DEF OrderOK
  <1> QED
    BY <1>1, <1>2, <1>3, Invariance, PTL DEF Spec
-----------------------------------------------------------------------------
(* The accounts of one process whose reads are current: every run is       *)
(* counted against a time on the schedule or a mishap, and recorded at     *)
(* most once; the last pull request is in hand until it is recorded.       *)

Ideal == CacheLag = FALSE /\ OneProcess

Accounts(p) == IInv /\ AccountOK /\ CacheLag = FALSE /\ Procs = {p}

LEMMA AccountFacts ==
  ASSUME NEW p, Accounts(p)
  PROVE  /\ p \in Procs /\ Typed(p, Objects, PCs) /\ CountsTyped(p) /\ Met(p) <= edits
         /\ Current \in Objects /\ obj[p] \in Objects /\ op[p] \in Ops /\ pc[p] \in PCs
         /\ Current.last \in Nat /\ Current.next \in Nat /\ Current.hist \in Seq(Records)
         /\ Len(Current.hist) \in Nat /\ Len(Current.hist) <= MaxHistory
         /\ now \in Nat \ {0} /\ start[p] \in 0 .. now /\ runs \in Nat /\ prs \in Nat
         /\ Spare(p) \in Nat /\ Mishaps \in Nat /\ Spare(p) <= Mishaps
         /\ Period \in Nat \ {0} /\ MaxHistory \in Nat
  <1>1. p \in Procs
    BY DEF Accounts
  <1>2. op = [q \in Procs |-> op[q]]
    BY DEF Accounts, IInv, LocalsOK
  <1>3. CountsTyped(p)
    BY <1>1 DEF Accounts, IInv, CountersOK, LocalsOK, CountsTyped
  <1>4. now \in Nat \ {0}
    BY DEF Accounts, IInv, ClockOK
  <1>5. Typed(p, Objects, PCs)
    BY <1>2, <1>3, <1>4 DEF Typed, Accounts, IInv, StoreOK, LocalsOK, ClockOK
  <1>6. Met(p) <= edits
    BY <1>1 DEF Accounts, AccountOK
  <1>7. Current \in Objects /\ Len(Current.hist) <= MaxHistory
    BY CurrentOK DEF Accounts, HistoryOK
  <1>8. /\ Current.last \in Nat /\ Current.next \in Nat /\ Current.hist \in Seq(Records)
        /\ Len(Current.hist) \in Nat
    BY <1>7 DEF Objects
  <1>9. obj[p] \in Objects /\ op[p] \in Ops /\ pc[p] \in PCs /\ start[p] \in 0 .. now
        /\ runs \in Nat /\ prs \in Nat
    BY <1>1 DEF Accounts, IInv, LocalsOK, ClockOK, CountersOK
  <1> QED
    BY <1>1, <1>3, <1>4, <1>5, <1>6, <1>7, <1>8, <1>9, SpareType, ScheduleAssumption

(* The pull requests after a step: none is opened, and the last one stays  *)
(* in hand; or one is opened, and it is in hand; or there is a mishap.     *)
PullKept(p) ==
    /\ \/ prs' = prs /\ (prOpen' => prOpen)
       \/ prs' = prs + 1
    /\ \/ prs' = prs /\ (InHand(p) => InHand(p)')
       \/ InHand(p)'
       \/ Spare(p) + 1 <= Spare(p)'

(* A step that changes neither the plan nor the runs, and that does not    *)
(* end a run unless it costs a mishap.                                     *)
LEMMA Carried ==
  ASSUME NEW p, Accounts(p), IInv', Charged(p), now <= now', runs' = runs,
         \/ Current'.gone
         \/ /\ Current'.last = Current.last /\ Current'.next = Current.next
            /\ Current'.hist = Current.hist /\ ~Current.gone
            /\ HandOK(p)' /\ ExecutionOK(p)'
            /\ Executing(p)' => Executing(p)
            /\ Unrecorded(p)' => Unrecorded(p)
            /\ (Executing(p) => Executing(p)') \/ Spare(p) + 1 <= Spare(p)'
            /\ PullKept(p)
  PROVE  AccountOK'
  <1>1. /\ CountsTyped(p) /\ Met(p) <= edits /\ p \in Procs /\ Procs = {p}
        /\ now \in Nat \ {0} /\ runs \in Nat /\ Spare(p) \in Nat /\ Mishaps \in Nat
        /\ Period \in Nat \ {0} /\ Current.next \in Nat
        /\ Len(Current.hist) \in Nat /\ prs \in Nat
    BY AccountFacts DEF Accounts
  <1>2. CountsTyped(p)' /\ now' \in Nat
    BY <1>1 DEF CountsTyped, IInv, CountersOK, LocalsOK, ClockOK
  <1>3. /\ Met(p)' <= edits' /\ Spare(p) <= Spare(p)' /\ Mishaps <= Mishaps'
        /\ Spare(p)' <= Mishaps'
    BY <1>1, <1>2, SpareGrows DEF Charged
  <1>4. Spare(p)' \in Nat /\ Mishaps' \in Nat
    BY <1>1, <1>2, SpareGrows DEF Charged
  <1>5. /\ now \div Period \in Nat /\ now' \div Period \in Nat
        /\ now \div Period <= now' \div Period
    BY <1>1, <1>2, DivLe, DivDef
  <1>6. RunsAccounted'
    <2>1. RunsAccounted
      BY <1>1 DEF Accounts, AccountOK
    <2> QED
      BY <1>1, <1>3, <1>4, <1>5, <2>1 DEF RunsAccounted
  <1>7. ASSUME ~Current'.gone
        PROVE  PlanOK' /\ HandOK(p)' /\ ExecutionOK(p)' /\ RunsOK(p)' /\ RecordsOK(p)'
    <2>1. /\ Current'.last = Current.last /\ Current'.next = Current.next
          /\ Current'.hist = Current.hist /\ ~Current.gone
          /\ HandOK(p)' /\ ExecutionOK(p)'
          /\ Executing(p)' => Executing(p)
          /\ Unrecorded(p)' => Unrecorded(p)
          /\ (Executing(p) => Executing(p)') \/ Spare(p) + 1 <= Spare(p)'
          /\ PullKept(p)
      BY <1>7
    <2>2. PlanOK /\ RunsOK(p) /\ RecordsOK(p)
      BY <1>1, <2>1 DEF Accounts, AccountOK
    <2>3. Current.next \div Period \in Nat
      BY <1>1, DivDef
    <2>4. PlanOK'
      BY <1>1, <1>5, <2>1, <2>2, <2>3 DEF PlanOK
    <2>5. Slots \in Nat /\ Slots' = Slots /\ Slots <= Current.next \div Period + 1
          /\ Current.next \div Period <= Slots
      <3>1. 0 \div Period = 0
        BY <1>1
      <3> QED
        BY <2>1, <2>3, <3>1 DEF Slots
    <2>6. RunsOK(p)'
      BY <1>1, <1>3, <1>4, <2>1, <2>2, <2>3, <2>5 DEF RunsOK
    <2>7. RecordsOK(p)'
      <3>1. Len(Current'.hist) + OpenRun(Unrecorded(p)') <= runs'
        <4>1. OpenRun(Unrecorded(p)) \in {0, 1} /\ OpenRun(Unrecorded(p)') \in {0, 1}
              /\ OpenRun(Unrecorded(p)') <= OpenRun(Unrecorded(p))
          BY <2>1 DEF OpenRun
        <4>2. Len(Current.hist) + OpenRun(Unrecorded(p)) <= runs
          BY <2>2 DEF RecordsOK
        <4> HIDE DEF OpenRun, Unrecorded
        <4> QED
          BY <1>1, <2>1, <4>1, <4>2
      <3>2. prs' = 0 => ~prOpen'
        <4>1. prs = 0 => ~prOpen
          BY <2>2 DEF RecordsOK
        <4>2. prs + 1 # 0
          BY <1>1
        <4> QED
          BY <2>1, <4>1, <4>2, Zenon DEF PullKept
      <3>3. ASSUME runs' <= MaxHistory, Mishaps' = 0, prs' > 0
            PROVE  InHand(p)' \/ Named(Current'.hist, prs')
        <4>1. Spare(p)' = 0 /\ Mishaps = 0 /\ Spare(p) = 0
          BY <1>1, <1>3, <1>4, <3>3
        <4>2. InHand(p)' \/ (prs' = prs /\ (InHand(p) => InHand(p)'))
          BY <2>1, <4>1 DEF PullKept
        <4>3. prs' = prs => InHand(p) \/ Named(Current.hist, prs)
          BY <2>2, <3>3, <4>1 DEF RecordsOK
        <4> QED
          BY <2>1, <4>2, <4>3
      <3> QED
        BY <3>1, <3>2, <3>3 DEF RecordsOK
    <2> QED
      BY <2>1, <2>4, <2>6, <2>7
  <1> QED
    BY <1>1, <1>3, <1>6, <1>7 DEF AccountOK

LEMMA ReconcileAccount ==
  ASSUME NEW p, Accounts(p), IInv', Reconcile(p), UNCHANGED worldVars
  PROVE  AccountOK' /\ Charged(p)
  <1> DEFINE o == [Current EXCEPT !.last = now]
  <1>1. /\ p \in Procs /\ Typed(p, Objects, PCs) /\ Current \in Objects
        /\ now \in Nat \ {0} /\ CacheLag = FALSE /\ Current.next \in Nat
        /\ UNCHANGED <<prs, prOpen, runs>>
    BY AccountFacts DEF Accounts, worldVars
  <1>2. o.last = now /\ o.next = Current.next /\ o.hist = Current.hist
    BY <1>1 DEF Objects
  <1> HIDE DEF o
  <1>3. PlanOK \/ Current.gone
    BY <1>1 DEF Accounts, AccountOK
  <1>4. /\ UNCHANGED <<versions, edits, crashes, faults, now>>
        /\ Charged(p)
        /\ pc[p] = "idle"
        /\ \/ pc'[p] = "idle"
           \/ pc'[p] = "get" /\ op'[p] \in {"suspended", "invalid", "wait", "running"}
        /\ Current.gone \/ HandOK(p)'
    BY <1>1, <1>2, <1>3, ReconcileHand DEF o
  <1>5. Current' = Current
    BY <1>4 DEF Current, RV
  <1>6. ~Executing(p) /\ ~Unrecorded(p) /\ ~InHand(p)
    BY <1>4 DEF Executing, Unrecorded, Updating, InHand
  <1>7. ~Executing(p)' /\ ~Unrecorded(p)'
    BY <1>4 DEF Executing, Unrecorded, Updating, RecordOps
  <1>8. ExecutionOK(p)' /\ PullKept(p)
    BY <1>1, <1>6, <1>7 DEF ExecutionOK, PullKept
  <1>9. now <= now'
    BY <1>1, <1>4
  <1>10. CASE Current.gone
    BY <1>1, <1>4, <1>5, <1>9, <1>10, Carried
  <1>11. CASE ~Current.gone
    BY <1>1, <1>4, <1>5, <1>6, <1>7, <1>8, <1>9, <1>11, Carried
  <1> QED
    BY <1>10, <1>11

(* A step that moves the worker at most from one call of an update, or of  *)
(* an execution, to the next.                                              *)
LEMMA MovedAccount ==
  ASSUME NEW p, Accounts(p), IInv', Charged(p), UNCHANGED <<versions, runs>>,
         now <= now', obj'[p].last = obj[p].last, obj'[p].next = obj[p].next,
         obj'[p].hist = obj[p].hist, start'[p] = start[p], PullKept(p),
         \/ op'[p] = op[p] /\ (Updating(p) <=> Updating(p)') /\ (Executing(p) <=> Executing(p)')
            /\ (Unrecorded(p)' => Unrecorded(p))
         \/ Executing(p) /\ Executing(p)' /\ (Unrecorded(p)' => Unrecorded(p))
            /\ (Updating(p)' => op'[p] \in RecordOps \cup {"nextCreated", "nextOther"})
  PROVE  AccountOK'
  <1>1. Current' = Current
    BY DEF Current, RV
  <1>2. CASE Current.gone
    BY <1>1, <1>2, Carried
  <1>3. CASE ~Current.gone
    <2>1. HandOK(p) /\ ExecutionOK(p) /\ p \in Procs
      BY <1>3, AccountFacts DEF Accounts, AccountOK
    <2>2. (Executing(p) <=> Executing(p)') /\ (Unrecorded(p)' => Unrecorded(p))
      OBVIOUS
    <2>3. HandOK(p)'
      <3>1. CASE op'[p] = op[p] /\ (Updating(p) <=> Updating(p)')
        BY <1>1, <2>1, <3>1 DEF HandOK
      <3>2. CASE Updating(p)' => op'[p] \in RecordOps \cup {"nextCreated", "nextOther"}
        <4>1. Updating(p)' => op'[p] \notin {"suspended", "invalid", "running", "wait"}
          BY <3>2 DEF RecordOps
        <4> QED
          BY <4>1 DEF HandOK
      <3> QED
        BY <3>1, <3>2
    <2>4. ExecutionOK(p)'
      BY <1>1, <2>1, <2>2 DEF ExecutionOK
    <2> QED
      BY <1>1, <1>3, <2>2, <2>3, <2>4, Carried
  <1> QED
    BY <1>2, <1>3

LEMMA GetAccount ==
  ASSUME NEW p, Accounts(p), IInv', GetOk(p) \/ PutConflict(p), UNCHANGED worldVars
  PROVE  AccountOK' /\ Charged(p)
  <1>1. /\ p \in Procs /\ Typed(p, Objects, PCs) /\ now \in Nat
        /\ CacheLag = FALSE /\ UNCHANGED <<prs, prOpen, runs>>
    BY AccountFacts DEF Accounts, worldVars
  <1>2. Charged(p)
    BY <1>1, GetCharged
  <1>3. UNCHANGED <<versions, now, obj, start, op>>
    BY DEF GetOk, PutConflict
  <1>4. Updating(p) /\ Updating(p)'
    BY <1>1 DEF GetOk, PutConflict, Conflict, At, GoTo, Updating, Typed
  <1>5. (Executing(p) <=> Executing(p)') /\ (Unrecorded(p)' => Unrecorded(p))
    BY <1>3, <1>4 DEF Executing, Unrecorded, Updating
  <1>6. PullKept(p)
    BY <1>1, <1>3, <1>4 DEF PullKept, InHand
  <1>7. now <= now'
    BY <1>1, <1>3
  <1> QED
    BY <1>1, <1>2, <1>3, <1>4, <1>5, <1>6, <1>7, MovedAccount

(* The worker drops what it does: the update in hand, and the record of    *)
(* its execution, are lost.                                                *)
LEMMA LostAccount ==
  ASSUME NEW p, Accounts(p), IInv', Leave(p), Charged(p), Spare(p) + 1 <= Spare(p)',
         UNCHANGED <<versions, runs, prs, prOpen>>, now <= now'
  PROVE  AccountOK'
  <1>1. Current' = Current
    BY DEF Current, RV
  <1>2. pc'[p] = "idle"
    BY AccountFacts DEF Leave, GoTo, Typed
  <1>3. ~Executing(p)' /\ ~Unrecorded(p)' /\ HandOK(p)' /\ ExecutionOK(p)'
    BY <1>2 DEF Executing, Unrecorded, Updating, HandOK, ExecutionOK
  <1>4. PullKept(p)
    BY DEF PullKept
  <1>5. CASE Current.gone
    BY <1>1, <1>5, Carried
  <1>6. CASE ~Current.gone
    BY <1>1, <1>3, <1>4, <1>6, Carried
  <1> QED
    BY <1>5, <1>6

LEMMA EnvironmentAccount ==
  ASSUME NEW p, Accounts(p), IInv', Watch(p) \/ Timer(p) \/ Tick \/ Crash(p),
         UNCHANGED worldVars
  PROVE  AccountOK' /\ Charged(p)
  <1>1. /\ p \in Procs /\ Procs = {p} /\ Typed(p, Objects, PCs) /\ CountsTyped(p)
        /\ Met(p) <= edits /\ UNCHANGED <<prs, prOpen, runs>>
    BY AccountFacts DEF Accounts, worldVars
  <1>2. /\ UNCHANGED <<versions, edits, faults>> /\ now <= now'
        /\ Charged(p)
        /\ \/ UNCHANGED workerVars
           \/ Leave(p) /\ crashes' = crashes + 1
    BY <1>1, EnvironmentCharged
  <1>3. CASE UNCHANGED workerVars
    <2>1. UNCHANGED <<pc, obj, start, op>>
      BY <1>3 DEF workerVars
    <2>2. (Updating(p) <=> Updating(p)') /\ (Executing(p) <=> Executing(p)')
          /\ (Unrecorded(p)' => Unrecorded(p))
      BY <2>1 DEF Updating, Executing, Unrecorded
    <2>3. PullKept(p)
      BY <1>1, <2>1 DEF PullKept, InHand, Updating
    <2> QED
      BY <1>1, <1>2, <2>1, <2>2, <2>3, MovedAccount
  <1>4. CASE Leave(p) /\ crashes' = crashes + 1
    <2>1. CountsTyped(p)'
      BY <1>1 DEF CountsTyped, IInv, CountersOK, LocalsOK
    <2>2. crashes + faults < crashes' + faults'
      BY <1>1, <1>2, <1>4 DEF CountsTyped
    <2>3. Spare(p) + 1 <= Spare(p)'
      BY <1>1, <1>2, <2>1, <2>2, SpareGrows DEF Charged
    <2> QED
      BY <1>1, <1>2, <1>4, <2>3, LostAccount
  <1> QED
    BY <1>2, <1>3, <1>4

LEMMA UserAccount ==
  ASSUME NEW p, Accounts(p), IInv', UserEdit \/ UserDelete, UNCHANGED worldVars
  PROVE  AccountOK' /\ Charged(p)
  <1>1. /\ p \in Procs /\ Procs = {p} /\ Typed(p, Objects, PCs) /\ CountsTyped(p)
        /\ Current \in Objects /\ now \in Nat /\ Met(p) \in Nat
        /\ UNCHANGED <<prs, prOpen, runs>>
    BY AccountFacts, MetType DEF Accounts, worldVars
  <1>2. UNCHANGED <<now, pc, obj, start, fresh, op, tries, crashes, faults>>
    BY DEF UserEdit, UserDelete, clockVars, workerVars, boundVars
  <1>3. now <= now'
    BY <1>1, <1>2
  <1>4. CASE UserEdit
    <2>1. PICK s \in Specs :
              Write([Current EXCEPT !.suspend = s.suspend, !.valid = s.valid])
      BY <1>4 DEF UserEdit
    <2> DEFINE o == [Current EXCEPT !.suspend = s.suspend, !.valid = s.valid]
    <2>2. s \in [suspend: BOOLEAN, valid: BOOLEAN]
      BY ScheduleAssumption
    <2>3. /\ o \in Objects /\ o.last = Current.last /\ o.next = Current.next
          /\ o.hist = Current.hist
      BY <1>1, <2>2 DEF Objects
    <2> HIDE DEF o
    <2>4. Write(o)
      BY <2>1 DEF o
    <2>5. Charged(p) /\ Current' = o
      BY <1>1, <1>4, <2>3, <2>4, EditCharged, WriteType DEF Typed
    <2>6. ~Current.gone
      BY <1>4 DEF UserEdit
    <2>7. HandOK(p) /\ ExecutionOK(p)
      BY <1>1, <2>6 DEF Accounts, AccountOK
    <2>8. HandOK(p)' /\ ExecutionOK(p)'
          /\ (Executing(p)' <=> Executing(p)) /\ (Unrecorded(p)' <=> Unrecorded(p))
      BY <1>2, <2>3, <2>5, <2>7 DEF HandOK, ExecutionOK, Executing, Unrecorded, Updating
    <2>9. PullKept(p)
      BY <1>1, <1>2 DEF PullKept, InHand, Updating
    <2> QED
      BY <1>1, <1>3, <2>3, <2>5, <2>6, <2>8, <2>9, Carried
  <1>5. CASE UserDelete
    <2> DEFINE o == [Current EXCEPT !.gone = TRUE]
    <2>1. o \in Objects /\ o.gone
      BY <1>1 DEF Objects
    <2> HIDE DEF o
    <2>2. Write(o) /\ edits' = edits
      BY <1>5 DEF UserDelete, boundVars, o
    <2>3. Current'.gone
      BY <1>1, <2>1, <2>2, WriteType DEF Typed
    <2>4. Met(p)' = tries[p] /\ tries[p] <= Met(p) /\ tries[p] \in Nat
      BY <1>1, <1>2, <2>3, MetType DEF Met, Behind, CountsTyped
    <2>5. Charged(p)
      BY <1>1, <1>2, <2>2, <2>4 DEF Charged, CountsTyped
    <2> QED
      BY <1>1, <1>3, <2>3, <2>5, Carried
  <1> QED
    BY <1>4, <1>5

(* The user merges or closes the pull request, or nothing happens.         *)
LEMMA ClosesAccount ==
  ASSUME NEW p, Accounts(p), IInv', UserCloses \/ UNCHANGED vars
  PROVE  AccountOK' /\ Charged(p)
  <1>1. /\ p \in Procs /\ CountsTyped(p) /\ Met(p) \in Nat /\ now \in Nat
    BY AccountFacts, MetType
  <1>2. UNCHANGED <<versions, now, pc, obj, start, fresh, op, tries, prs, runs>>
        /\ UNCHANGED <<edits, crashes, faults>>
    BY DEF UserCloses, vars, worldVars, kubeVars, clockVars, workerVars, boundVars
  <1>3. Met(p)' = Met(p)
    BY <1>2 DEF Met, Behind, At, Current, RV
  <1>4. Charged(p) /\ now <= now'
    BY <1>1, <1>2, <1>3 DEF Charged, CountsTyped
  <1>5. (Updating(p) <=> Updating(p)') /\ (Executing(p) <=> Executing(p)')
        /\ (Unrecorded(p)' => Unrecorded(p))
    BY <1>2 DEF Updating, Executing, Unrecorded
  <1>6. PullKept(p)
    <2>1. prOpen' => prOpen
      <3>1. CASE UserCloses
        <4>1. ~prOpen'
          BY <3>1, Zenon DEF UserCloses
        <4> QED
          BY <4>1, Zenon
      <3>2. CASE UNCHANGED vars
        BY <3>2, Zenon DEF vars, worldVars
      <3> QED
        BY <3>1, <3>2
    <2> QED
      BY <1>2, <2>1 DEF PullKept, InHand, Updating
  <1> QED
    BY <1>2, <1>4, <1>5, <1>6, MovedAccount

LEMMA ExecuteAccount ==
  ASSUME NEW p, Accounts(p), IInv',
         Rest(p) \/ Auth(p) \/ Push(p) \/ PushFailed(p) \/ Opened(p) \/ OpenFailed(p)
           \/ OpenLost(p)
  PROVE  AccountOK' /\ Charged(p)
  <1>1. /\ p \in Procs /\ Typed(p, Objects, PCs) /\ CountsTyped(p) /\ prs \in Nat
        /\ obj[p] \in Objects /\ now \in Nat /\ Met(p) <= edits /\ Met(p) \in Nat
    BY AccountFacts, MetType DEF Accounts
  <1>2. /\ UNCHANGED <<versions, now, start, runs, edits, crashes>>
        /\ pc[p] \in {"rest", "auth", "push", "open"}
        /\ faults' \in {faults, faults + 1}
    BY DEF Rest, Auth, Push, PushFailed, Opened, OpenFailed, OpenLost, Working, Fault,
           kubeVars, clockVars, boundVars, At
  <1>3. /\ Met(p) = tries[p] /\ tries[p] \in Nat /\ Executing(p) /\ Unrecorded(p)
        /\ ~Updating(p) /\ ~InHand(p)
    BY <1>1, <1>2 DEF Met, Behind, At, Executing, Unrecorded, Updating, InHand, CountsTyped
  <1>4. now <= now' /\ faults <= faults'
    BY <1>1, <1>2 DEF CountsTyped
  <1>5. ASSUME NEW o \in Objects, NEW u \in RecordOps, Update(p, o, u), prs' \in {prs, prs + 1},
               o.last = obj[p].last, o.next = obj[p].next, o.hist = obj[p].hist,
               \/ prs' = prs /\ (prOpen' => prOpen)
               \/ prs' = prs + 1 /\ u = "recordCreated" /\ o.number = prs'
               \/ prs' = prs + 1 /\ faults' = faults + 1
        PROVE  AccountOK' /\ Charged(p)
    <2>1. pc'[p] = "get" /\ obj'[p] = o /\ op'[p] = u /\ Met(p)' = 0
      BY <1>1, <1>5, MetNone DEF Update, GoTo, Typed
    <2>2. Charged(p)
      BY <1>1, <1>2, <1>3, <1>4, <2>1 DEF Charged, CountsTyped
    <2>3. Executing(p)'
      BY <2>1 DEF Executing, Unrecorded, Updating
    <2>4. PullKept(p)
      <3>1. CASE prs' = prs /\ (prOpen' => prOpen)
        BY <1>3, <3>1 DEF PullKept
      <3>2. CASE prs' = prs + 1 /\ u = "recordCreated" /\ o.number = prs'
        BY <2>1, <3>2 DEF PullKept, InHand, Updating
      <3>3. CASE prs' = prs + 1 /\ faults' = faults + 1
        <4>1. CountsTyped(p)'
          BY <1>1 DEF CountsTyped, IInv, CountersOK, LocalsOK
        <4>2. Spare(p) + 1 <= Spare(p)'
          BY <1>1, <1>2, <1>5, <3>3, <4>1, LostCharged
        <4> QED
          BY <3>3, <4>2 DEF PullKept
      <3> QED
        BY <1>5, <3>1, <3>2, <3>3
    <2> QED
      BY <1>2, <1>3, <1>4, <1>5, <2>1, <2>2, <2>3, <2>4, MovedAccount
  <1>6. ASSUME NEW l \in {"auth", "push", "open"}, Move(p, l), UNCHANGED <<prs, prOpen>>
        PROVE  AccountOK' /\ Charged(p)
    <2>1. pc'[p] = l /\ UNCHANGED <<obj, fresh, op, tries>>
      BY <1>1, <1>6 DEF Move, GoTo, Typed
    <2>2. Met(p)' = tries[p]
      BY <1>3, <2>1 DEF Met, Behind, At
    <2>3. Charged(p)
      BY <1>1, <1>2, <1>3, <1>4, <2>2 DEF Charged, CountsTyped
    <2>4. Executing(p)' /\ ~Updating(p)'
      BY <2>1 DEF Executing, Unrecorded, Updating
    <2>5. PullKept(p)
      BY <1>3, <1>6 DEF PullKept
    <2> QED
      BY <1>2, <1>3, <1>4, <2>1, <2>3, <2>4, <2>5, MovedAccount
  <1>7. {"recordFailed", "recordPending", "recordCreated"} = RecordOps
    BY DEF RecordOps
  <1>8. CASE Rest(p) \/ Auth(p) \/ Push(p) \/ PushFailed(p) \/ OpenFailed(p)
    <2>1. UNCHANGED <<prs, prOpen>>
      BY <1>8 DEF Rest, Auth, Push, PushFailed, OpenFailed
    <2>2. \/ \E l \in {"auth", "push", "open"} : Move(p, l)
          \/ \E u \in RecordOps : Update(p, obj[p], u)
      BY <1>7, <1>8 DEF Rest, Auth, Push, PushFailed, OpenFailed
    <2> QED
      BY <1>1, <1>5, <1>6, <2>1, <2>2
  <1>9. CASE Opened(p)
    <2> DEFINE o == [obj[p] EXCEPT !.number = prs + 1]
    <2>1. /\ o \in Objects /\ o.last = obj[p].last /\ o.next = obj[p].next
          /\ o.hist = obj[p].hist /\ o.number = prs + 1
      <3>1. prs + 1 \in Nat
        BY <1>1
      <3> QED
        BY <1>1, <3>1 DEF Objects
    <2>2. Update(p, o, "recordCreated") /\ prs' = prs + 1
      BY <1>9 DEF Opened, GitHubOpens
    <2> HIDE DEF o
    <2> QED
      BY <1>5, <1>7, <2>1, <2>2
  <1>10. CASE OpenLost(p)
    <2>1. Update(p, obj[p], "recordFailed") /\ prs' = prs + 1 /\ faults' = faults + 1
      BY <1>10 DEF OpenLost, GitHubOpens, Fault
    <2> QED
      BY <1>1, <1>5, <1>7, <2>1
  <1> QED
    BY <1>8, <1>9, <1>10

(* The times up to the next one that a written status leaves.              *)
SlotsOf(w) == IF w.next = 0 THEN 1 ELSE w.next \div Period

(* A record keeps the pull request that is in hand, or that has been       *)
(* recorded, as long as the history has room.                              *)
LEMMA NamedAgain ==
  ASSUME NEW h \in Seq(Records), NEW r \in Records, NEW n, Len(h) < MaxHistory,
         r.number = n \/ Named(h, n)
  PROVE  Named(Recorded(h, r), n)
  <1> DEFINE g == Recorded(h, r)
  <1>1. /\ g \in Seq(Records) /\ Len(h) \in Nat /\ Len(g) = Len(h) + 1 /\ g[1] = r
        /\ \A i \in 2 .. Len(g) : g[i] = h[i - 1]
    <2>1. /\ g \in Seq(Records) /\ Len(h) \in Nat /\ g[1] = r
          /\ Len(h) + 1 <= MaxHistory => Len(g) = Len(h) + 1
          /\ \A i \in 2 .. Len(g) : g[i] = h[i - 1]
      BY RecordFirst
    <2> HIDE DEF g
    <2>2. MaxHistory \in Nat
      BY ScheduleAssumption
    <2> QED
      BY <2>1, <2>2
  <1> HIDE DEF g
  <1>2. CASE r.number = n
    <2>1. 1 \in DOMAIN g
      BY <1>1
    <2> QED
      BY <1>1, <1>2, <2>1 DEF Named, g
  <1>3. CASE Named(h, n)
    <2>1. PICK i \in DOMAIN h : h[i].number = n
      BY <1>3 DEF Named
    <2>2. i + 1 \in 2 .. Len(g) /\ i + 1 \in DOMAIN g /\ i + 1 - 1 = i
      BY <1>1, <2>1
    <2> QED
      BY <1>1, <2>1, <2>2 DEF Named, g
  <1> QED
    BY <1>2, <1>3

(* What an accepted update writes, by its kind.                            *)
LEMMA WrittenFields ==
  ASSUME NEW p, Accounts(p), At(p, "put"), Accepted(p)
  PROVE  /\ Written(p) \in Objects /\ Written(p).gone = Current.gone
         /\ op[p] \in {"suspended", "invalid"} =>
                /\ Written(p).last = Current.last /\ Written(p).next = Current.next
                /\ Written(p).hist = Current.hist
         /\ op[p] = "running" =>
                /\ Written(p).last = start[p] /\ start[p] # 0
                /\ Written(p).next = Current.next
                /\ Written(p).hist = Current.hist
         /\ op[p] \in NextOps =>
                /\ Written(p).last = Current.last /\ Written(p).next = NextRun(start[p])
                /\ Written(p).hist = Current.hist
         /\ op[p] \in RecordOps =>
                /\ Written(p).last # 0 /\ Written(p).next = Current.next
                /\ Len(Written(p).hist) <= Len(Current.hist) + 1
                /\ Len(Current.hist) < MaxHistory /\ (InHand(p) \/ Named(Current.hist, prs))
                      => Named(Written(p).hist, prs)
  <1>1. /\ p \in Procs /\ Current \in Objects /\ obj[p] \in Objects /\ op[p] \in Ops
        /\ start[p] \in 0 .. now /\ now \in Nat \ {0} /\ Current.hist \in Seq(Records)
        /\ Len(Current.hist) \in Nat /\ Len(Current.hist) <= MaxHistory
        /\ Current.last \in Nat /\ Current.next \in Nat
        /\ start[p] \in Nat /\ MaxHistory \in Nat
    BY AccountFacts
  <1>2. ~Current.gone /\ HandOK(p) /\ ExecutionOK(p) /\ Updating(p)
    BY <1>1 DEF Accepted, At, Updating, Accounts, AccountOK
  <1>3. Written(p) = Merge(p, Current)
    BY DEF Written, Accepted, Current
  <1>4. Written(p) \in Objects /\ HistoryOK(Written(p).hist, prs)
    BY <1>1, WrittenOK DEF Accounts
  <1>5. NextRun(start[p]) \in Nat /\ NextRun(start[p]) # 0
    BY <1>1, NextRunType, NextRunSlot
  <1>6. obj[p].hist \in Seq(Records) /\ obj[p].last \in Nat /\ obj[p].next \in Nat
    BY <1>1 DEF Objects
  <1>7. CASE op[p] \in StatusOps
    <2> DEFINE w == MergeStatus(Current, obj[p], PhaseOf(op[p]))
    <2>1. Written(p) = w
      BY <1>3, <1>7 DEF Merge, StatusOps, NextOps
    <2>2. /\ w.gone = Current.gone
          /\ w.last = IF obj[p].last # 0 THEN obj[p].last ELSE Current.last
          /\ w.next = IF obj[p].next # 0 THEN obj[p].next ELSE Current.next
          /\ w.hist = IF Len(obj[p].hist) > 0 THEN obj[p].hist ELSE Current.hist
      BY <1>1 DEF MergeStatus, Objects
    <2>3. /\ obj[p].next = Current.next /\ obj[p].hist = Current.hist
          /\ op[p] = "running" => obj[p].last = start[p] /\ start[p] # 0
          /\ op[p] # "running" => obj[p].last = Current.last
      BY <1>2, <1>7 DEF HandOK, StatusOps
    <2>4. op[p] \notin NextOps /\ op[p] \notin RecordOps
      BY <1>7 DEF StatusOps, NextOps, RecordOps
    <2> HIDE DEF w
    <2> QED
      BY <1>4, <2>1, <2>2, <2>3, <2>4
  <1>8. CASE op[p] \in NextOps
    <2> DEFINE w == [Current EXCEPT !.next = NextRun(start[p])]
    <2>1. Written(p) = w
      BY <1>3, <1>8 DEF Merge, StatusOps, NextOps
    <2>2. /\ w.gone = Current.gone /\ w.last = Current.last
          /\ w.next = NextRun(start[p]) /\ w.hist = Current.hist
      BY <1>1 DEF Objects
    <2>3. op[p] \notin {"suspended", "invalid", "running"} /\ op[p] \notin RecordOps
      BY <1>8 DEF NextOps, RecordOps
    <2> HIDE DEF w
    <2> QED
      BY <1>4, <2>1, <2>2, <2>3
  <1>9. CASE op[p] \in RecordOps
    <2>1. Executing(p)
      BY <1>2, <1>9 DEF Unrecorded, Executing
    <2>2. obj[p].last # 0
      BY <1>2, <2>1 DEF ExecutionOK
    <2>3. PICK ph \in {"Created", "Failed", "Pending"}, n \in Nat :
            /\ Written(p) = MergeRecord(Current, obj[p], ph, n)
            /\ InHand(p) => n = prs
      <3>1. CASE op[p] = "recordCreated"
        <4>1. Written(p) = MergeRecord(Current, obj[p], "Created", obj[p].number)
          BY <1>3, <3>1 DEF Merge, StatusOps, NextOps
        <4>2. obj[p].number \in Nat
          BY <1>1 DEF Objects
        <4> QED
          BY <4>1, <4>2 DEF InHand
      <3>2. CASE op[p] \in {"recordFailed", "recordPending"}
        <4>1. Written(p) = MergeRecord(Current, obj[p], PhaseOf(op[p]), 0)
          BY <1>3, <3>2 DEF Merge, StatusOps, NextOps
        <4>2. PhaseOf(op[p]) \in {"Failed", "Pending"}
          BY <3>2 DEF PhaseOf
        <4>3. ~InHand(p)
          BY <3>2 DEF InHand
        <4> QED
          BY <4>1, <4>2, <4>3
      <3> QED
        BY <1>9, <3>1, <3>2 DEF RecordOps
    <2> DEFINE r == [number |-> n, phase |-> ph]
               g == Recorded(Current.hist, r)
    <2>4. r \in Records /\ r.number = n
      BY <2>3 DEF Records, Phases
    <2>5. Written(p) = [Current EXCEPT !.phase = ph, !.sync = now, !.number = n,
                                !.last = obj[p].last, !.hist = g]
      BY <2>3 DEF MergeRecord, Recorded
    <2> HIDE DEF r
    <2>6. Len(g) <= Len(Current.hist) + 1
      <3>1. /\ Len(Current.hist) + 1 <= MaxHistory => Len(g) = Len(Current.hist) + 1
            /\ MaxHistory <= Len(Current.hist) => Len(g) = MaxHistory
        BY <1>1, <2>4, RecordFirst
      <3> QED
        BY <1>1, <3>1
    <2>7. Len(Current.hist) < MaxHistory /\ (InHand(p) \/ Named(Current.hist, prs))
              => Named(g, prs)
      BY <1>1, <2>3, <2>4, NamedAgain
    <2>8. /\ Written(p).gone = Current.gone /\ Written(p).last = obj[p].last
          /\ Written(p).next = Current.next /\ Written(p).hist = g
      BY <1>1, <2>5 DEF Objects
    <2>9. op[p] \notin {"suspended", "invalid", "running"} /\ op[p] \notin NextOps
      BY <1>9 DEF NextOps, RecordOps
    <2> HIDE DEF g
    <2> QED
      BY <1>4, <2>2, <2>6, <2>7, <2>8, <2>9
  <1> QED
    BY <1>1, <1>7, <1>8, <1>9 DEF Ops

(* The accounts of what is written: a Running update begins one run more,  *)
(* a record leaves its run open, every other update leaves a plan with     *)
(* room for all of them.                                                   *)
LEMMA WrittenBalance ==
  ASSUME NEW p, Accounts(p), At(p, "put"), Accepted(p), NEW w, w = Written(p)
  PROVE  /\ w \in Objects /\ ~w.gone
         /\ w.last = 0 => w.next = 0 /\ runs = 0 /\ op[p] # "running"
         /\ w.next \div Period <= now \div Period + 1
         /\ SlotsOf(w) \in Nat /\ w.next \div Period \in Nat
         /\ op[p] \notin RecordOps => runs <= SlotsOf(w) + Spare(p)
         /\ op[p] \in RecordOps =>
                /\ runs <= w.next \div Period + 1 + Spare(p)
                /\ w.last # 0 /\ w.next <= start[p]
         /\ op[p] = "running" =>
                /\ runs <= w.next \div Period + Spare(p)
                /\ runs <= now \div Period + Spare(p)
                /\ w.next <= start[p] /\ start[p] # 0
         /\ Len(w.hist) <= runs
         /\ runs <= MaxHistory /\ Mishaps = 0 /\ prs > 0 => Named(w.hist, prs)
  <1>1. /\ p \in Procs /\ Current \in Objects /\ op[p] \in Ops
        /\ start[p] \in 0 .. now /\ start[p] \in Nat /\ now \in Nat
        /\ Current.last \in Nat /\ Current.next \in Nat
        /\ Len(Current.hist) \in Nat
        /\ runs \in Nat /\ Spare(p) \in Nat /\ Period \in Nat \ {0}
        /\ MaxHistory \in Nat
    BY AccountFacts
  <1>2. /\ ~Current.gone /\ Updating(p)
        /\ PlanOK /\ HandOK(p) /\ ExecutionOK(p) /\ RunsOK(p) /\ RecordsOK(p)
    BY <1>1 DEF Accepted, At, Updating, Accounts, AccountOK
  <1>3. /\ w \in Objects /\ w.gone = Current.gone /\ w.next \in Nat /\ w.last \in Nat
        /\ Len(w.hist) \in Nat
    BY WrittenFields DEF Objects
  <1> DEFINE d == Current.next \div Period
             e == w.next \div Period
             m == now \div Period
             s == start[p] \div Period
             x == NextRun(start[p])
  <1>4. /\ d \in Nat /\ e \in Nat /\ m \in Nat /\ s \in Nat /\ s <= m
        /\ x \in Nat /\ x # 0 /\ x \div Period = s + 1
        /\ Current.next <= now => d <= m
        /\ Current.next <= start[p] => d <= s
    <2>1. start[p] <= now
      BY <1>1
    <2>2. s <= m
      BY <1>1, <2>1, DivLe
    <2>3. Current.next <= now => d <= m
      BY <1>1, DivLe
    <2>4. Current.next <= start[p] => d <= s
      BY <1>1, DivLe
    <2>5. x \in Nat /\ x # 0 /\ x \div Period = s + 1
      BY <1>1, NextRunType, NextRunSlot
    <2>6. d \in Nat /\ e \in Nat /\ m \in Nat /\ s \in Nat
      BY <1>1, <1>3, DivDef
    <2> QED
      BY <2>2, <2>3, <2>4, <2>5, <2>6
  <1>5. 0 \div Period = 0
    BY <1>1
  <1>6. Slots = IF Current.next = 0 THEN 1 ELSE d
    BY DEF Slots
  <1>7. SlotsOf(w) = IF w.next = 0 THEN 1 ELSE e
    BY DEF SlotsOf
  <1>8. /\ Current.last = 0 => Current.next = 0 /\ runs = 0
        /\ d <= m + 1
        /\ ~Executing(p) => runs <= Slots + Spare(p)
        /\ Executing(p) => runs <= d + 1 + Spare(p)
    BY <1>2 DEF PlanOK, RunsOK
  <1>9. /\ Unrecorded(p) <=> op[p] \in RecordOps
        /\ Executing(p) <=> op[p] \in RecordOps \cup {"nextCreated", "nextOther"}
    BY <1>2 DEF Executing, Unrecorded, Updating
  <1>10. /\ Len(w.hist) <= runs
         /\ runs <= MaxHistory /\ Mishaps = 0 /\ prs > 0 => Named(w.hist, prs)
    <2>1. CASE op[p] \notin RecordOps
      <3>1. w.hist = Current.hist /\ ~Unrecorded(p)
        BY <1>1, <1>9, <2>1, WrittenFields DEF Ops, StatusOps
      <3>2. OpenRun(Unrecorded(p)) = 0 /\ ~InHand(p)
        BY <2>1, <3>1 DEF OpenRun, InHand, RecordOps
      <3> QED
        BY <1>1, <1>2, <3>1, <3>2 DEF RecordsOK
    <2>2. CASE op[p] \in RecordOps
      <3>1. OpenRun(Unrecorded(p)) = 1
        BY <1>9, <2>2 DEF OpenRun
      <3>2. Len(Current.hist) + 1 <= runs
        BY <1>2, <3>1 DEF RecordsOK
      <3>3. /\ Len(w.hist) <= Len(Current.hist) + 1
            /\ Len(Current.hist) < MaxHistory /\ (InHand(p) \/ Named(Current.hist, prs))
                  => Named(w.hist, prs)
        BY <2>2, WrittenFields
      <3>4. runs <= MaxHistory => Len(Current.hist) < MaxHistory
        BY <1>1, <3>2
      <3>5. Len(w.hist) <= runs
        BY <1>1, <1>3, <3>2, <3>3
      <3> QED
        BY <1>2, <3>3, <3>4, <3>5 DEF RecordsOK
    <2> QED
      BY <2>1, <2>2
  <1> HIDE DEF d, m, s, x
  <1>12. w.next = Current.next => e = d
    BY DEF d
  <1>13. w.next = x => e = s + 1
    BY <1>4
  <1> HIDE DEF e
  <1> SUFFICES /\ w.last = 0 => w.next = 0 /\ runs = 0 /\ op[p] # "running"
               /\ e <= m + 1 /\ SlotsOf(w) \in Nat
               /\ op[p] \notin RecordOps => runs <= SlotsOf(w) + Spare(p)
               /\ op[p] \in RecordOps =>
                      runs <= e + 1 + Spare(p) /\ w.last # 0 /\ w.next <= start[p]
               /\ op[p] = "running" =>
                      /\ runs <= e + Spare(p) /\ runs <= m + Spare(p)
                      /\ w.next <= start[p] /\ start[p] # 0
    BY <1>2, <1>3, <1>4, <1>10 DEF e, m
  <1>14. CASE op[p] \in {"suspended", "invalid"}
    <2>1. /\ w.last = Current.last /\ w.next = Current.next
          /\ op[p] # "running" /\ op[p] \notin RecordOps
      BY <1>14, WrittenFields DEF RecordOps
    <2>2. ~Executing(p)
      BY <1>9, <1>14 DEF RecordOps
    <2> QED
      BY <1>1, <1>4, <1>6, <1>7, <1>8, <1>12, <2>1, <2>2
  <1>15. CASE op[p] = "running"
    <2>1. /\ w.last = start[p] /\ start[p] # 0 /\ w.next = Current.next
          /\ op[p] \notin RecordOps
      BY <1>15, WrittenFields DEF RecordOps
    <2>2. ~Executing(p)
      BY <1>9, <1>15 DEF RecordOps
    <2>4. Current.last = 0 \/ (Current.next # 0 /\ Current.next <= start[p])
      BY <1>2, <1>15 DEF HandOK
    <2>5. e = d
      BY <1>12, <2>1
    <2>6. runs <= d + Spare(p) /\ Current.next <= start[p]
      BY <1>1, <1>4, <1>6, <1>8, <2>2, <2>4
    <2>7. d <= m
      BY <1>1, <1>4, <2>6
    <2>8. runs <= SlotsOf(w) + Spare(p) /\ SlotsOf(w) \in Nat
      BY <1>1, <1>4, <1>6, <1>7, <1>8, <2>1, <2>2, <2>5
    <2>9. runs <= m + Spare(p)
      BY <1>1, <1>4, <2>6, <2>7
    <2> QED
      BY <1>1, <1>4, <1>8, <2>1, <2>5, <2>6, <2>8, <2>9
  <1>16. CASE op[p] \in NextOps
    <2>1. /\ w.last = Current.last /\ w.next = x
          /\ op[p] # "running" /\ op[p] \notin RecordOps
      BY <1>16, WrittenFields DEF x, NextOps, RecordOps
    <2>2. e = s + 1 /\ SlotsOf(w) = e
      BY <1>4, <1>7, <1>13, <2>1
    <2>3. CASE op[p] = "wait"
      <3>1. ~Executing(p)
        BY <1>9, <2>3 DEF RecordOps
      <3>2. Current.last # 0 /\ d <= s + 1
        BY <1>2, <2>3 DEF HandOK, d, s
      <3>3. runs <= SlotsOf(w) + Spare(p)
        BY <1>1, <1>4, <1>6, <1>8, <2>2, <3>1, <3>2
      <3>4. e <= m + 1
        BY <1>4, <2>2
      <3> QED
        BY <1>4, <2>1, <2>2, <3>2, <3>3, <3>4
    <2>4. CASE op[p] \in {"nextCreated", "nextOther"}
      <3>1. Executing(p)
        BY <1>9, <2>4
      <3>2. Current.last # 0 /\ d <= s
        BY <1>2, <1>4, <3>1 DEF ExecutionOK
      <3> QED
        BY <1>1, <1>4, <1>8, <2>1, <2>2, <3>1, <3>2
    <2> QED
      BY <1>16, <2>3, <2>4 DEF NextOps
  <1>17. CASE op[p] \in RecordOps
    <2>1. w.last # 0 /\ op[p] # "running" /\ w.next = Current.next
      BY <1>17, WrittenFields DEF RecordOps
    <2>2. Executing(p) /\ Current.next <= start[p]
      BY <1>2, <1>9, <1>17 DEF ExecutionOK
    <2>3. SlotsOf(w) \in Nat
      BY <1>4, <1>7
    <2> QED
      BY <1>1, <1>4, <1>8, <1>12, <1>17, <2>1, <2>2, <2>3
  <1> QED
    BY <1>1, <1>14, <1>15, <1>16, <1>17 DEF Ops, StatusOps

(* The update has been stored; the worker goes on, or leaves at the cost   *)
(* of a mishap.                                                            *)
LEMMA StoredAccount ==
  ASSUME NEW p, Accounts(p), IInv', At(p, "put"), Accepted(p), Store(Written(p)),
         CountRun(p), Charged(p), now' = now, HandOK(p)', ExecutionOK(p)',
         UNCHANGED <<prs, prOpen>>,
         Unrecorded(p)' => op[p] = "running",
         op[p] \in RecordOps => Executing(p)',
         op[p] = "running" => Executing(p)' \/ Spare(p) + 1 <= Spare(p)',
         Executing(p)' => op[p] = "running" \/ op[p] \in RecordOps
  PROVE  AccountOK'
  <1> DEFINE w == Written(p)
             a == OpenRun(Unrecorded(p)')
             e == w.next \div Period
             m == now \div Period
  <1>1. /\ CountsTyped(p) /\ Met(p) <= edits /\ p \in Procs /\ Procs = {p}
        /\ now \in Nat \ {0} /\ runs \in Nat /\ Spare(p) \in Nat /\ Mishaps \in Nat
        /\ Spare(p) <= Mishaps /\ Period \in Nat \ {0} /\ Typed(p, Objects, PCs)
        /\ MaxHistory \in Nat
    BY AccountFacts DEF Accounts
  <1>2. CountsTyped(p)'
    BY <1>1 DEF CountsTyped, IInv, CountersOK, LocalsOK
  <1>3. /\ Met(p)' <= edits' /\ Spare(p) <= Spare(p)' /\ Mishaps <= Mishaps'
        /\ Spare(p)' \in Nat /\ Mishaps' \in Nat
    BY <1>1, <1>2, SpareGrows DEF Charged
  <1>4. /\ w \in Objects /\ ~w.gone
        /\ w.last = 0 => w.next = 0 /\ runs = 0 /\ op[p] # "running"
        /\ e <= m + 1
        /\ SlotsOf(w) \in Nat /\ e \in Nat
        /\ op[p] \notin RecordOps => runs <= SlotsOf(w) + Spare(p)
        /\ op[p] \in RecordOps => runs <= e + 1 + Spare(p)
        /\ op[p] = "running" => /\ runs <= e + Spare(p)
                                /\ runs <= m + Spare(p)
        /\ Len(w.hist) <= runs
        /\ runs <= MaxHistory /\ Mishaps = 0 /\ prs > 0 => Named(w.hist, prs)
    BY WrittenBalance
  <1>5. Current' = w
    BY <1>1, <1>4, StoreCurrent DEF Typed
  <1>6. m \in Nat
    BY <1>1, DivDef
  <1>7. Slots' = SlotsOf(w) /\ e <= SlotsOf(w)
    <2>1. 0 \div Period = 0
      BY <1>1
    <2> QED
      BY <1>4, <1>5, <2>1 DEF Slots, SlotsOf
  <1>8. runs' = IF op[p] = "running" THEN runs + 1 ELSE runs
    BY DEF CountRun
  <1>9. Len(w.hist) \in Nat
    BY <1>4 DEF Objects
  <1>10. a = (IF Unrecorded(p)' THEN 1 ELSE 0)
    BY DEF OpenRun
  <1>11. RunsAccounted'
    <2>1. runs <= 1 + m + Mishaps
      BY <1>1 DEF Accounts, AccountOK, RunsAccounted
    <2>2. runs' <= 1 + m + Mishaps'
      BY SMTT(20), <1>1, <1>3, <1>4, <1>6, <1>8, <2>1
    <2> QED
      BY <2>2 DEF RunsAccounted
  <1>12. PlanOK'
    BY <1>4, <1>5 DEF PlanOK
  <1>13. Named(w.hist, prs) => Named(Current'.hist, prs')
    BY <1>5
  <1>14. prs' = 0 => ~prOpen'
    <2>1. prs = 0 => ~prOpen
      BY <1>1 DEF Accounts, AccountOK, RecordsOK, Accepted
    <2> QED
      BY <2>1, Zenon
  <1> HIDE DEF w, a, e, m
  <1>15. RunsOK(p)'
    <2>1. w.last = 0 => runs' = 0
      BY <1>4, <1>8
    <2>2. op[p] = "running" => op[p] \notin RecordOps
      BY DEF RecordOps
    <2>3. ~Executing(p)' => runs' <= SlotsOf(w) + Spare(p)'
      BY <1>1, <1>3, <1>4, <1>7, <1>8, <2>2
    <2>4. Executing(p)' => runs' <= e + 1 + Spare(p)'
      BY <1>1, <1>3, <1>4, <1>8, <2>2
    <2> QED
      BY <1>5, <1>7, <2>1, <2>3, <2>4 DEF RunsOK, e
  <1>16. RecordsOK(p)'
    <2>1. Len(w.hist) + a <= runs'
      <3>1. a = 0 \/ (a = 1 /\ op[p] = "running")
        BY <1>10
      <3> QED
        BY <1>1, <1>4, <1>8, <1>9, <3>1
    <2>2. runs' <= MaxHistory /\ Mishaps' = 0 => runs <= MaxHistory /\ Mishaps = 0
      BY <1>1, <1>3, <1>8
    <2> QED
      BY <1>4, <1>5, <1>13, <1>14, <2>1, <2>2 DEF RecordsOK, a
  <1> QED
    BY <1>1, <1>3, <1>11, <1>12, <1>15, <1>16 DEF AccountOK

(* The next time is published after the record, stored or lost; any other  *)
(* update that fails is dropped, and of those that succeed only Running    *)
(* goes on.                                                                *)
LEMMA AfterUpdateFailed ==
  ASSUME NEW p, op[p] \in Ops, UpdateFailed(p)
  PROVE  /\ op[p] \notin RecordOps => Leave(p)
         /\ op[p] \in RecordOps =>
                \E u \in {"nextCreated", "nextOther"} :
                    Update(p, obj[p], u) /\ NoRequeue /\ UNCHANGED start
  <1>1. NextOpAfter(op[p]) \in {"nextCreated", "nextOther"}
    BY DEF NextOpAfter
  <1>2. CASE op[p] \in RecordOps
    <2>1. PublishNext(p, obj[p])
      BY <1>2 DEF UpdateFailed, RecordOps, StatusOps
    <2> QED
      BY <1>1, <1>2, <2>1 DEF PublishNext
  <1>3. CASE op[p] \in {"nextCreated", "nextOther"}
    <2>1. op[p] \notin RecordOps /\ op[p] \notin StatusOps \cup {"wait"}
      BY <1>3 DEF RecordOps, StatusOps
    <2>2. EndExecution(p)
      BY <1>3, <2>1 DEF UpdateFailed
    <2> QED
      BY <2>1, <2>2 DEF EndExecution
  <1>4. CASE op[p] \in StatusOps \cup {"wait"}
    <2>1. op[p] \notin RecordOps /\ op[p] \notin {"nextCreated", "nextOther"}
      BY <1>4 DEF RecordOps, StatusOps
    <2>2. ReturnError(p)
      BY <1>4, <2>1 DEF UpdateFailed
    <2> QED
      BY <2>1, <2>2 DEF ReturnError
  <1> QED
    BY <1>2, <1>3, <1>4 DEF Ops, NextOps

LEMMA AfterUpdateDone ==
  ASSUME NEW p, op[p] \in Ops, NEW o, UpdateDone(p, o)
  PROVE  /\ op[p] = "running" =>
                /\ GoTo(p, "rest") /\ obj' = [obj EXCEPT ![p] = o] /\ NoRequeue
                /\ UNCHANGED <<start, fresh, op, tries>>
         /\ op[p] \in RecordOps =>
                \E u \in {"nextCreated", "nextOther"} :
                    Update(p, o, u) /\ NoRequeue /\ UNCHANGED start
         /\ op[p] \notin RecordOps \cup {"running"} => Leave(p)
  <1>1. NextOpAfter(op[p]) \in {"nextCreated", "nextOther"}
    BY DEF NextOpAfter
  <1>2. CASE op[p] = "running"
    BY <1>2 DEF UpdateDone, RecordOps
  <1>3. CASE op[p] \in RecordOps
    BY <1>1, <1>3 DEF UpdateDone, PublishNext, RecordOps
  <1>4. CASE op[p] \in {"nextCreated", "nextOther"}
    BY <1>4 DEF UpdateDone, EndExecution, RecordOps
  <1>5. CASE op[p] \in {"suspended", "invalid", "wait"}
    BY <1>5 DEF UpdateDone, ReturnError, RecordOps
  <1> QED
    BY <1>2, <1>3, <1>4, <1>5 DEF Ops, StatusOps, NextOps

LEMMA PutOkAccount ==
  ASSUME NEW p, Accounts(p), IInv', PutOk(p)
  PROVE  AccountOK' /\ Charged(p)
  <1> DEFINE w == Written(p)
  <1>1. /\ p \in Procs /\ Typed(p, Objects, PCs) /\ CountsTyped(p) /\ Met(p) \in Nat
        /\ op[p] \in Ops /\ obj[p] \in Objects /\ start[p] \in Nat
        /\ now \in Nat
    BY AccountFacts, MetType
  <1>2. /\ At(p, "put") /\ Accepted(p) /\ Store(w) /\ UpdateDone(p, w) /\ CountRun(p)
        /\ UNCHANGED <<now, edits, crashes, faults, prs, prOpen>>
    BY DEF PutOk, boundVars, RemoteKept
  <1>3. Met(p) = tries[p] /\ tries[p] \in Nat
    BY <1>1, <1>2 DEF Met, Behind, Accepted, CountsTyped
  <1>4. /\ w \in Objects
        /\ op[p] = "running" =>
              w.last = start[p] /\ start[p] # 0 /\ w.next <= start[p]
        /\ op[p] \in RecordOps => w.last # 0 /\ w.next <= start[p]
    BY <1>2, WrittenFields, WrittenBalance
  <1>5. Current' = w
    BY <1>1, <1>2, <1>4, StoreCurrent DEF Typed
  <1> HIDE DEF w
  <1>6. CASE op[p] = "running"
    <2>1. /\ GoTo(p, "rest") /\ obj' = [obj EXCEPT ![p] = w] /\ UNCHANGED <<start, tries>>
      BY <1>1, <1>2, <1>6, AfterUpdateDone
    <2>2. pc'[p] = "rest" /\ obj'[p] = w
      BY <1>1, <2>1 DEF GoTo, Typed
    <2>3. Met(p)' = tries[p]
      BY <1>3, <2>1, <2>2 DEF Met, Behind, At
    <2>4. Charged(p)
      BY <1>1, <1>2, <1>3, <2>3 DEF Charged, CountsTyped
    <2>5. Executing(p)' /\ ~Updating(p)'
      BY <2>2 DEF Executing, Unrecorded, Updating
    <2>6. HandOK(p)' /\ ExecutionOK(p)'
      BY <1>4, <1>5, <1>6, <2>1, <2>2, <2>5 DEF HandOK, ExecutionOK
    <2> QED
      BY <1>2, <1>6, <2>4, <2>5, <2>6, StoredAccount DEF w
  <1>7. CASE op[p] \in RecordOps
    <2>1. PICK u \in {"nextCreated", "nextOther"} : Update(p, w, u) /\ UNCHANGED start
      BY <1>1, <1>2, <1>7, AfterUpdateDone
    <2>2. /\ pc'[p] = "get" /\ op'[p] = u /\ obj'[p] = w /\ Met(p)' = 0
      BY <1>1, <2>1, MetNone DEF Update, GoTo, Typed
    <2>3. Charged(p)
      BY <1>1, <1>2, <1>3, <2>2 DEF Charged, CountsTyped
    <2>4. Executing(p)' /\ ~Unrecorded(p)'
      BY <2>1, <2>2 DEF Executing, Unrecorded, Updating, RecordOps
    <2>5. HandOK(p)' /\ ExecutionOK(p)'
      BY <1>4, <1>5, <1>7, <2>1, <2>2, <2>4 DEF HandOK, ExecutionOK
    <2> QED
      BY <1>2, <1>7, <2>3, <2>4, <2>5, StoredAccount DEF w
  <1>8. CASE op[p] \notin RecordOps \cup {"running"}
    <2>1. Leave(p)
      BY <1>1, <1>2, <1>8, AfterUpdateDone
    <2>2. pc'[p] = "idle" /\ Met(p)' = 0
      BY <1>1, <2>1, MetNone DEF Leave, GoTo, Typed
    <2>3. Charged(p)
      BY <1>1, <1>2, <1>3, <2>2 DEF Charged, CountsTyped
    <2>4. ~Executing(p)' /\ ~Unrecorded(p)' /\ HandOK(p)' /\ ExecutionOK(p)'
      BY <2>2 DEF Executing, Unrecorded, Updating, HandOK, ExecutionOK
    <2> QED
      BY <1>2, <1>8, <2>3, <2>4, StoredAccount DEF w
  <1> QED
    BY <1>6, <1>7, <1>8

(* The worker gives the update up at the cost of a mishap, and publishes   *)
(* the next time or drops what it does.                                    *)
LEMMA GivenUpAccount ==
  ASSUME NEW p, Accounts(p), IInv', UpdateFailed(p), Updating(p), ~Current.gone,
         UNCHANGED <<versions, runs, now, edits, crashes, prs, prOpen>>,
         \/ faults' = faults + 1
         \/ Conflict(p) /\ ~RetriesLeft(p) /\ faults' = faults
  PROVE  AccountOK' /\ Charged(p)
  <1>1. /\ p \in Procs /\ Typed(p, Objects, PCs) /\ CountsTyped(p) /\ op[p] \in Ops
        /\ Met(p) <= edits /\ now \in Nat /\ HandOK(p) /\ ExecutionOK(p)
    BY AccountFacts DEF Accounts, AccountOK
  <1>2. CountsTyped(p)' /\ now <= now'
    BY <1>1 DEF CountsTyped, IInv, CountersOK, LocalsOK
  <1>3. Leave(p) \/ \E o, u : Update(p, o, u)
    BY <1>1, AfterUpdateFailed
  <1>4. Charged(p) /\ Spare(p) + 1 <= Spare(p)'
    BY <1>1, <1>2, <1>3, LostCharged
  <1>5. CASE op[p] \notin RecordOps
    BY <1>1, <1>2, <1>4, <1>5, AfterUpdateFailed, LostAccount
  <1>6. CASE op[p] \in RecordOps
    <2>1. PICK u \in {"nextCreated", "nextOther"} : Update(p, obj[p], u) /\ UNCHANGED start
      BY <1>1, <1>6, AfterUpdateFailed
    <2>2. pc'[p] = "get" /\ op'[p] = u /\ obj'[p] = obj[p]
      BY <1>1, <2>1 DEF Update, GoTo, Typed
    <2>3. Executing(p) /\ Executing(p)' /\ ~Unrecorded(p)'
      BY <1>6, <2>1, <2>2 DEF Executing, Unrecorded, Updating, RecordOps
    <2>4. PullKept(p)
      BY <1>4 DEF PullKept
    <2> QED
      BY <1>2, <1>4, <2>1, <2>2, <2>3, <2>4, MovedAccount
  <1> QED
    BY <1>4, <1>5, <1>6

LEMMA PutFailedAccount ==
  ASSUME NEW p, Accounts(p), IInv', PutFailed(p)
  PROVE  AccountOK' /\ Charged(p)
  <1>1. /\ p \in Procs /\ Typed(p, Objects, PCs) /\ CountsTyped(p) /\ Met(p) \in Nat
        /\ op[p] \in Ops /\ now \in Nat /\ CacheLag = FALSE
    BY AccountFacts, MetType DEF Accounts
  <1>2. /\ Exhausted(p) /\ UpdateFailed(p) /\ UNCHANGED <<versions, now, runs, prs, prOpen>>
        /\ UNCHANGED <<edits, crashes, faults>>
    BY DEF PutFailed, Exhausted, boundVars, worldVars
  <1>3. CASE Current.gone
    <2>1. Leave(p) \/ \E o, u : Update(p, o, u)
      BY <1>1, <1>2, AfterUpdateFailed
    <2>2. Met(p)' = 0
      BY <1>1, <2>1, MetNone
    <2>3. Charged(p) /\ now <= now'
      BY <1>1, <1>2, <2>2 DEF Charged, CountsTyped
    <2>4. Current'.gone
      BY <1>2, <1>3 DEF Current, RV
    <2> QED
      BY <1>2, <2>3, <2>4, Carried
  <1>4. CASE ~Current.gone
    <2>1. Conflict(p) /\ ~RetriesLeft(p)
      BY <1>1, <1>2, <1>4, CurrentReads DEF Exhausted
    <2>2. Updating(p)
      BY <2>1 DEF Conflict, At, Updating
    <2> QED
      BY <1>2, <1>4, <2>1, <2>2, GivenUpAccount
  <1> QED
    BY <1>3, <1>4

LEMMA PutFaultAccount ==
  ASSUME NEW p, Accounts(p), IInv', PutFault(p)
  PROVE  AccountOK' /\ Charged(p)
  <1> DEFINE w == Written(p)
  <1>1. /\ p \in Procs /\ Typed(p, Objects, PCs) /\ CountsTyped(p) /\ op[p] \in Ops
        /\ Met(p) <= edits /\ Met(p) \in Nat /\ now \in Nat /\ obj[p] \in Objects
    BY AccountFacts, MetType
  <1>2. /\ At(p, "put") /\ UpdateFailed(p) /\ now' = now /\ faults' = faults + 1
        /\ UNCHANGED <<edits, crashes, prs, prOpen>>
        /\ \/ UNCHANGED <<versions, runs>>
           \/ Accepted(p) /\ Store(w) /\ CountRun(p)
    BY DEF PutFault, Fault, RemoteKept
  <1>3. CountsTyped(p)' /\ now <= now' /\ Updating(p)
    BY <1>1, <1>2 DEF CountsTyped, IInv, CountersOK, LocalsOK, At, Updating
  <1>4. Leave(p) \/ \E o, u : Update(p, o, u)
    BY <1>1, <1>2, AfterUpdateFailed
  <1>5. Charged(p) /\ Spare(p) + 1 <= Spare(p)'
    BY <1>1, <1>2, <1>3, <1>4, LostCharged
  <1>6. CASE UNCHANGED <<versions, runs>>
    <2>1. CASE Current.gone
      <3>1. Current'.gone
        BY <1>6, <2>1 DEF Current, RV
      <3> QED
        BY <1>3, <1>5, <1>6, <3>1, Carried
    <2>2. CASE ~Current.gone
      BY <1>2, <1>3, <1>6, <2>2, GivenUpAccount
    <2> QED
      BY <2>1, <2>2
  <1>7. CASE Accepted(p) /\ Store(w) /\ CountRun(p)
    <2>1. w \in Objects /\ (op[p] \in RecordOps => w.last # 0 /\ w.next <= start[p])
      BY <1>2, <1>7, WrittenFields, WrittenBalance
    <2>2. Current' = w
      BY <1>1, <1>7, <2>1, StoreCurrent DEF Typed
    <2> HIDE DEF w
    <2>3. CASE op[p] \notin RecordOps
      <3>1. Leave(p)
        BY <1>1, <1>2, <2>3, AfterUpdateFailed
      <3>2. pc'[p] = "idle"
        BY <1>1, <3>1 DEF Leave, GoTo, Typed
      <3>3. ~Executing(p)' /\ ~Unrecorded(p)' /\ HandOK(p)' /\ ExecutionOK(p)'
        BY <3>2 DEF Executing, Unrecorded, Updating, HandOK, ExecutionOK
      <3> QED
        BY <1>2, <1>5, <1>7, <2>3, <3>3, StoredAccount DEF w
    <2>4. CASE op[p] \in RecordOps
      <3>1. PICK u \in {"nextCreated", "nextOther"} :
                Update(p, obj[p], u) /\ UNCHANGED start
        BY <1>1, <1>2, <2>4, AfterUpdateFailed
      <3>2. pc'[p] = "get" /\ op'[p] = u /\ obj'[p] = obj[p]
        BY <1>1, <3>1 DEF Update, GoTo, Typed
      <3>3. Executing(p)' /\ ~Unrecorded(p)'
        BY <3>1, <3>2 DEF Executing, Unrecorded, Updating, RecordOps
      <3>4. obj[p].last # 0
        <4>1. Executing(p) /\ ExecutionOK(p)
          BY <1>1, <1>3, <1>7, <2>4
             DEF Executing, Unrecorded, Accounts, AccountOK, Accepted
        <4> QED
          BY <4>1 DEF ExecutionOK
      <3>5. HandOK(p)' /\ ExecutionOK(p)'
        BY <2>1, <2>2, <2>4, <3>1, <3>2, <3>3, <3>4 DEF HandOK, ExecutionOK
      <3> QED
        BY <1>2, <1>5, <1>7, <2>4, <3>3, <3>5, StoredAccount DEF w, RecordOps
    <2> QED
      BY <2>3, <2>4
  <1> QED
    BY <1>2, <1>5, <1>6, <1>7

LEMMA InitAccount == OneProcess /\ Init => AccountOK
  <1> SUFFICES ASSUME OneProcess, Init PROVE AccountOK
    OBVIOUS
  <1>1. PICK s \in Specs : KubeInit(NewObject(s))
    BY DEF Init
  <1>2. Current = NewObject(s)
    BY <1>1 DEF KubeInit, Current, RV
  <1>3. Current.last = 0 /\ Current.next = 0 /\ Current.hist = <<>>
    BY <1>2 DEF NewObject
  <1>4. /\ now = 1 /\ runs = 0 /\ prs = 0 /\ edits = 0 /\ crashes = 0 /\ faults = 0
        /\ \A p \in Procs : pc[p] = "idle" /\ tries[p] = 0
    BY DEF Init, ScheduleInit
  <1>5. /\ Period \in Nat \ {0} /\ MaxRetries \in Nat \ {0} /\ 0 \div Period = 0
        /\ 0 \div MaxRetries = 0 /\ now \div Period \in Nat
    BY <1>4, ScheduleAssumption, DivDef
  <1>6. RunsAccounted
    BY <1>4, <1>5 DEF RunsAccounted, Mishaps
  <1>7. PlanOK
    BY <1>3, <1>4, <1>5 DEF PlanOK
  <1> SUFFICES ASSUME NEW p \in Procs
               PROVE  /\ Met(p) <= edits /\ HandOK(p) /\ ExecutionOK(p) /\ RunsOK(p)
                      /\ RecordsOK(p)
    BY <1>6, <1>7 DEF AccountOK
  <1>8. ~Behind(p) /\ Met(p) = 0
    BY <1>4 DEF Met, Behind, At
  <1>9. ~Executing(p) /\ ~Unrecorded(p) /\ ~Updating(p)
    BY <1>4 DEF Executing, Unrecorded, Updating
  <1>10. Spare(p) = 0
    BY <1>4, <1>5, <1>8 DEF Spare
  <1>11. Slots = 1
    BY <1>3 DEF Slots
  <1>12. RunsOK(p)
    BY <1>4, <1>9, <1>10, <1>11 DEF RunsOK
  <1>13. ~prOpen
    BY Zenon DEF Init
  <1>14. RecordsOK(p)
    BY <1>3, <1>4, <1>9, <1>13 DEF RecordsOK, OpenRun
  <1> QED
    BY <1>4, <1>8, <1>9, <1>12, <1>14 DEF HandOK, ExecutionOK

LEMMA AccountNext == Ideal /\ IInv /\ AccountOK /\ [Next]_vars => AccountOK'
  <1> SUFFICES ASSUME Ideal, IInv, AccountOK, [Next]_vars PROVE AccountOK'
    OBVIOUS
  <1>1. PICK p : Procs = {p}
    BY DEF Ideal, OneProcess
  <1>2. Accounts(p) /\ IInv'
    BY <1>1, NextInv DEF Accounts, Ideal
  <1>3. CASE Step(p) \/ Delivered(p) \/ Elapsed(p) \/ Ticked
    BY <1>2, <1>3, ReconcileAccount, GetAccount, PutOkAccount, PutFailedAccount,
       ExecuteAccount, EnvironmentAccount
       DEF Step, Delivered, Elapsed, Ticked, WorldKept
  <1>4. CASE Environment
    BY <1>1, <1>2, <1>4, PutFaultAccount, ExecuteAccount, EnvironmentAccount, UserAccount,
       ClosesAccount DEF Environment, WorldKept
  <1>5. CASE UNCHANGED vars
    BY <1>2, <1>5, ClosesAccount
  <1> QED
    BY <1>1, <1>3, <1>4, <1>5 DEF Next

LEMMA AccountInvariance == Ideal => (Spec => []AccountOK)
  <1> SUFFICES ASSUME Ideal PROVE Spec => []AccountOK
    OBVIOUS
  <1>1. Init => AccountOK
    BY InitAccount DEF Ideal
  <1>2. IInv /\ AccountOK /\ [Next]_vars => AccountOK'
    BY AccountNext
  <1> QED
    BY <1>1, <1>2, Invariance, PTL DEF Spec

(* The schedule is an upper bound here too, although the next time is      *)
(* published last and the error of neither write is looked at: an execution*)
(* begins at most once for each time on the schedule and once more for     *)
(* each crash, failed call or update's worth of edits.                     *)
THEOREM RunsAreAccounted == Ideal => (Spec => []RunsAccounted)
  <1> SUFFICES ASSUME Ideal PROVE Spec => []RunsAccounted
    OBVIOUS
  <1>1. AccountOK => RunsAccounted
    BY DEF AccountOK, Ideal, OneProcess
  <1> QED
    BY <1>1, AccountInvariance, PTL

(* Between reconciles the history names the pull request that is open, as  *)
(* long as it holds every execution and nothing has gone wrong, although   *)
(* later executions replace the number in the status by 0.                 *)
THEOREM TheOpenOneIsNamed == Ideal => (Spec => []OpenIsRecorded)
  <1> SUFFICES ASSUME Ideal PROVE Spec => []OpenIsRecorded
    OBVIOUS
  <1>1. IInv /\ AccountOK => OpenIsRecorded
    <2> SUFFICES ASSUME IInv, AccountOK, \A q \in Procs : At(q, "idle"), prOpen,
                        ~Current.gone, runs <= MaxHistory, Mishaps = 0
                 PROVE  Named(Current.hist, prs)
      BY DEF OpenIsRecorded, Named
    <2>1. PICK p : Procs = {p}
      BY DEF Ideal, OneProcess
    <2>2. Accounts(p) /\ RecordsOK(p) /\ pc[p] = "idle"
      BY <2>1 DEF Accounts, Ideal, AccountOK, At
    <2>3. prs \in Nat
      BY <2>2, AccountFacts
    <2>4. ~InHand(p)
      BY <2>2 DEF InHand, Updating
    <2>5. prs # 0
      BY <2>2 DEF RecordsOK
    <2> QED
      BY <2>2, <2>3, <2>4, <2>5 DEF RecordsOK
  <1> QED
    BY <1>1, Invariance, AccountInvariance, PTL

-----------------------------------------------------------------------------
(* Nobody sleeps, with any number of processes and on caches however old.  *)

(* A step leaves the worker of q and its queue alone.                      *)
Apart(q) ==
    /\ pc'[q] = pc[q] /\ op'[q] = op[q] /\ obj'[q] = obj[q]
    /\ start'[q] = start[q] /\ fresh'[q] = fresh[q]

LastKept(o) == (o.last = 0 => o.next = 0) /\ (Current.last # 0 => o.last # 0)

LEMMA PublishFacts ==
  ASSUME IInv, NEW p \in Procs
  PROVE  /\ pc \in [Procs -> PCs] /\ obj \in [Procs -> Objects] /\ op \in [Procs -> Ops]
         /\ start[p] \in Nat /\ now \in Nat \ {0} /\ obj[p] \in Objects /\ op[p] \in Ops
         /\ versions \in Seq(Objects) /\ RV \in Nat /\ RV >= 1 /\ Current \in Objects
         /\ fresh \in [Procs -> 1 .. RV] /\ start \in [Procs -> 0 .. now]
         /\ cached \in [Procs -> 1 .. RV] /\ cached[p] \in 1 .. RV
         /\ timer \in [Procs -> BOOLEAN] /\ dirty \in [Procs -> BOOLEAN]
         /\ crashes \in Nat /\ faults \in Nat
         /\ Current.last \in Nat /\ Current.next \in Nat
         /\ obj[p].last \in Nat /\ obj[p].next \in Nat
  <1>1. Current \in Objects /\ RV \in Nat /\ RV >= 1 /\ obj[p] \in Objects
    BY CurrentOK DEF IInv, LocalsOK
  <1>2. /\ Current.last \in Nat /\ Current.next \in Nat
        /\ obj[p].last \in Nat /\ obj[p].next \in Nat
    BY <1>1 DEF Objects
  <1>3. /\ pc \in [Procs -> PCs] /\ obj \in [Procs -> Objects] /\ op \in [Procs -> Ops]
        /\ op[p] \in Ops
    BY DEF IInv, LocalsOK
  <1>4. /\ versions \in Seq(Objects) /\ fresh \in [Procs -> 1 .. RV]
        /\ cached \in [Procs -> 1 .. RV] /\ cached[p] \in 1 .. RV
    BY DEF IInv, StoreOK
  <1>5. /\ now \in Nat \ {0} /\ start \in [Procs -> 0 .. now]
        /\ timer \in [Procs -> BOOLEAN] /\ dirty \in [Procs -> BOOLEAN]
    BY ScheduleAssumption DEF IInv, ClockOK
  <1>6. start[p] \in Nat
    BY <1>5
  <1>7. crashes \in Nat /\ faults \in Nat
    BY ScheduleAssumption DEF IInv, CountersOK
  <1> QED
    BY <1>1, <1>2, <1>3, <1>4, <1>5, <1>6, <1>7

(* The invariant after a step that writes at most a sound version.         *)
LEMMA PublishKept ==
  ASSUME IInv, PublishOK,
         UNCHANGED versions \/ \E o \in Objects : Write(o) /\ LastKept(o),
         \A q \in Procs : Apart(q) \/ HoldsOK(q)'
  PROVE  PublishOK' /\ (Current.last # 0 => Current'.last # 0)
  <1>1. versions \in Seq(Objects)
    BY DEF IInv, StoreOK
  <1>2. /\ \A k \in 1 .. RV' : /\ versions'[k].last = 0 => versions'[k].next = 0
                               /\ versions'[k].last # 0 => Current'.last # 0
        /\ Current.last # 0 => Current'.last # 0
    <2>1. CASE UNCHANGED versions
      BY <2>1 DEF PublishOK, RV, Current
    <2>2. CASE \E o \in Objects : Write(o) /\ LastKept(o)
      <3>0. PICK o \in Objects : Write(o) /\ LastKept(o)
        BY <2>2
      <3>1. /\ RV \in Nat /\ RV' = RV + 1 /\ Current' = o
            /\ \A k \in 1 .. RV : versions'[k] = versions[k]
            /\ versions'[RV + 1] = o
        BY <1>1, <3>0, WriteType
      <3>2. Current.last # 0 => o.last # 0
        BY <3>0 DEF LastKept
      <3>3. ASSUME NEW k \in 1 .. RV'
            PROVE  /\ versions'[k].last = 0 => versions'[k].next = 0
                   /\ versions'[k].last # 0 => o.last # 0
        <4>1. k \in 1 .. RV \/ k = RV + 1
          BY <3>1
        <4>2. CASE k \in 1 .. RV
          BY <3>1, <3>2, <4>2 DEF PublishOK
        <4>3. CASE k = RV + 1
          BY <3>0, <3>1, <4>3 DEF LastKept
        <4> QED
          BY <4>1, <4>2, <4>3
      <3> QED
        BY <3>1, <3>2, <3>3
    <2> QED
      BY <2>1, <2>2
  <1>3. ASSUME NEW q \in Procs, Apart(q)
        PROVE  HoldsOK(q)'
    <2>1. HoldsOK(q)
      BY DEF PublishOK
    <2> QED
      BY <1>2, <1>3, <2>1 DEF HoldsOK, Apart, Executing, Unrecorded, Updating
  <1> QED
    BY <1>2, <1>3 DEF PublishOK

(* What an accepted update writes.                                         *)
LEMMA WrittenPublish ==
  ASSUME IInv, PublishOK, NEW p \in Procs, At(p, "put"), Accepted(p)
  PROVE  /\ Written(p) \in Objects /\ LastKept(Written(p)) /\ Written(p).gone = Current.gone
         /\ op[p] \in RecordOps \cup {"running"} => Written(p).last # 0
         /\ op[p] = "running" => Written(p).phase = "Running"
         /\ op[p] \in RecordOps => Written(p).phase # "Running"
         /\ op[p] \in NextOps => Written(p).next = NextRun(start[p])
  <1> DEFINE w == Written(p)
  <1>1. /\ w \in Objects /\ Current \in Objects /\ obj[p] \in Objects /\ op[p] \in Ops
        /\ Updating(p) /\ HoldsOK(p)
        /\ Current.last = 0 => Current.next = 0
    <2>1. RV \in 1 .. RV
      BY CurrentOK
    <2> QED
      BY <2>1, WrittenOK, PublishFacts DEF PublishOK, Current, At, Updating
  <1>2. w = Merge(p, Current)
    BY DEF Written, Accepted, Current
  <1>3. CASE op[p] \in StatusOps
    <2>1. w = MergeStatus(Current, obj[p], PhaseOf(op[p]))
      BY <1>2, <1>3 DEF Merge, StatusOps, NextOps
    <2>2. /\ w.gone = Current.gone /\ w.phase = PhaseOf(op[p])
          /\ w.last = IF obj[p].last # 0 THEN obj[p].last ELSE Current.last
          /\ w.next = IF obj[p].next # 0 THEN obj[p].next ELSE Current.next
      BY <1>1, <2>1 DEF MergeStatus, Objects
    <2>3. /\ op[p] \in {"suspended", "invalid"} => (obj[p].last = 0 => obj[p].next = 0)
          /\ op[p] = "running" => obj[p].last # 0
      BY <1>1 DEF HoldsOK
    <2>4. op[p] = "running" => w.phase = "Running"
      BY <2>2 DEF PhaseOf
    <2>5. op[p] \notin RecordOps /\ op[p] \notin NextOps
      BY <1>3 DEF StatusOps, RecordOps, NextOps
    <2> HIDE DEF w
    <2>6. LastKept(w)
      BY <1>1, <1>3, <2>2, <2>3 DEF LastKept, StatusOps
    <2>7. op[p] = "running" => w.last # 0
      BY <2>2, <2>3
    <2> QED
      BY <1>1, <2>2, <2>4, <2>5, <2>6, <2>7 DEF w
  <1>4. CASE op[p] \in NextOps
    <2>1. w = [Current EXCEPT !.next = NextRun(start[p])]
      BY <1>2, <1>4 DEF Merge, StatusOps, NextOps
    <2>2. w.gone = Current.gone /\ w.last = Current.last /\ w.next = NextRun(start[p])
      BY <1>1, <2>1 DEF Objects
    <2>3. Current.last # 0
      BY <1>1, <1>4 DEF HoldsOK, Executing, NextOps
    <2>4. op[p] \notin RecordOps /\ op[p] # "running"
      BY <1>4 DEF RecordOps, NextOps
    <2> QED
      BY <1>1, <2>2, <2>3, <2>4 DEF LastKept
  <1>5. CASE op[p] \in RecordOps
    <2>1. PICK ph, n : /\ ph \in {"Created", "Failed", "Pending"}
                       /\ w = MergeRecord(Current, obj[p], ph, n)
      <3>1. CASE op[p] = "recordCreated"
        <4>1. w = MergeRecord(Current, obj[p], "Created", obj[p].number)
          BY <1>2, <3>1 DEF Merge, StatusOps, NextOps
        <4> QED
          BY <4>1
      <3>2. CASE op[p] \in {"recordFailed", "recordPending"}
        <4>1. w = MergeRecord(Current, obj[p], PhaseOf(op[p]), 0)
          BY <1>2, <3>2 DEF Merge, StatusOps, NextOps
        <4>2. PhaseOf(op[p]) \in {"Failed", "Pending"}
          BY <3>2 DEF PhaseOf
        <4> QED
          BY <4>1, <4>2
      <3> QED
        BY <1>5, <3>1, <3>2 DEF RecordOps
    <2> DEFINE g == Newest(<<[number |-> n, phase |-> ph]>> \o Current.hist, MaxHistory)
    <2>2. w = [Current EXCEPT !.phase = ph, !.sync = now, !.number = n,
                              !.last = obj[p].last, !.hist = g]
      BY <2>1 DEF MergeRecord
    <2> HIDE DEF g
    <2>3. /\ w.gone = Current.gone /\ w.last = obj[p].last /\ w.phase = ph
          /\ w.next = Current.next
      BY <1>1, <2>2 DEF Objects
    <2>4. obj[p].last # 0
      BY <1>1, <1>5 DEF HoldsOK, Unrecorded
    <2>5. op[p] \notin NextOps /\ op[p] # "running"
      BY <1>5 DEF RecordOps, NextOps
    <2> QED
      BY <1>1, <2>1, <2>3, <2>4, <2>5 DEF LastKept
  <1> QED
    BY <1>1, <1>3, <1>4, <1>5 DEF Ops

LEMMA ReconcilePublish ==
  ASSUME IInv, PublishOK, NEW p \in Procs, Reconcile(p)
  PROVE  PublishOK'
  <1>1. /\ UNCHANGED versions /\ now \in Nat \ {0} /\ Seen(p) \in 1 .. RV
        /\ View(p) \in Objects /\ pc \in [Procs -> PCs] /\ obj \in [Procs -> Objects]
        /\ op \in [Procs -> Ops] /\ pc[p] = "idle"
    BY ViewOK, PublishFacts DEF Reconcile, ReconcileGone, ReconcileSuspended,
       ReconcileInvalid, Scheduled, ReconcileWait, ReconcileRun, Begin, At
  <1>2. /\ View(p).last = 0 => View(p).next = 0
        /\ View(p).last # 0 => Current.last # 0
    BY <1>1 DEF PublishOK, View
  <1>3. Current' = Current
    BY <1>1 DEF Current, RV
  <1>4. ASSUME NEW o, NEW u, Update(p, o, u),
               \/ u \in {"suspended", "invalid"} /\ (o.last = 0 => o.next = 0)
               \/ u = "wait" /\ Current.last # 0
               \/ u = "running" /\ o.last # 0
        PROVE  HoldsOK(p)'
    <2>1. pc'[p] = "get" /\ obj'[p] = o /\ op'[p] = u
      BY <1>1, <1>4 DEF Update, GoTo
    <2> QED
      BY <1>3, <1>4, <2>1 DEF HoldsOK, Executing, Unrecorded, Updating, RecordOps
  <1>5. Apart(p) \/ HoldsOK(p)'
    <2>1. CASE UNCHANGED workerVars
      BY <2>1 DEF workerVars, Apart
    <2>2. CASE ReconcileSuspended(p) \/ ReconcileInvalid(p)
      BY <1>2, <1>4, <2>2 DEF ReconcileSuspended, ReconcileInvalid
    <2>3. CASE ReconcileWait(p)
      BY <1>2, <1>4, <2>1, <2>3 DEF ReconcileWait, ShouldExecute
    <2>4. CASE ReconcileRun(p)
      <3>1. [View(p) EXCEPT !.last = now].last # 0
        BY <1>1 DEF Objects
      <3> QED
        BY <1>4, <2>4, <3>1 DEF ReconcileRun
    <2> QED
      BY <2>1, <2>2, <2>3, <2>4 DEF Reconcile, ReconcileGone
  <1>6. ASSUME NEW q \in Procs, q # p PROVE Apart(q)
    BY <1>1, <1>6, PublishFacts
       DEF Reconcile, ReconcileGone, ReconcileSuspended, ReconcileInvalid, ReconcileWait,
           ReconcileRun, Update, GoTo, workerVars, Apart
  <1> QED
    BY <1>1, <1>5, <1>6, PublishKept

(* The worker of p goes on, the others stay.                               *)
LEMMA WorkerApart ==
  ASSUME IInv, NEW p \in Procs, NEW q \in Procs, q # p,
         \/ Leave(p)
         \/ UNCHANGED start /\ \E o, u : Update(p, o, u)
         \/ UNCHANGED <<start, fresh, op>> /\ (\E l : GoTo(p, l))
            /\ (UNCHANGED obj \/ \E o : obj' = [obj EXCEPT ![p] = o])
         \/ GetOk(p) \/ PutConflict(p)
  PROVE  Apart(q)
  BY PublishFacts DEF Leave, Update, GoTo, GetOk, PutConflict, Apart

(* A resource that ran stays one that ran.                                 *)
LEMMA LastStays ==
  ASSUME IInv, NEW p \in Procs, PublishOK,
         \/ UNCHANGED versions
         \/ At(p, "put") /\ Accepted(p) /\ Store(Written(p))
  PROVE  /\ UNCHANGED versions \/ \E o \in Objects : Write(o) /\ LastKept(o)
         /\ Current.last # 0 => Current'.last # 0
  <1>1. CASE UNCHANGED versions
    BY <1>1 DEF Current, RV
  <1>2. CASE At(p, "put") /\ Accepted(p) /\ Store(Written(p))
    <2>1. Written(p) \in Objects /\ LastKept(Written(p))
      BY <1>2, WrittenPublish
    <2>2. Current' = Written(p)
      BY <1>2, <2>1, StoreCurrent DEF IInv, StoreOK
    <2>3. UNCHANGED versions \/ Write(Written(p))
      BY <1>2 DEF Store
    <2> QED
      BY <2>1, <2>2, <2>3 DEF LastKept
  <1> QED
    BY <1>1, <1>2

LEMMA LeaveHolds ==
  ASSUME IInv, NEW p \in Procs, Leave(p)
  PROVE  HoldsOK(p)' /\ pc'[p] = "idle"
  <1>1. pc'[p] = "idle"
    BY PublishFacts DEF Leave, GoTo
  <1> QED
    BY <1>1 DEF HoldsOK, Updating, Executing, Unrecorded

LEMMA GetPublish ==
  ASSUME IInv, PublishOK, NEW p \in Procs, GetOk(p) \/ PutConflict(p)
  PROVE  PublishOK'
  <1>1. /\ UNCHANGED <<versions, obj, op, start>>
        /\ pc[p] \in {"get", "put"} /\ pc'[p] \in {"get", "put"}
    BY PublishFacts DEF GetOk, PutConflict, Conflict, At, GoTo
  <1>2. HoldsOK(p)'
    <2>1. HoldsOK(p) /\ Current' = Current
      BY <1>1 DEF PublishOK, Current, RV
    <2> QED
      BY <1>1, <2>1 DEF HoldsOK, Updating, Executing, Unrecorded
  <1>3. ASSUME NEW q \in Procs, q # p PROVE Apart(q)
    BY <1>3, WorkerApart
  <1> QED
    BY <1>1, <1>2, <1>3, PublishKept

LEMMA PutPublish ==
  ASSUME IInv, PublishOK, NEW p \in Procs, PutOk(p) \/ PutFailed(p) \/ PutFault(p)
  PROVE  PublishOK'
  <1> DEFINE w == Written(p)
  <1>1. /\ \/ UNCHANGED versions
           \/ At(p, "put") /\ Accepted(p) /\ Store(w)
        /\ Updating(p)
        /\ \/ UpdateFailed(p)
           \/ UpdateDone(p, w) /\ At(p, "put") /\ Accepted(p) /\ Store(w)
    BY DEF PutOk, PutFailed, PutFault, Exhausted, Conflict, At, Updating
  <1>2. op[p] \in Ops /\ HoldsOK(p) /\ pc \in [Procs -> PCs] /\ obj \in [Procs -> Objects]
        /\ op \in [Procs -> Ops]
    BY PublishFacts DEF PublishOK
  <1>3. /\ UNCHANGED versions \/ \E o \in Objects : Write(o) /\ LastKept(o)
        /\ Current.last # 0 => Current'.last # 0
    BY <1>1, LastStays
  <1>4. \/ Leave(p)
        \/ /\ op[p] \in RecordOps
           /\ \E o : \E u \in {"nextCreated", "nextOther"} :
                  Update(p, o, u) /\ UNCHANGED start
        \/ /\ op[p] = "running" /\ GoTo(p, "rest") /\ obj' = [obj EXCEPT ![p] = w]
           /\ UNCHANGED <<start, fresh, op>>
           /\ At(p, "put") /\ Accepted(p) /\ Store(w)
    <2>1. CASE UpdateFailed(p)
      BY <1>2, <2>1, AfterUpdateFailed
    <2>2. CASE UpdateDone(p, w) /\ At(p, "put") /\ Accepted(p) /\ Store(w)
      BY <1>2, <2>2, AfterUpdateDone
    <2> QED
      BY <1>1, <2>1, <2>2
  <1>5. HoldsOK(p)'
    <2>1. CASE Leave(p)
      BY <2>1, LeaveHolds
    <2>2. ASSUME op[p] \in RecordOps, NEW o, NEW u \in {"nextCreated", "nextOther"},
                 Update(p, o, u)
          PROVE  HoldsOK(p)'
      <3>1. pc'[p] = "get" /\ op'[p] = u
        BY <1>2, <2>2 DEF Update, GoTo
      <3>2. Current'.last # 0
        BY <1>1, <1>2, <1>3, <2>2 DEF HoldsOK, Executing, Unrecorded
      <3> QED
        BY <2>2, <3>1, <3>2 DEF HoldsOK, Executing, Unrecorded, Updating, RecordOps
    <2>3. CASE op[p] = "running" /\ GoTo(p, "rest") /\ obj' = [obj EXCEPT ![p] = w]
               /\ At(p, "put") /\ Accepted(p) /\ Store(w)
      <3>1. w \in Objects /\ w.last # 0
        BY <2>3, WrittenPublish
      <3>2. Current' = w
        BY <2>3, <3>1, StoreCurrent DEF IInv, StoreOK
      <3>3. pc'[p] = "rest" /\ obj'[p] = w
        BY <1>2, <2>3 DEF GoTo
      <3> HIDE DEF w
      <3> QED
        BY <3>1, <3>2, <3>3 DEF HoldsOK, Executing, Unrecorded, Updating
    <2> QED
      BY <1>4, <2>1, <2>2, <2>3
  <1>6. ASSUME NEW q \in Procs, q # p PROVE Apart(q)
    <2>1. CASE Leave(p)
      BY <1>6, <2>1, WorkerApart
    <2>2. CASE UNCHANGED start /\ \E o, u : Update(p, o, u)
      BY <1>6, <2>2, WorkerApart
    <2>3. CASE /\ GoTo(p, "rest") /\ obj' = [obj EXCEPT ![p] = w]
               /\ UNCHANGED <<start, fresh, op>>
      BY <1>6, <2>3, WorkerApart
    <2> QED
      BY <1>4, <2>1, <2>2, <2>3
  <1> QED
    BY <1>3, <1>5, <1>6, PublishKept

(* A step of an execution: on, or to its record.                           *)
LEMMA ExecuteSteps ==
  ASSUME IInv, NEW p \in Procs,
         Rest(p) \/ Auth(p) \/ Push(p) \/ PushFailed(p) \/ Opened(p) \/ OpenFailed(p)
           \/ OpenLost(p)
  PROVE  /\ pc[p] \in {"rest", "auth", "push", "open"}
         /\ UNCHANGED <<kubeVars, clockVars, start, runs, crashes>>
         /\ faults' \in Nat /\ faults <= faults'
         /\ \/ (\E l \in {"auth", "push", "open"} : Move(p, l))
            \/ \E u \in RecordOps, o \in Objects : Update(p, o, u) /\ o.last = obj[p].last
  <1>1. obj[p] \in Objects /\ faults \in Nat
    BY PublishFacts
  <1>2. /\ pc[p] \in {"rest", "auth", "push", "open"}
        /\ UNCHANGED <<kubeVars, clockVars, start, runs, crashes>>
        /\ faults' \in Nat /\ faults <= faults'
    <2>1. CASE OpenLost(p)
      BY <1>1, <2>1 DEF OpenLost, Fault, At
    <2>2. CASE Rest(p) \/ Auth(p) \/ Push(p) \/ PushFailed(p) \/ Opened(p) \/ OpenFailed(p)
      <3>1. At(p, "rest") \/ At(p, "auth") \/ At(p, "push") \/ At(p, "open")
        BY <2>2 DEF Rest, Auth, Push, PushFailed, Opened, OpenFailed
      <3>2. Working(p)
        BY <2>2 DEF Rest, Auth, Push, PushFailed, Opened, OpenFailed
      <3>3. UNCHANGED <<kubeVars, clockVars, start, runs, crashes, faults>>
        BY <3>2 DEF Working, boundVars
      <3> QED
        BY <1>1, <3>1, <3>3 DEF At
    <2> QED
      BY <2>1, <2>2
  <1>3. [obj[p] EXCEPT !.number = prs + 1] \in Objects
        /\ [obj[p] EXCEPT !.number = prs + 1].last = obj[p].last
    <2>1. prs + 1 \in Nat
      BY DEF IInv, CountersOK
    <2> QED
      BY <1>1, <2>1 DEF Objects
  <1>4. CASE \E u \in RecordOps : Update(p, obj[p], u)
    BY <1>1, <1>2, <1>4
  <1>5. CASE Rest(p)
    BY <1>2, <1>4, <1>5 DEF Rest, RecordOps
  <1>6. CASE Auth(p)
    BY <1>2, <1>4, <1>6 DEF Auth, RecordOps
  <1>7. CASE Push(p)
    BY <1>2, <1>7 DEF Push
  <1>8. CASE PushFailed(p) \/ OpenFailed(p) \/ OpenLost(p)
    BY <1>2, <1>4, <1>8 DEF PushFailed, OpenFailed, OpenLost, RecordOps
  <1>9. CASE Opened(p)
    BY <1>2, <1>3, <1>9 DEF Opened, RecordOps
  <1> QED
    BY <1>5, <1>6, <1>7, <1>8, <1>9

LEMMA ExecutePublish ==
  ASSUME IInv, PublishOK, NEW p \in Procs,
         Rest(p) \/ Auth(p) \/ Push(p) \/ PushFailed(p) \/ Opened(p) \/ OpenFailed(p)
           \/ OpenLost(p)
  PROVE  PublishOK'
  <1>1. /\ pc[p] \in {"rest", "auth", "push", "open"}
        /\ UNCHANGED <<versions, start>>
        /\ \/ (\E l \in {"auth", "push", "open"} : Move(p, l))
           \/ \E u \in RecordOps, o \in Objects : Update(p, o, u) /\ o.last = obj[p].last
    BY ExecuteSteps DEF kubeVars
  <1>2. /\ obj[p].last # 0 /\ Current'.last # 0
    <2>1. HoldsOK(p) /\ Current' = Current
      BY <1>1 DEF PublishOK, Current, RV
    <2> QED
      BY <1>1, <2>1 DEF HoldsOK, Executing, Unrecorded
  <1>3. HoldsOK(p)'
    <2>1. ASSUME NEW l \in {"auth", "push", "open"}, Move(p, l)
          PROVE  HoldsOK(p)'
      <3>1. pc'[p] = l /\ obj' = obj
        BY <2>1, PublishFacts DEF Move, GoTo
      <3> QED
        BY <1>2, <2>1, <3>1 DEF HoldsOK, Executing, Unrecorded, Updating
    <2>2. ASSUME NEW u \in RecordOps, NEW o \in Objects, Update(p, o, u), o.last = obj[p].last
          PROVE  HoldsOK(p)'
      <3>1. obj'[p] = o /\ op'[p] = u
        BY <2>2, PublishFacts DEF Update
      <3> QED
        BY <1>2, <2>2, <3>1 DEF HoldsOK, RecordOps
    <2> QED
      BY <1>1, <2>1, <2>2
  <1>4. ASSUME NEW q \in Procs, q # p PROVE Apart(q)
    <2>1. CASE \E l : Move(p, l)
      BY <1>1, <1>4, <2>1, WorkerApart DEF Move
    <2>2. CASE \E o, u : Update(p, o, u)
      BY <1>1, <1>4, <2>2, WorkerApart
    <2> QED
      BY <1>1, <2>1, <2>2
  <1> QED
    BY <1>1, <1>3, <1>4, PublishKept

(* What the user writes: no times.                                         *)
LEMMA UserKeepsTimes ==
  ASSUME IInv, UserEdit \/ UserDelete
  PROVE  \E o \in Objects : /\ Write(o) /\ ~Current.gone
                            /\ o.last = Current.last /\ o.next = Current.next
  <1>1. Current \in Objects
    BY CurrentOK
  <1>2. CASE UserEdit
    <2>1. PICK s \in Specs :
              Write([Current EXCEPT !.suspend = s.suspend, !.valid = s.valid])
      BY <1>2 DEF UserEdit
    <2>2. s \in [suspend: BOOLEAN, valid: BOOLEAN]
      BY ScheduleAssumption
    <2> DEFINE o == [Current EXCEPT !.suspend = s.suspend, !.valid = s.valid]
    <2>3. o \in Objects /\ o.last = Current.last /\ o.next = Current.next
      BY <1>1, <2>2 DEF Objects
    <2> QED
      BY <1>2, <2>1, <2>3 DEF UserEdit
  <1>3. CASE UserDelete
    <2> DEFINE o == [Current EXCEPT !.gone = TRUE]
    <2>1. o \in Objects /\ o.last = Current.last /\ o.next = Current.next
      BY <1>1 DEF Objects
    <2> QED
      BY <1>3, <2>1 DEF UserDelete
  <1> QED
    BY <1>2, <1>3

LEMMA EnvironmentPublish ==
  ASSUME IInv, PublishOK,
         \/ \E p \in Procs : Watch(p) \/ Timer(p) \/ Crash(p)
         \/ Tick \/ UserEdit \/ UserDelete \/ UserCloses \/ UNCHANGED vars
  PROVE  PublishOK'
  <1>1. ASSUME NEW p \in Procs, Crash(p) PROVE PublishOK'
    <2>1. Leave(p) /\ UNCHANGED versions
      BY <1>1 DEF Crash, Relist
    <2>2. \A q \in Procs : q # p => Apart(q)
      BY <2>1, WorkerApart
    <2>3. HoldsOK(p)'
      BY <2>1, LeaveHolds
    <2> QED
      BY <2>1, <2>2, <2>3, PublishKept
  <1>2. CASE UNCHANGED <<versions, workerVars>>
    <2>1. \A q \in Procs : Apart(q)
      BY <1>2 DEF workerVars, Apart
    <2> QED
      BY <1>2, <2>1, PublishKept
  <1>3. CASE UserEdit \/ UserDelete
    <2>1. PICK o \in Objects : /\ Write(o)
                               /\ o.last = Current.last /\ o.next = Current.next
      BY <1>3, UserKeepsTimes
    <2>2. LastKept(o)
      <3>1. RV \in 1 .. RV
        BY CurrentOK
      <3> QED
        BY <2>1, <3>1 DEF PublishOK, LastKept, Current
    <2>3. \A q \in Procs : Apart(q)
      BY <1>3 DEF UserEdit, UserDelete, workerVars, Apart
    <2> QED
      BY <2>1, <2>2, <2>3, PublishKept
  <1> QED
    BY <1>1, <1>2, <1>3
       DEF Watch, Timer, Deliver, TimerFire, Tick, UserCloses, vars, kubeVars

LEMMA InitPublish == Init => PublishOK
  <1> SUFFICES ASSUME Init PROVE PublishOK
    OBVIOUS
  <1>1. PICK s \in Specs : KubeInit(NewObject(s))
    BY DEF Init
  <1>2. versions = <<NewObject(s)>> /\ NewObject(s).last = 0 /\ NewObject(s).next = 0
    BY <1>1 DEF KubeInit, NewObject
  <1>3. \A q \in Procs : pc[q] = "idle"
    BY DEF Init, ScheduleInit
  <1> QED
    BY <1>2, <1>3 DEF PublishOK, HoldsOK, Updating, Executing, Unrecorded, RV, Current

LEMMA PublishNextStep == IInv /\ PublishOK /\ [Next]_vars => PublishOK'
  <1> SUFFICES ASSUME IInv, PublishOK, [Next]_vars PROVE PublishOK'
    OBVIOUS
  <1>1. CASE \E p \in Procs : Step(p)
    BY <1>1, ReconcilePublish, GetPublish, PutPublish, ExecutePublish DEF Step
  <1>2. CASE \/ \E p \in Procs : Delivered(p) \/ Elapsed(p)
             \/ Ticked \/ UNCHANGED vars
    BY <1>2, EnvironmentPublish DEF Delivered, Elapsed, Ticked
  <1>3. CASE Environment
    BY <1>3, EnvironmentPublish, PutPublish, ExecutePublish DEF Environment
  <1> QED
    BY <1>1, <1>2, <1>3 DEF Next

LEMMA PublishInvariance == Spec => []PublishOK
  BY InitPublish, PublishNextStep, Invariance, PTL DEF Spec

-----------------------------------------------------------------------------
(* The schedule moves on: the next run is later.                           *)
LEMMA NextRunLater ==
  ASSUME NEW t \in Nat
  PROVE  NextRun(t) \in Nat /\ t < NextRun(t)
  <1> DEFINE n == NextRun(t)
             a == n \div Period
             b == t \div Period
  <1>1. n \in Nat /\ a = b + 1 /\ Period \in Nat \ {0}
    BY NextRunType, NextRunSlot, ScheduleAssumption
  <1>2. a \in Nat /\ b \in Nat
    BY <1>1, DivDef
  <1>3. n <= t => a <= b
    BY <1>1, DivLe
  <1> HIDE DEF n, a, b
  <1>4. t < n
    BY <1>1, <1>2, <1>3
  <1> QED
    BY <1>1, <1>4 DEF n

(* Apart, and nothing of q is queued or delivered or taken.                *)
Aside(q) ==
    Apart(q) /\ dirty'[q] = dirty[q] /\ timer'[q] = timer[q] /\ cached'[q] = cached[q]

MishapsGrow == crashes' \in Nat /\ faults' \in Nat /\ crashes <= crashes' /\ faults <= faults'

LEMMA AlertWritten ==
  ASSUME IInv, NEW q \in Procs, NEW o \in Objects, Write(o), cached'[q] = cached[q]
  PROVE  Alert(q)'
  <1>1. RV \in Nat /\ RV' = RV + 1 /\ cached[q] \in 1 .. RV
    BY WriteType, PublishFacts
  <1> QED
    BY <1>1 DEF Alert

LEMMA MoreMishaps ==
  ASSUME NEW a \in Nat, NEW b \in Nat, NEW c \in Nat, NEW d \in Nat, a <= c, b <= d
  PROVE  (a + b >= 1 => c + d >= 1) /\ (a + b >= 2 => c + d >= 2)
  OBVIOUS

LEMMA AsideQuiet ==
  ASSUME IInv, NEW q \in Procs, QuietOK(q), Aside(q), MishapsGrow,
         UNCHANGED versions \/ \E o \in Objects : Write(o)
  PROVE  QuietOK(q)'
  <1>1. CASE \E o \in Objects : Write(o)
    BY <1>1, AlertWritten DEF Aside, QuietOK
  <1>2. CASE UNCHANGED versions
    <2>1. RV' = RV /\ Current' = Current
      BY <1>2 DEF RV, Current
    <2>2. Alert(q)' <=> Alert(q)
      BY <2>1 DEF Alert, Aside
    <2>3. /\ Executing(q)' <=> Executing(q)
          /\ Unrecorded(q)' <=> Unrecorded(q)
          /\ Updating(q)' <=> Updating(q)
          /\ At(q, "put")' <=> At(q, "put")
          /\ At(q, "idle")' <=> At(q, "idle")
      BY DEF Aside, Apart, Executing, Unrecorded, Updating, At
    <2>4. /\ fresh'[q] = fresh[q] /\ start'[q] = start[q] /\ op'[q] = op[q]
      BY DEF Aside, Apart
    <2>5. /\ crashes + faults >= 1 => crashes' + faults' >= 1
          /\ crashes + faults >= 2 => crashes' + faults' >= 2
      <3>1. crashes \in Nat /\ faults \in Nat
        BY PublishFacts
      <3> QED
        BY <3>1, MoreMishaps DEF MishapsGrow
    <2> QED
      BY <2>1, <2>2, <2>3, <2>4, <2>5 DEF QuietOK
  <1> QED
    BY <1>1, <1>2

LEMMA AwakeKept ==
  ASSUME IInv, AwakeOK, NEW p \in Procs, QuietOK(p)', MishapsGrow,
         \A q \in Procs : q # p => Aside(q),
         UNCHANGED versions \/ \E o \in Objects : Write(o)
  PROVE  AwakeOK'
  <1>1. ASSUME NEW q \in Procs, q # p PROVE QuietOK(q)'
    BY <1>1, AsideQuiet DEF AwakeOK
  <1> QED
    BY <1>1 DEF AwakeOK

(* A process that hears nothing new has read everything.                   *)
LEMMA QuietReads ==
  ASSUME IInv, NEW p \in Procs, cached[p] >= RV
  PROVE  Seen(p) = RV /\ View(p) = Current
  BY PublishFacts DEF Seen, View, Current

LEMMA ReconcileAwake ==
  ASSUME IInv, PublishOK, AwakeOK, NEW p \in Procs, Reconcile(p)
  PROVE  AwakeOK'
  <1>1. /\ UNCHANGED <<versions, cached, crashes, faults>>
        /\ dirty' = [dirty EXCEPT ![p] = FALSE] /\ pc[p] = "idle"
    BY DEF Reconcile, ReconcileGone, ReconcileSuspended, ReconcileInvalid, Scheduled,
       ReconcileWait, ReconcileRun, Begin, TakeKey, At
  <1>2. RV' = RV /\ Current' = Current /\ RV \in Nat /\ cached[p] \in Nat
    BY <1>1, PublishFacts DEF RV, Current
  <1>3. ~Alert(p)' => View(p) = Current /\ ~Current.gone
    BY <1>1, <1>2, QuietReads DEF Alert
  <1>4. ASSUME NEW o, NEW u \in {"suspended", "invalid", "wait"}, Update(p, o, u)
        PROVE  QuietOK(p)'
    <2>1. pc'[p] = "get" /\ op'[p] = u
      BY <1>4, PublishFacts DEF Update, GoTo
    <2> QED
      BY <1>4, <2>1 DEF QuietOK, At, Executing, Unrecorded, Updating, RecordOps
  <1>5. QuietOK(p)'
    <2>1. CASE ReconcileGone(p)
      BY <1>3, <2>1 DEF ReconcileGone, QuietOK
    <2>2. CASE ReconcileSuspended(p) \/ ReconcileInvalid(p)
      BY <1>4, <2>2 DEF ReconcileSuspended, ReconcileInvalid
    <2>3. CASE ReconcileWait(p)
      <3>1. CASE View(p).next # NextRun(now)
        BY <1>4, <2>3, <3>1 DEF ReconcileWait
      <3>2. CASE View(p).next = NextRun(now)
        <4>1. RequeueAt(p, WaitUntil(NextRun(now)))
          BY <2>3, <3>2 DEF ReconcileWait
        <4> QED
          BY <4>1, TimerAlerts, PublishFacts DEF QuietOK
      <3> QED
        BY <3>1, <3>2
    <2>4. CASE ReconcileRun(p)
      <3>1. /\ pc'[p] = "get" /\ op'[p] = "running" /\ start'[p] = now
            /\ ShouldExecute(View(p))
        BY <2>4, PublishFacts DEF ReconcileRun, Update, GoTo
      <3>2. Current.last = 0 => Current.next = 0
        <4>1. RV \in 1 .. RV
          BY CurrentOK
        <4> QED
          BY <4>1 DEF PublishOK, Current
      <3>3. ~Alert(p)' => Current.next <= now
        BY <1>3, <3>1, <3>2, PublishFacts DEF ShouldExecute
      <3> QED
        BY <1>2, <3>1, <3>3 DEF QuietOK, At, Executing, Unrecorded, Updating, RecordOps
    <2> QED
      BY <2>1, <2>2, <2>3, <2>4 DEF Reconcile
  <1>6. ASSUME NEW q \in Procs, q # p PROVE Aside(q)
    <2>1. Apart(q)
      BY <1>1, <1>6, PublishFacts
         DEF Reconcile, ReconcileGone, ReconcileSuspended, ReconcileInvalid,
             ReconcileWait, ReconcileRun, Update, GoTo, workerVars, Apart
    <2>2. timer'[q] = timer[q]
      BY <1>6, PublishFacts
         DEF Reconcile, ReconcileGone, ReconcileSuspended, ReconcileInvalid,
             ReconcileWait, ReconcileRun, NoRequeue, RequeueAt, Requeue
    <2> QED
      BY <1>1, <1>6, <2>1, <2>2, PublishFacts DEF Aside
  <1>7. MishapsGrow
    BY <1>1, PublishFacts DEF MishapsGrow
  <1> QED
    BY <1>1, <1>5, <1>6, <1>7, AwakeKept

LEMMA GetAwake ==
  ASSUME IInv, AwakeOK, NEW p \in Procs, GetOk(p) \/ PutConflict(p)
  PROVE  AwakeOK'
  <1>1. /\ UNCHANGED <<versions, cached, dirty, timer, op, start, crashes, faults>>
        /\ pc[p] \in {"get", "put"} /\ pc'[p] \in {"get", "put"}
    BY PublishFacts DEF GetOk, PutConflict, Conflict, At, GoTo, NoRequeue, boundVars
  <1>2. /\ RV' = RV /\ Current' = Current /\ (Alert(p)' <=> Alert(p))
        /\ RV \in Nat /\ cached[p] \in 1 .. RV
    BY <1>1, PublishFacts DEF RV, Current, Alert
  <1>3. ~Alert(p)' => QuietOK(p)'
    <2> SUFFICES ASSUME ~Alert(p) PROVE QuietOK(p)'
      BY <1>2
    <2>1. At(p, "put")' => fresh'[p] = RV
      <3>1. CASE GetOk(p)
        <4>1. fresh'[p] = Seen(p)
          BY <3>1, PublishFacts DEF GetOk
        <4>2. Seen(p) = RV
          BY <1>2, QuietReads DEF Alert
        <4> QED
          BY <4>1, <4>2
      <3>2. CASE PutConflict(p)
        BY <3>2 DEF PutConflict, Conflict, AwakeOK, QuietOK
      <3> QED
        BY <3>1, <3>2
    <2>2. QuietOK(p)
      BY DEF AwakeOK
    <2> QED
      BY <1>1, <1>2, <2>1, <2>2 DEF QuietOK, At, Executing, Unrecorded, Updating
  <1>4. ASSUME NEW q \in Procs, q # p PROVE Aside(q)
    BY <1>1, <1>4, WorkerApart DEF Aside
  <1>5. MishapsGrow
    BY <1>1, PublishFacts DEF MishapsGrow
  <1>6. QuietOK(p)'
    BY <1>3 DEF QuietOK
  <1> QED
    BY <1>1, <1>4, <1>5, <1>6, AwakeKept

LEMMA ExecuteAwake ==
  ASSUME IInv, AwakeOK, NEW p \in Procs,
         Rest(p) \/ Auth(p) \/ Push(p) \/ PushFailed(p) \/ Opened(p) \/ OpenFailed(p)
           \/ OpenLost(p)
  PROVE  AwakeOK'
  <1>1. /\ pc[p] \in {"rest", "auth", "push", "open"}
        /\ UNCHANGED <<versions, cached, dirty, timer, start, crashes>>
        /\ faults' \in Nat /\ faults <= faults'
        /\ \/ (\E l \in {"auth", "push", "open"} : Move(p, l))
           \/ \E u \in RecordOps, o \in Objects : Update(p, o, u) /\ o.last = obj[p].last
    BY ExecuteSteps DEF kubeVars
  <1>2. /\ Current' = Current /\ (Alert(p)' <=> Alert(p)) /\ QuietOK(p)
    BY <1>1 DEF RV, Current, Alert, AwakeOK
  <1>3. QuietOK(p)'
    <2>1. ASSUME NEW l \in {"auth", "push", "open"}, Move(p, l)
          PROVE  QuietOK(p)'
      <3>1. pc'[p] = l
        BY <2>1, PublishFacts DEF Move, GoTo
      <3> QED
        BY <1>1, <1>2, <2>1, <3>1 DEF QuietOK, At, Executing, Unrecorded, Updating
    <2>2. ASSUME NEW u \in RecordOps, NEW o \in Objects, Update(p, o, u)
          PROVE  QuietOK(p)'
      <3>1. pc'[p] = "get" /\ op'[p] = u
        BY <2>2, PublishFacts DEF Update, GoTo
      <3> QED
        BY <1>1, <1>2, <2>2, <3>1
           DEF QuietOK, At, Executing, Unrecorded, Updating, RecordOps
    <2> QED
      BY <1>1, <2>1, <2>2
  <1>4. ASSUME NEW q \in Procs, q # p PROVE Aside(q)
    <2>1. CASE \E l : Move(p, l)
      BY <1>1, <1>4, <2>1, WorkerApart DEF Move, Aside
    <2>2. CASE \E o, u : Update(p, o, u)
      BY <1>1, <1>4, <2>2, WorkerApart DEF Aside
    <2> QED
      BY <1>1, <2>1, <2>2
  <1>5. MishapsGrow
    BY <1>1, PublishFacts DEF MishapsGrow
  <1> QED
    BY <1>1, <1>3, <1>4, <1>5, AwakeKept

(* What an update requeues.                                                *)
LEMMA FailedRequeues ==
  ASSUME NEW p, op[p] \in Ops, UpdateFailed(p)
  PROVE  /\ NoRequeue \/ \E t : RequeueAt(p, t)
         /\ op[p] \in StatusOps \cup {"wait"} => \E t : RequeueAt(p, t)
  <1>1. CASE op[p] \in RecordOps
    <2>1. PublishNext(p, obj[p]) /\ op[p] \notin StatusOps \cup {"wait"}
      BY <1>1 DEF UpdateFailed, RecordOps, StatusOps
    <2> QED
      BY <2>1 DEF PublishNext
  <1>2. CASE op[p] \in {"nextCreated", "nextOther"}
    <2>1. op[p] \notin RecordOps /\ op[p] \notin StatusOps \cup {"wait"}
      BY <1>2 DEF RecordOps, StatusOps
    <2>2. EndExecution(p)
      BY <1>2, <2>1 DEF UpdateFailed
    <2> QED
      BY <2>1, <2>2 DEF EndExecution, RequeueIfAhead
  <1>3. CASE op[p] \in StatusOps \cup {"wait"}
    <2>1. op[p] \notin RecordOps /\ op[p] \notin {"nextCreated", "nextOther"}
      BY <1>3 DEF RecordOps, StatusOps
    <2>2. ReturnError(p)
      BY <1>3, <2>1 DEF UpdateFailed
    <2> QED
      BY <2>2 DEF ReturnError
  <1> QED
    BY <1>1, <1>2, <1>3 DEF Ops, NextOps

LEMMA DoneRequeues ==
  ASSUME NEW p, op[p] \in Ops, NEW o, UpdateDone(p, o)
  PROVE  /\ NoRequeue \/ \E t : RequeueAt(p, t)
         /\ op[p] \in {"suspended", "invalid", "wait"} => \E t : RequeueAt(p, t)
  <1>1. CASE op[p] \in RecordOps \cup {"running"}
    <2>1. NoRequeue
      BY <1>1, AfterUpdateDone
    <2> QED
      BY <1>1, <2>1 DEF RecordOps
  <1>2. CASE op[p] \in {"nextCreated", "nextOther"}
    <2>1. EndExecution(p)
      BY <1>2 DEF UpdateDone, RecordOps
    <2> QED
      BY <1>2, <2>1 DEF EndExecution, RequeueIfAhead
  <1>3. CASE op[p] \in {"suspended", "invalid", "wait"}
    <2>1. \/ RequeueAt(p, WaitUntil(NextRun(start[p])))
          \/ RequeueAt(p, now + MinWait) \/ ReturnError(p)
      BY <1>3 DEF UpdateDone, RecordOps
    <2> QED
      BY <2>1 DEF ReturnError
  <1> QED
    BY <1>1, <1>2, <1>3 DEF Ops, StatusOps, NextOps

(* An update that is given up is given up because of news.                 *)
LEMMA ExhaustedAlert ==
  ASSUME IInv, AwakeOK, NEW p \in Procs, Exhausted(p)
  PROVE  Alert(p)
  <1>1. CASE At(p, "get") /\ View(p).gone
    <2>1. RV \in Nat /\ cached[p] \in Nat
      BY PublishFacts
    <2> QED
      BY <1>1, <2>1, QuietReads DEF Alert
  <1>2. CASE At(p, "put") /\ Current.gone
    BY <1>2 DEF Alert
  <1>3. CASE Conflict(p)
    BY <1>3 DEF Conflict, AwakeOK, QuietOK
  <1> QED
    BY <1>1, <1>2, <1>3 DEF Exhausted

LEMMA PutAwake ==
  ASSUME IInv, PublishOK, AwakeOK, NEW p \in Procs,
         PutOk(p) \/ PutFailed(p) \/ PutFault(p)
  PROVE  AwakeOK'
  <1> DEFINE w == Written(p)
  <1>1. /\ UNCHANGED <<cached, dirty, crashes>> /\ Updating(p)
        /\ \/ UNCHANGED versions
           \/ At(p, "put") /\ Accepted(p) /\ Store(w)
        /\ \/ UpdateFailed(p)
           \/ UpdateDone(p, w) /\ At(p, "put") /\ Accepted(p) /\ Store(w)
        /\ \/ PutOk(p) /\ UpdateDone(p, w) /\ At(p, "put") /\ Accepted(p) /\ Store(w)
           \/ UpdateFailed(p) /\ Exhausted(p) /\ UNCHANGED versions
           \/ UpdateFailed(p) /\ faults' = faults + 1
    BY DEF PutOk, PutFailed, PutFault, Exhausted, Conflict, At, Updating, boundVars, Fault
  <1>2. /\ op[p] \in Ops /\ pc \in [Procs -> PCs] /\ timer \in [Procs -> BOOLEAN]
        /\ op \in [Procs -> Ops] /\ obj \in [Procs -> Objects] /\ start \in [Procs -> Nat]
        /\ start[p] \in Nat /\ crashes \in Nat /\ faults \in Nat /\ QuietOK(p)
        /\ versions \in Seq(Objects) /\ cached \in [Procs -> 1 .. RV] /\ RV >= 1
        /\ Current \in Objects /\ Current.next \in Nat
    BY PublishFacts DEF AwakeOK
  <1>3. MishapsGrow
    BY <1>1, <1>2 DEF MishapsGrow, PutOk, boundVars, Exhausted
  <1>4. /\ NoRequeue \/ \E t : RequeueAt(p, t)
        /\ op[p] \in {"suspended", "invalid", "wait"} => Alert(p)'
        /\ UpdateFailed(p) /\ op[p] \in StatusOps \cup {"wait"} => Alert(p)'
    <2>1. (\E t : RequeueAt(p, t)) => Alert(p)'
      BY <1>2, TimerAlerts
    <2>2. CASE UpdateFailed(p)
      BY <1>2, <2>1, <2>2, FailedRequeues DEF StatusOps
    <2>3. CASE UpdateDone(p, w) /\ ~UpdateFailed(p)
      BY <1>2, <2>1, <2>3, DoneRequeues
    <2> QED
      BY <1>1, <2>2, <2>3
  <1>5. At(p, "put") /\ Accepted(p) => w \in Objects
    BY WrittenOK
  <1>6. ASSUME Alert(p) PROVE Alert(p)'
    <2>1. CASE UNCHANGED versions
      BY <1>1, <1>2, <1>4, <1>6, <2>1, AlertKept
    <2>2. CASE At(p, "put") /\ Accepted(p) /\ Store(w)
      BY <1>1, <1>2, <1>4, <1>5, <1>6, <2>2, AlertKept DEF Accepted
    <2> QED
      BY <1>1, <2>1, <2>2
  <1>7. ASSUME ~Alert(p)' PROVE UNCHANGED versions /\ ~Alert(p)
    <2>1. ASSUME At(p, "put"), Accepted(p), Store(w), w # Current PROVE FALSE
      BY <1>1, <1>2, <1>5, <1>7, <2>1, StoreAlerts
    <2> QED
      BY <1>1, <1>6, <1>7, <2>1 DEF Store
  <1>8. ASSUME ~Alert(p)', PutOk(p) PROVE QuietOK(p)'
    <2>1. /\ At(p, "put") /\ Accepted(p) /\ Store(w) /\ UpdateDone(p, w)
          /\ w \in Objects /\ UNCHANGED versions /\ ~Alert(p)
      BY <1>5, <1>7, <1>8 DEF PutOk
    <2>2. w = Current /\ Current' = Current
      BY <1>2, <2>1, StoreCurrent DEF Current, RV
    <2>3. op[p] \notin {"suspended", "invalid", "wait"}
      BY <1>4, <1>8
    <2>4. op[p] \notin RecordOps
      BY <1>2, <2>1, <2>2, WrittenPublish DEF QuietOK, Unrecorded, At, Updating
    <2>5. op[p] \notin {"nextCreated", "nextOther"}
      <3> SUFFICES ASSUME op[p] \in {"nextCreated", "nextOther"} PROVE FALSE
        OBVIOUS
      <3>1. Current.next <= start[p]
        BY <1>1, <1>2, <2>1 DEF QuietOK, Executing
      <3>2. Current.next = NextRun(start[p])
        BY <2>1, <2>2, WrittenPublish DEF NextOps
      <3> QED
        BY <1>2, <3>1, <3>2, NextRunLater
    <2>6. op[p] = "running"
      BY <1>2, <2>3, <2>4, <2>5 DEF Ops, StatusOps, NextOps
    <2>7. pc'[p] = "rest" /\ start' = start
      BY <1>2, <2>1, <2>6, AfterUpdateDone DEF GoTo
    <2>8. Current.next <= start[p] /\ Current.phase = "Running"
      <3>1. Current.phase = "Running"
        BY <2>1, <2>2, <2>6, WrittenPublish
      <3> QED
        BY <1>1, <1>2, <2>1, <2>6, <3>1 DEF QuietOK
    <2> QED
      BY <2>2, <2>7, <2>8 DEF QuietOK, At, Executing, Unrecorded, Updating
  <1>9. ASSUME ~Alert(p)', UpdateFailed(p), faults' = faults + 1 PROVE QuietOK(p)'
    <2>1. UNCHANGED versions /\ ~Alert(p) /\ op[p] \notin StatusOps \cup {"wait"}
      BY <1>4, <1>7, <1>9
    <2>2. Current' = Current
      BY <2>1 DEF Current, RV
    <2>3. CASE op[p] \in RecordOps
      <3>1. PICK u \in {"nextCreated", "nextOther"} :
                Update(p, obj[p], u) /\ UNCHANGED start
        BY <1>2, <1>9, <2>3, AfterUpdateFailed
      <3>2. pc'[p] = "get" /\ op'[p] = u
        BY <1>2, <3>1 DEF Update, GoTo
      <3>3. Current.next <= start[p]
        BY <1>1, <1>2, <2>1, <2>3 DEF QuietOK, Executing, Unrecorded
      <3>4. crashes' + faults' >= 1
        BY <1>1, <1>2, <1>9
      <3> QED
        BY <2>2, <3>1, <3>2, <3>3, <3>4
           DEF QuietOK, At, Executing, Unrecorded, Updating, RecordOps
    <2>4. CASE op[p] \in {"nextCreated", "nextOther"}
      <3>1. op[p] \notin RecordOps
        BY <2>4 DEF RecordOps
      <3>2. pc'[p] = "idle"
        BY <1>2, <1>9, <3>1, AfterUpdateFailed DEF Leave, GoTo
      <3>3. crashes + faults >= 1
        BY <1>1, <1>2, <2>1, <2>4 DEF QuietOK
      <3>4. crashes' + faults' >= 2
        BY <1>1, <1>2, <1>9, <3>3
      <3> QED
        BY <3>2, <3>4 DEF QuietOK, At, Executing, Unrecorded, Updating
    <2> QED
      BY <1>2, <2>1, <2>3, <2>4 DEF Ops, NextOps
  <1>10. QuietOK(p)'
    <2>1. Exhausted(p) => Alert(p)'
      BY <1>6, ExhaustedAlert
    <2>2. Alert(p)' => QuietOK(p)'
      BY DEF QuietOK
    <2> QED
      BY <1>1, <1>8, <1>9, <2>1, <2>2
  <1>11. ASSUME NEW q \in Procs, q # p PROVE Aside(q)
    <2>1. Apart(q)
      <3>1. CASE Leave(p) \/ (UNCHANGED start /\ \E o, u : Update(p, o, u))
        BY <1>11, <3>1, WorkerApart
      <3>2. CASE /\ GoTo(p, "rest") /\ obj' = [obj EXCEPT ![p] = w]
                 /\ UNCHANGED <<start, fresh, op>>
        BY <1>11, <3>2, WorkerApart
      <3>3. CASE UpdateFailed(p)
        BY <1>2, <3>1, <3>3, AfterUpdateFailed
      <3>4. CASE UpdateDone(p, w)
        BY <1>2, <3>1, <3>2, <3>4, AfterUpdateDone
      <3> QED
        BY <1>1, <3>3, <3>4
    <2>2. timer'[q] = timer[q]
      BY <1>2, <1>4, <1>11 DEF NoRequeue, RequeueAt, Requeue
    <2> QED
      BY <1>1, <2>1, <2>2 DEF Aside
  <1>12. UNCHANGED versions \/ \E o \in Objects : Write(o)
    BY <1>1, <1>5 DEF Store
  <1> QED
    BY <1>3, <1>10, <1>11, <1>12, AwakeKept

LEMMA EnvironmentAwake ==
  ASSUME IInv, AwakeOK,
         \/ \E p \in Procs : Watch(p) \/ Timer(p) \/ Crash(p)
         \/ Tick \/ UserEdit \/ UserDelete \/ UserCloses \/ UNCHANGED vars
  PROVE  AwakeOK'
  <1>1. ASSUME NEW p \in Procs, Watch(p) \/ Timer(p) \/ Crash(p) PROVE AwakeOK'
    <2>1. /\ UNCHANGED <<versions, faults>>
          /\ crashes' = crashes \/ crashes' = crashes + 1
          /\ UNCHANGED workerVars \/ Leave(p)
      BY <1>1 DEF Watch, Timer, Crash, Deliver, TimerFire, Relist, boundVars
    <2>2. MishapsGrow
      BY <2>1, PublishFacts DEF MishapsGrow
    <2>3. Alert(p)'
      <3>1. dirty'[p] \/ Current'.gone
        BY <1>1, <2>1, PublishFacts
           DEF Watch, Timer, Crash, Deliver, TimerFire, Relist, Current, RV
      <3> QED
        BY <3>1 DEF Alert
    <2>4. ASSUME NEW q \in Procs, q # p PROVE Aside(q)
      <3>1. Apart(q)
        <4>1. CASE Leave(p)
          BY <2>4, <4>1, WorkerApart
        <4>2. CASE UNCHANGED workerVars
          BY <4>2 DEF workerVars, Apart
        <4> QED
          BY <2>1, <4>1, <4>2
      <3>2. dirty'[q] = dirty[q] /\ timer'[q] = timer[q] /\ cached'[q] = cached[q]
        BY <1>1, <2>4, PublishFacts DEF Watch, Timer, Crash, Deliver, TimerFire, Relist
      <3> QED
        BY <3>1, <3>2 DEF Aside
    <2> QED
      BY <2>1, <2>2, <2>3, <2>4, AwakeKept DEF QuietOK
  <1>2. CASE Tick \/ UserCloses \/ UserEdit \/ UserDelete \/ UNCHANGED vars
    <2>1. ASSUME NEW q \in Procs PROVE QuietOK(q)'
      <3>1. Aside(q)
        BY <1>2 DEF Tick, UserCloses, UserEdit, UserDelete, vars, kubeVars, workerVars,
           Aside, Apart
      <3>2. UNCHANGED <<crashes, faults>>
        BY <1>2 DEF Tick, UserCloses, UserEdit, UserDelete, vars, boundVars
      <3>3. UNCHANGED versions \/ \E o \in Objects : Write(o)
        <4>1. CASE UserEdit \/ UserDelete
          BY <4>1, UserKeepsTimes
        <4>2. CASE Tick \/ UserCloses \/ UNCHANGED vars
          BY <4>2 DEF Tick, UserCloses, vars, kubeVars
        <4> QED
          BY <1>2, <4>1, <4>2
      <3>4. MishapsGrow
        BY <3>2, PublishFacts DEF MishapsGrow
      <3> QED
        BY <3>1, <3>3, <3>4, AsideQuiet DEF AwakeOK
    <2> QED
      BY <2>1 DEF AwakeOK
  <1> QED
    BY <1>1, <1>2

LEMMA InitAwake == Init => AwakeOK
  <1> SUFFICES ASSUME Init PROVE AwakeOK
    OBVIOUS
  <1>1. \A q \in Procs : dirty[q]
    BY DEF Init, KubeInit
  <1> QED
    BY <1>1 DEF AwakeOK, QuietOK, Alert

LEMMA AwakeNext == IInv /\ PublishOK /\ AwakeOK /\ [Next]_vars => AwakeOK'
  <1> SUFFICES ASSUME IInv, PublishOK, AwakeOK, [Next]_vars PROVE AwakeOK'
    OBVIOUS
  <1>1. CASE \E p \in Procs : Step(p)
    BY <1>1, ReconcileAwake, GetAwake, PutAwake, ExecuteAwake DEF Step
  <1>2. CASE \/ \E p \in Procs : Delivered(p) \/ Elapsed(p)
             \/ Ticked \/ UNCHANGED vars
    BY <1>2, EnvironmentAwake DEF Delivered, Elapsed, Ticked
  <1>3. CASE Environment
    BY <1>3, EnvironmentAwake, PutAwake, ExecuteAwake DEF Environment
  <1> QED
    BY <1>1, <1>2, <1>3 DEF Next

(* No lost wake-up in handleScheduledPullRequest, with any number of       *)
(* processes and on caches however old: a process that is idle with        *)
(* nothing queued, delivered or pending has lost two calls or restarts.    *)
THEOREM NobodySleeps == Spec => []NeverAsleep
  <1>1. IInv /\ AwakeOK => NeverAsleep
    <2> SUFFICES ASSUME IInv, AwakeOK, NEW p \in Procs, Asleep(p)
                 PROVE  crashes + faults >= 2
      BY DEF NeverAsleep
    <2>1. ~Alert(p)
      BY PublishFacts DEF Asleep, Alert
    <2> QED
      BY <2>1 DEF AwakeOK, QuietOK, Asleep
  <1> QED
    BY <1>1, InitAwake, AwakeNext, PublishInvariance, Invariance, PTL DEF Spec
=============================================================================
