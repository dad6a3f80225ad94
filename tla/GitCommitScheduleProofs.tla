---------------------- MODULE GitCommitScheduleProofs -----------------------
(***************************************************************************)
(* Theorems about GitCommitSchedule, for any period, history limit and     *)
(* bounds: types and the records of a history for any number of replicas   *)
(* on caches that lag, the order of a history for one; the accounts of     *)
(* runs, the wake-ups and what stays published for one whose reads are     *)
(* current.                                                                *)
(***************************************************************************)
EXTENDS GitCommitSchedule, ScheduledObjectProofs

-----------------------------------------------------------------------------
(* Histories.                                                              *)

LEMMA RecordFirst ==
  ASSUME NEW h \in Seq(Records), NEW r \in Records
  PROVE  /\ Recorded(h, r) \in Seq(Records) /\ Len(h) \in Nat
         /\ Len(Recorded(h, r)) \in 1 .. MaxHistory
         /\ Len(h) + 1 <= MaxHistory => Len(Recorded(h, r)) = Len(h) + 1
         /\ MaxHistory <= Len(h) => Len(Recorded(h, r)) = MaxHistory
         /\ Recorded(h, r)[1] = r
         /\ \A i \in 2 .. Len(Recorded(h, r)) :
                i - 1 \in 1 .. Len(h) /\ Recorded(h, r)[i] = h[i - 1]
  BY RecordedType

(* A sound record in front of a sound history.                             *)
LEMMA RecordedOK ==
  ASSUME NEW h \in Seq(Records), NEW r \in Records, NEW n \in Nat,
         HistoryOK(h, n), r.sha <= n, (r.phase = "Committed") <=> (r.sha > 0)
  PROVE  /\ Recorded(h, r) \in Seq(Records)
         /\ HistoryOK(Recorded(h, r), n)
  <1> DEFINE g == Recorded(h, r)
  <1>1. /\ g \in Seq(Records) /\ Len(g) <= MaxHistory /\ g[1] = r
        /\ \A i \in 2 .. Len(g) : i - 1 \in 1 .. Len(h) /\ g[i] = h[i - 1]
    BY RecordFirst
  <1> HIDE DEF g
  <1>2. ASSUME NEW i \in DOMAIN g
        PROVE  g[i].sha <= n /\ ((g[i].phase = "Committed") <=> (g[i].sha > 0))
    <2>1. i = 1 \/ i \in 2 .. Len(g)
      BY <1>1
    <2>2. CASE i = 1
      BY <1>1, <2>2
    <2>3. CASE i \in 2 .. Len(g)
      BY <1>1, <2>3 DEF HistoryOK
    <2> QED
      BY <2>1, <2>2, <2>3
  <1>3. HistoryOK(g, n)
    BY <1>1, <1>2 DEF HistoryOK
  <1> QED
    BY <1>1, <1>3 DEF g

LEMMA HistoryGrows ==
  ASSUME NEW h \in Seq(Records), NEW n \in Nat, NEW m \in Nat, n <= m, HistoryOK(h, n)
  PROVE  HistoryOK(h, m)
  <1>1. \A i \in DOMAIN h : h[i].sha \in Nat
    <2>1. \A i \in DOMAIN h : h[i] \in Records
      OBVIOUS
    <2> QED
      BY <2>1 DEF Records
  <1> QED
    BY <1>1 DEF HistoryOK

-----------------------------------------------------------------------------
(* Objects.                                                                *)

LEMMA NewObjectType ==
  ASSUME NEW s \in Specs, NEW c \in CallsBefore
  PROVE  /\ NewObject(s, c) \in Objects
         /\ \A n \in Nat : HistoryOK(NewObject(s, c).hist, n)
  <1>1. s \in [suspend: BOOLEAN, valid: BOOLEAN] /\ c \in Nat
    BY ScheduleAssumption, CommitScheduleAssumption
  <1>2. NewObject(s, c) \in Objects
    BY <1>1 DEF NewObject, Objects, Phases
  <1>3. NewObject(s, c).hist = <<>>
    BY DEF NewObject
  <1> QED
    BY <1>2, <1>3, ScheduleAssumption DEF HistoryOK

(* What an update writes is well typed, and its history sound.             *)
LEMMA MergeOK ==
  ASSUME IInv, NEW p \in Procs, NEW f \in Objects, HistoryOK(f.hist, pushes)
  PROVE  Merge(p, f) \in Objects /\ HistoryOK(Merge(p, f).hist, pushes)
  <1>1. /\ obj[p] \in Objects /\ HistoryOK(obj[p].hist, pushes) /\ op[p] \in Ops
        /\ Recording(p) => obj[p].sha \in 1 .. pushes
    BY DEF IInv, LocalsOK
  <1>2. now \in Nat /\ start[p] \in Nat /\ pushes \in Nat
    BY DEF IInv, ClockOK, CountersOK
  <1>3. NextRun(start[p]) \in Nat
    BY <1>2, NextRunType
  <1>4. CASE op[p] \in StatusOps
    <2>1. PhaseOf(op[p]) \in Phases
      BY <1>4 DEF StatusOps, PhaseOf, Phases
    <2>2. Merge(p, f) = MergeStatus(f, obj[p], PhaseOf(op[p]))
      BY <1>4 DEF Merge, StatusOps, NextOps
    <2>3. MergeStatus(f, obj[p], PhaseOf(op[p])) \in Objects
      BY ZenonT(30), <1>1, <1>2, <2>1 DEF MergeStatus, Objects
    <2>4. MergeStatus(f, obj[p], PhaseOf(op[p])).hist \in {f.hist, obj[p].hist}
      BY <1>1 DEF MergeStatus, Objects
    <2> QED
      BY <1>1, <2>2, <2>3, <2>4
  <1>5. CASE op[p] \in NextOps
    <2>1. Merge(p, f) = [f EXCEPT !.next = NextRun(start[p])]
      BY <1>5 DEF Merge, StatusOps, NextOps
    <2> QED
      BY <1>3, <2>1 DEF Objects
  <1>6. ASSUME NEW ph \in {"Committed", "Failed", "Pending"}, NEW t \in Nat,
               ph = "Committed" => obj[p].sha \in 1 .. pushes
        PROVE  /\ MergeRecord(f, obj[p], ph, t) \in Objects
               /\ HistoryOK(MergeRecord(f, obj[p], ph, t).hist, pushes)
    <2> DEFINE sha == IF ph = "Committed" THEN obj[p].sha ELSE 0
               r == [sha |-> sha, phase |-> ph]
               g == Recorded(f.hist, r)
    <2>4. /\ sha \in Nat /\ ph \in Phases /\ sha <= pushes
          /\ (ph = "Committed") <=> (sha > 0)
      <3>1. CASE ph = "Committed"
        <4>1. sha = obj[p].sha /\ obj[p].sha \in 1 .. pushes
          BY <1>6, <3>1
        <4> QED
          BY <1>2, <3>1, <4>1 DEF Phases
      <3>2. CASE ph # "Committed"
        <4>1. sha = 0
          BY <3>2
        <4>2. ph \in Phases
          BY <1>6 DEF Phases
        <4> HIDE DEF sha
        <4> QED
          BY <1>2, <3>2, <4>1, <4>2
      <3> QED
        BY <3>1, <3>2
    <2>1. r \in Records /\ r.sha <= pushes /\ ((r.phase = "Committed") <=> (r.sha > 0))
      BY <2>4 DEF Records
    <2>2. f.hist \in Seq(Records)
      BY DEF Objects
    <2>3. g \in Seq(Records) /\ HistoryOK(g, pushes)
      BY <1>2, <2>1, <2>2, RecordedOK
    <2>5. MergeRecord(f, obj[p], ph, t) =
            [f EXCEPT !.phase = ph, !.sync = now, !.sha = sha, !.last = obj[p].last,
                      !.next = IF t # 0 THEN t ELSE @, !.hist = g]
      BY DEF MergeRecord, Recorded
    <2>6. obj[p].last \in Nat
      BY <1>1 DEF Objects
    <2> HIDE DEF sha, g
    <2> QED
      BY ZenonT(30), <1>2, <2>3, <2>4, <2>5, <2>6 DEF Objects
  <1>7. CASE op[p] = "recordCommitted"
    <2>1. Merge(p, f) = MergeRecord(f, obj[p], "Committed", 0)
      BY <1>7 DEF Merge, StatusOps, NextOps
    <2>2. obj[p].sha \in 1 .. pushes
      BY <1>1, <1>7 DEF Recording
    <2> QED
      BY <1>6, <2>1, <2>2
  <1>8. CASE op[p] \in {"recordFailed", "recordPending"}
    <2>1. Merge(p, f) = MergeRecord(f, obj[p], PhaseOf(op[p]), NextRun(start[p]))
      BY <1>8 DEF Merge, StatusOps, NextOps
    <2>2. PhaseOf(op[p]) \in {"Failed", "Pending"}
      BY <1>8 DEF PhaseOf
    <2> QED
      BY <1>3, <1>6, <2>1, <2>2
  <1> QED
    BY <1>1, <1>4, <1>5, <1>7, <1>8 DEF Ops, StatusOps, NextOps, RecordOps

-----------------------------------------------------------------------------
(* The parts of the invariant under the building blocks of the actions.    *)

LEMMA VersionOK ==
  ASSUME IInv, NEW k \in 1 .. RV
  PROVE  versions[k] \in Objects /\ HistoryOK(versions[k].hist, pushes)
  BY DEF IInv, StoreOK, RV

LEMMA ViewOK ==
  ASSUME IInv, NEW p \in Procs
  PROVE  /\ Seen(p) \in 1 .. RV
         /\ View(p) \in Objects /\ HistoryOK(View(p).hist, pushes)
  <1>1. RV \in Nat /\ RV >= 1 /\ cached[p] \in 1 .. RV
    BY DEF IInv, StoreOK, RV
  <1>2. Seen(p) \in 1 .. RV
    BY <1>1 DEF Seen
  <1> QED
    BY <1>2, VersionOK DEF View

LEMMA CurrentOK ==
  ASSUME IInv
  PROVE  /\ RV \in Nat /\ RV >= 1
         /\ Current \in Objects /\ HistoryOK(Current.hist, pushes)
  <1>1. RV \in 1 .. RV /\ RV \in Nat /\ RV >= 1
    BY DEF IInv, StoreOK, RV
  <1> QED
    BY <1>1, VersionOK DEF Current

(* The store when nothing is written, while the caches stay or move on.    *)
LEMMA StoreKept ==
  ASSUME IInv, versions' = versions, cached' \in [Procs -> 1 .. RV],
         fresh' \in [Procs -> 1 .. RV], pushes' \in Nat, pushes <= pushes'
  PROVE  StoreOK'
  <1>1. RV' = RV
    BY DEF RV
  <1>2. \A k \in 1 .. RV : HistoryOK(versions[k].hist, pushes')
    <2> TAKE k \in 1 .. RV
    <2>1. versions[k].hist \in Seq(Records) /\ pushes \in Nat
      BY VersionOK DEF Objects, IInv, CountersOK
    <2> QED
      BY <2>1, VersionOK, HistoryGrows
  <1> QED
    BY <1>1, <1>2 DEF IInv, StoreOK

LEMMA StoreWritten ==
  ASSUME IInv, NEW o \in Objects, Write(o), HistoryOK(o.hist, pushes),
         UNCHANGED <<cached, pushes>>, fresh' \in [Procs -> 1 .. RV]
  PROVE  StoreOK'
  <1>1. /\ versions' \in Seq(Objects) /\ RV \in Nat /\ RV' = RV + 1
        /\ \A k \in 1 .. RV : versions'[k] = versions[k]
        /\ versions'[RV + 1] = o
    BY WriteType DEF IInv, StoreOK
  <1>2. 1 .. RV \subseteq 1 .. RV' /\ RV' >= 1
    BY <1>1
  <1>3. \A k \in 1 .. RV' : HistoryOK(versions'[k].hist, pushes)
    <2> TAKE k \in 1 .. RV'
    <2>1. k \in 1 .. RV \/ k = RV + 1
      BY <1>1
    <2> QED
      BY <1>1, <2>1, VersionOK
  <1>4. cached' \in [Procs -> 1 .. RV'] /\ fresh' \in [Procs -> 1 .. RV']
    BY <1>2 DEF IInv, StoreOK
  <1> QED
    BY <1>1, <1>2, <1>3, <1>4 DEF StoreOK

(* An update that changes nothing makes no version.                        *)
LEMMA StoreStored ==
  ASSUME IInv, NEW o \in Objects, Store(o), HistoryOK(o.hist, pushes),
         UNCHANGED <<cached, pushes>>, fresh' \in [Procs -> 1 .. RV]
  PROVE  StoreOK'
  <1>1. CASE UNCHANGED versions
    BY <1>1, StoreKept DEF IInv, StoreOK, CountersOK
  <1>2. CASE Write(o)
    BY <1>2, StoreWritten
  <1> QED
    BY <1>1, <1>2 DEF Store

LEMMA LocalsKept ==
  ASSUME IInv, UNCHANGED <<obj, op, tries, pushes>>, pc' \in [Procs -> PCs]
  PROVE  LocalsOK'
  BY DEF IInv, LocalsOK, Recording

LEMMA LeaveOK ==
  ASSUME IInv, NEW p \in Procs, Leave(p), UNCHANGED pushes
  PROVE  /\ LocalsOK' /\ fresh' \in [Procs -> 1 .. RV]
         /\ (now' = now => start' \in [Procs -> 0 .. now'])
  <1>1. 1 \in 1 .. RV
    BY CurrentOK
  <1>2. versions[1] \in Objects /\ HistoryOK(versions[1].hist, pushes)
    BY <1>1, VersionOK
  <1>3. fresh' \in [Procs -> 1 .. RV]
    BY <1>1 DEF Leave, IInv, StoreOK
  <1>4. 0 \in 0 .. MaxRetries - 1
    BY ScheduleAssumption
  <1>5. "wait" \in Ops /\ "wait" \notin {"advance", "recordCommitted"}
    BY DEF Ops, NextOps
  <1>6. "idle" \in PCs
    BY DEF PCs
  <1>7. LocalsOK'
    BY <1>2, <1>4, <1>5, <1>6 DEF IInv, LocalsOK, Leave, GoTo, Recording
  <1>8. now' = now => start' \in [Procs -> 0 .. now']
    BY ScheduleAssumption DEF Leave, IInv, ClockOK
  <1> QED
    BY <1>3, <1>7, <1>8

LEMMA UpdateOK ==
  ASSUME IInv, NEW p \in Procs, NEW o \in Objects, NEW u \in Ops, Update(p, o, u),
         pushes' \in Nat, pushes <= pushes', HistoryOK(o.hist, pushes'),
         u \in {"advance", "recordCommitted"} => o.sha \in 1 .. pushes'
  PROVE  LocalsOK' /\ fresh' = fresh
  <1>1. \A q \in Procs :
            /\ HistoryOK(obj[q].hist, pushes')
            /\ Recording(q) => obj[q].sha \in 1 .. pushes'
    <2> TAKE q \in Procs
    <2>1. /\ obj[q].hist \in Seq(Records) /\ HistoryOK(obj[q].hist, pushes)
          /\ Recording(q) => obj[q].sha \in 1 .. pushes
      BY DEF IInv, LocalsOK, Objects
    <2>2. pushes \in Nat
      BY DEF IInv, CountersOK
    <2> QED
      BY <2>1, <2>2, HistoryGrows
  <1>2. 0 \in 0 .. MaxRetries - 1
    BY ScheduleAssumption
  <1>3. "get" \in PCs
    BY DEF PCs
  <1>4. LocalsOK'
    BY <1>1, <1>2, <1>3 DEF IInv, LocalsOK, Update, GoTo, Recording
  <1> QED
    BY <1>4 DEF Update

(* A requeue is at a natural time.                                         *)
LEMMA RequeueOK ==
  ASSUME IInv, NEW p \in Procs, NEW t \in Nat, RequeueAt(p, t)
  PROVE  due' \in [Procs -> Nat] /\ timer' \in [Procs -> BOOLEAN]
  BY DEF IInv, ClockOK, RequeueAt, Requeue

LEMMA TimesOK ==
  ASSUME IInv, NEW p \in Procs
  PROVE  /\ now \in Nat /\ start[p] \in Nat /\ pushes \in Nat
         /\ NextRun(now) \in Nat /\ NextRun(start[p]) \in Nat
         /\ WaitUntil(NextRun(now)) \in Nat /\ WaitUntil(NextRun(start[p])) \in Nat
         /\ now + MinWait \in Nat
  <1>1. now \in Nat /\ start[p] \in Nat /\ pushes \in Nat
    BY DEF IInv, ClockOK, CountersOK
  <1>2. NextRun(now) \in Nat /\ NextRun(start[p]) \in Nat
    BY <1>1, NextRunType
  <1> QED
    BY <1>1, <1>2, WaitOK, ScheduleAssumption

(* The clock keeps its types in a step that does not move it.              *)
LEMMA ClockKept ==
  ASSUME IInv, now' = now, start' \in [Procs -> 0 .. now'],
         dirty' \in [Procs -> BOOLEAN],
         \/ NoRequeue
         \/ \E p \in Procs : \E t \in Nat : RequeueAt(p, t)
  PROVE  ClockOK'
  <1>1. due' \in [Procs -> Nat] /\ timer' \in [Procs -> BOOLEAN]
    <2>1. CASE NoRequeue
      BY <2>1 DEF NoRequeue, IInv, ClockOK
    <2>2. ASSUME NEW p \in Procs, NEW t \in Nat, RequeueAt(p, t)
          PROVE  due' \in [Procs -> Nat] /\ timer' \in [Procs -> BOOLEAN]
      BY <2>2, RequeueOK
    <2> QED
      BY <2>1, <2>2
  <1> QED
    BY <1>1 DEF IInv, ClockOK

LEMMA UpdateFailedOK ==
  ASSUME IInv, NEW p \in Procs, UpdateFailed(p), UNCHANGED <<now, dirty, pushes>>
  PROVE  LocalsOK' /\ ClockOK' /\ fresh' \in [Procs -> 1 .. RV]
  <1>1. Leave(p)
    BY DEF UpdateFailed, ReturnError
  <1>2. \/ NoRequeue
        \/ \E t \in Nat : RequeueAt(p, t)
    BY TimesOK DEF UpdateFailed, ReturnError, RequeueIfAhead
  <1>3. dirty' \in [Procs -> BOOLEAN]
    BY DEF IInv, ClockOK
  <1> QED
    BY <1>1, <1>2, <1>3, LeaveOK, ClockKept

LEMMA UpdateDoneOK ==
  ASSUME IInv, NEW p \in Procs, NEW o \in Objects, UpdateDone(p, o),
         HistoryOK(o.hist, pushes), UNCHANGED <<now, dirty, pushes>>
  PROVE  LocalsOK' /\ ClockOK' /\ fresh' \in [Procs -> 1 .. RV]
  <1>1. dirty' \in [Procs -> BOOLEAN] /\ op[p] \in Ops /\ obj[p] \in Objects
    BY DEF IInv, ClockOK, LocalsOK
  <1>2. CASE op[p] = "running"
    <2>1. /\ GoTo(p, "gate") /\ obj' = [obj EXCEPT ![p] = o]
          /\ NoRequeue /\ UNCHANGED <<start, fresh, op, tries>>
      BY <1>2 DEF UpdateDone
    <2>2. LocalsOK'
      BY <1>2, <2>1 DEF IInv, LocalsOK, GoTo, PCs, Recording
    <2>3. start' \in [Procs -> 0 .. now'] /\ fresh' \in [Procs -> 1 .. RV]
      BY <2>1 DEF IInv, ClockOK, StoreOK
    <2> QED
      BY <1>1, <2>1, <2>2, <2>3, ClockKept
  <1>3. CASE op[p] = "advance"
    <2> DEFINE a == [obj[p] EXCEPT !.next = o.next]
    <2>1. Update(p, a, "recordCommitted") /\ NoRequeue /\ UNCHANGED start
      BY <1>3 DEF UpdateDone
    <2>2. HistoryOK(obj[p].hist, pushes) /\ obj[p].sha \in 1 .. pushes
      BY <1>3 DEF IInv, LocalsOK, Recording
    <2>3. a \in Objects /\ a.hist = obj[p].hist /\ a.sha = obj[p].sha
      BY <1>1 DEF Objects
    <2>4. "recordCommitted" \in Ops
      BY DEF Ops, RecordOps
    <2>5. pushes' \in Nat /\ pushes <= pushes'
      BY TimesOK
    <2> HIDE DEF a
    <2>6. LocalsOK' /\ fresh' = fresh
      BY <2>1, <2>2, <2>3, <2>4, <2>5, UpdateOK
    <2>7. start' \in [Procs -> 0 .. now'] /\ fresh' \in [Procs -> 1 .. RV]
      BY <2>1, <2>6 DEF IInv, ClockOK, StoreOK
    <2> QED
      BY <1>1, <2>1, <2>6, <2>7, ClockKept
  <1>4. CASE op[p] \notin {"running", "advance"}
    <2>1. op[p] \in {"suspended", "invalid", "wait", "recordCommitted", "recordFailed",
                     "recordPending"}
      BY <1>1, <1>4 DEF Ops, StatusOps, NextOps, RecordOps
    <2>2. Leave(p) /\ (NoRequeue \/ \E t \in Nat : RequeueAt(p, t))
      BY <2>1, TimesOK DEF UpdateDone, ReturnError, RequeueIfAhead
    <2> QED
      BY <1>1, <2>2, LeaveOK, ClockKept
  <1> QED
    BY <1>2, <1>3, <1>4

-----------------------------------------------------------------------------
(* The initial states, and one lemma per group of actions.                 *)

LEMMA InitInv == Init => IInv
  <1> SUFFICES ASSUME Init PROVE IInv
    OBVIOUS
  <1>1. PICK s \in Specs, c \in CallsBefore : KubeInit(NewObject(s, c))
    BY DEF Init
  <1> DEFINE o == NewObject(s, c)
  <1>2. o \in Objects /\ HistoryOK(o.hist, 0)
    BY NewObjectType
  <1>3. /\ versions = <<o>> /\ cached = [q \in Procs |-> 1]
        /\ dirty = [q \in Procs |-> TRUE] /\ timer = [q \in Procs |-> FALSE]
    BY <1>1 DEF KubeInit
  <1> HIDE DEF o
  <1>4. versions \in Seq(Objects) /\ RV = 1 /\ versions[1] = o
    BY <1>2, <1>3 DEF RV
  <1>5. pushes = 0 /\ apiCalls = 0 /\ runs = 0 /\ ScheduleInit
    BY DEF Init
  <1>6. StoreOK
    BY <1>2, <1>3, <1>4, <1>5 DEF StoreOK, ScheduleInit
  <1>7. LocalsOK
    <2>1. 0 \in 0 .. MaxRetries - 1
      BY ScheduleAssumption
    <2>2. "idle" \in PCs /\ "wait" \in Ops
      BY DEF PCs, Ops, NextOps
    <2> QED
      BY <1>2, <1>4, <1>5, <2>1, <2>2 DEF LocalsOK, ScheduleInit, Recording
  <1>8. ClockOK
    <2>1. 1 \in 1 .. MaxTime
      BY ScheduleAssumption
    <2>2. now \in 1 .. MaxTime /\ due \in [Procs -> Nat]
      BY <1>5, <2>1 DEF ScheduleInit
    <2>3. start \in [Procs -> 0 .. now]
      BY <1>5 DEF ScheduleInit
    <2> QED
      BY <1>3, <2>2, <2>3 DEF ClockOK
  <1>9. CountersOK
    BY <1>5, ScheduleAssumption DEF CountersOK, ScheduleInit
  <1> QED
    BY <1>6, <1>7, <1>8, <1>9 DEF IInv

(* Reconcile reads the object: nothing is written but the locals.          *)
LEMMA ReconcileInv ==
  ASSUME IInv, NEW p \in Procs, Reconcile(p), UNCHANGED worldVars
  PROVE  IInv'
  <1>1. /\ Begin(p) /\ UNCHANGED <<versions, cached, now, edits, crashes, faults>>
        /\ UNCHANGED <<pushes, apiCalls, runs>>
    BY DEF Reconcile, ReconcileGone, ReconcileSuspended, ReconcileInvalid, Scheduled,
           ReconcileWait, ReconcileRun, Begin, worldVars
  <1>2. CountersOK'
    <2>1. stale' \in 0 .. MaxStale
      BY <1>1, ScheduleAssumption DEF Begin, IInv, CountersOK
    <2> QED
      BY <1>1, <2>1 DEF IInv, CountersOK
  <1>3. dirty' \in [Procs -> BOOLEAN]
    BY <1>1 DEF Begin, TakeKey, IInv, ClockOK
  <1>4. View(p) \in Objects /\ HistoryOK(View(p).hist, pushes)
    BY ViewOK
  <1>5. now \in Nat /\ pushes' \in Nat /\ pushes <= pushes'
    BY <1>1, TimesOK
  <1>6. LocalsOK' /\ fresh' = fresh
    <2>1. CASE UNCHANGED workerVars
      BY <1>1, <2>1, LocalsKept DEF workerVars, IInv, LocalsOK
    <2>2. ASSUME NEW o \in Objects, NEW u \in {"suspended", "invalid", "wait", "running"},
                 Update(p, o, u), o.hist = View(p).hist
          PROVE  LocalsOK' /\ fresh' = fresh
      <3>1. u \in Ops /\ u \notin {"advance", "recordCommitted"}
        BY DEF Ops, StatusOps, NextOps
      <3> QED
        BY <1>1, <1>4, <1>5, <2>2, <3>1, UpdateOK
    <2>3. /\ [View(p) EXCEPT !.last = now] \in Objects
          /\ [View(p) EXCEPT !.last = now].hist = View(p).hist
      BY <1>4, <1>5 DEF Objects
    <2> QED
      BY <1>4, <2>1, <2>2, <2>3
         DEF Reconcile, ReconcileGone, ReconcileSuspended, ReconcileInvalid,
             ReconcileWait, ReconcileRun
  <1>7. start' \in [Procs -> 0 .. now']
    <2>1. UNCHANGED start \/ start' = [start EXCEPT ![p] = now]
      BY DEF Reconcile, ReconcileGone, ReconcileSuspended, ReconcileInvalid,
             ReconcileWait, ReconcileRun, workerVars
    <2> QED
      BY <1>1, <1>5, <2>1 DEF IInv, ClockOK
  <1>8. NoRequeue \/ \E t \in Nat : RequeueAt(p, t)
    BY TimesOK DEF Reconcile, ReconcileGone, ReconcileSuspended, ReconcileInvalid,
                   ReconcileWait, ReconcileRun
  <1>9. ClockOK'
    BY <1>1, <1>3, <1>7, <1>8, ClockKept
  <1>10. StoreOK'
    BY <1>1, <1>5, <1>6, StoreKept DEF IInv, StoreOK
  <1> QED
    BY <1>2, <1>6, <1>9, <1>10 DEF IInv

LEMMA GetInv ==
  ASSUME IInv, NEW p \in Procs, GetOk(p) \/ PutConflict(p), UNCHANGED worldVars
  PROVE  IInv'
  <1>1. /\ UNCHANGED <<versions, cached, dirty, now, obj, start, op>>
        /\ UNCHANGED <<edits, crashes, faults, stale, pushes, apiCalls, runs>>
        /\ NoRequeue
    BY DEF GetOk, PutConflict, boundVars, worldVars
  <1>2. CountersOK'
    BY <1>1 DEF IInv, CountersOK
  <1>3. fresh' \in [Procs -> 1 .. RV]
    BY ViewOK DEF GetOk, PutConflict, IInv, StoreOK
  <1>4. tries' \in [Procs -> 0 .. MaxRetries - 1]
    BY ScheduleAssumption DEF GetOk, PutConflict, RetriesLeft, IInv, LocalsOK
  <1>5. pc' \in [Procs -> PCs]
    BY DEF GetOk, PutConflict, GoTo, PCs, IInv, LocalsOK
  <1>6. LocalsOK'
    BY <1>1, <1>4, <1>5 DEF IInv, LocalsOK, Recording
  <1>7. StoreOK'
    BY <1>1, <1>3, TimesOK, StoreKept DEF IInv, StoreOK
  <1>8. ClockOK'
    BY <1>1, ClockKept DEF IInv, ClockOK
  <1> QED
    BY <1>2, <1>6, <1>7, <1>8 DEF IInv

LEMMA WrittenOK ==
  ASSUME IInv, NEW p \in Procs
  PROVE  Written(p) \in Objects /\ HistoryOK(Written(p).hist, pushes)
  <1>1. fresh[p] \in 1 .. RV
    BY DEF IInv, StoreOK
  <1> QED
    BY <1>1, VersionOK, MergeOK DEF Written

LEMMA PutInv ==
  ASSUME IInv, NEW p \in Procs, PutOk(p) \/ PutFailed(p) \/ PutFault(p)
  PROVE  IInv'
  <1>1. UNCHANGED <<cached, dirty, now, pushes, apiCalls, edits, crashes, stale>>
    BY DEF PutOk, PutFailed, PutFault, Exhausted, boundVars, worldVars
  <1>2. LocalsOK' /\ ClockOK' /\ fresh' \in [Procs -> 1 .. RV]
    <2>1. CASE UpdateFailed(p)
      BY <1>1, <2>1, UpdateFailedOK
    <2>2. CASE UpdateDone(p, Written(p))
      BY <1>1, <2>2, WrittenOK, UpdateDoneOK
    <2> QED
      BY <2>1, <2>2 DEF PutOk, PutFailed, PutFault
  <1>3. StoreOK'
    <2>1. CASE UNCHANGED versions
      BY SMTT(20), <1>1, <1>2, <2>1, TimesOK, StoreKept DEF IInv, StoreOK
    <2>2. CASE Store(Written(p))
      BY <1>1, <1>2, <2>2, WrittenOK, StoreStored
    <2> QED
      BY <2>1, <2>2 DEF PutOk, PutFailed, PutFault, Exhausted
  <1>4. CountersOK'
    <2>1. runs' \in Nat
      BY DEF PutOk, PutFailed, PutFault, CountRun, worldVars, IInv, CountersOK
    <2>2. faults' \in 0 .. MaxFaults
      <3>1. faults' = faults \/ (faults < MaxFaults /\ faults' = faults + 1)
        BY DEF PutOk, PutFailed, PutFault, Exhausted, Fault, boundVars
      <3> QED
        BY <3>1, ScheduleAssumption DEF IInv, CountersOK
    <2> QED
      BY <1>1, <2>1, <2>2 DEF IInv, CountersOK
  <1> QED
    BY <1>2, <1>3, <1>4 DEF IInv

(* A step of the execution: the store and the clock stay as they are.      *)
LEMMA WorkingOK ==
  ASSUME IInv, NEW p \in Procs, Working(p), fresh' = fresh, LocalsOK',
         pushes' \in Nat, pushes <= pushes', apiCalls' \in Nat
  PROVE  IInv'
  <1>1. UNCHANGED <<versions, cached, dirty, timer, now, due, start, runs>>
        /\ UNCHANGED <<edits, crashes, faults, stale>>
    BY DEF Working, kubeVars, boundVars
  <1>2. StoreOK'
    BY <1>1, StoreKept DEF IInv, StoreOK
  <1>3. ClockOK'
    BY <1>1 DEF IInv, ClockOK
  <1>4. CountersOK'
    BY <1>1 DEF IInv, CountersOK
  <1> QED
    BY <1>2, <1>3, <1>4 DEF IInv

LEMMA ExecuteInv ==
  ASSUME IInv, NEW p \in Procs,
         Gate(p) \/ Rest(p) \/ Auth(p) \/ GitPushed(p) \/ GitFailed(p)
  PROVE  IInv'
  <1>1. /\ obj[p] \in Objects /\ HistoryOK(obj[p].hist, pushes)
        /\ obj[p].hist \in Seq(Records) /\ pushes \in Nat /\ apiCalls \in Nat
    BY DEF IInv, LocalsOK, CountersOK, Objects
  <1>2. /\ Working(p) /\ pushes' \in {pushes, pushes + 1}
        /\ apiCalls' \in {apiCalls, apiCalls + 1}
    BY DEF Gate, Rest, Auth, GitPushed, GitFailed
  <1>3. pushes' \in Nat /\ pushes <= pushes' /\ apiCalls' \in Nat
    BY <1>1, <1>2
  <1>4. ASSUME NEW o \in Objects, o.hist = obj[p].hist,
               \/ Update(p, o, "recordFailed") \/ Update(p, o, "recordPending")
               \/ Update(p, o, "advance") /\ o.sha \in 1 .. pushes'
        PROVE  LocalsOK' /\ fresh' = fresh
    <2>1. HistoryOK(o.hist, pushes')
      BY <1>1, <1>3, <1>4, HistoryGrows
    <2>2. {"recordFailed", "recordPending", "advance"} \subseteq Ops
      BY DEF Ops, RecordOps, NextOps
    <2> QED
      BY <1>3, <1>4, <2>1, <2>2, UpdateOK
  <1>5. CASE Move(p, "auth") \/ Move(p, "rest") \/ Move(p, "git")
    <2>1. pushes' = pushes
      BY <1>5 DEF Gate, Rest, Auth, GitPushed, GitFailed, Move, GoTo, Update, IInv,
                  LocalsOK, PCs
    <2>2. LocalsOK'
      BY <1>5, <2>1, LocalsKept DEF Move, GoTo, PCs, IInv, LocalsOK
    <2> QED
      BY <1>2, <1>3, <1>5, <2>2, WorkingOK DEF Move
  <1>6. Counted(p) \in Objects /\ Counted(p).hist = obj[p].hist
    BY SMTT(20), <1>1 DEF Counted, Objects
  <1>7. CASE Gate(p) \/ Auth(p) \/ GitFailed(p)
    BY <1>1, <1>2, <1>3, <1>4, <1>5, <1>7, WorkingOK DEF Gate, Auth, GitFailed
  <1>8. CASE Rest(p)
    <2>1. CASE GoTo(p, "auth") /\ obj' = [obj EXCEPT ![p] = Counted(p)]
               /\ UNCHANGED <<fresh, op, tries>>
      <3>1. op[p] = "running" \/ ~Recording(p) \/ Counted(p).sha = obj[p].sha
        BY <1>1 DEF Counted, Objects
      <3>2. pushes' = pushes
        BY <1>8 DEF Rest
      <3>3. Counted(p).sha = obj[p].sha
        BY <1>1 DEF Counted, Objects
      <3>4. LocalsOK'
        BY <1>1, <1>6, <2>1, <3>2, <3>3 DEF IInv, LocalsOK, GoTo, PCs, Recording
      <3> QED
        BY <1>2, <1>3, <2>1, <3>4, WorkingOK
    <2>2. CASE ~(GoTo(p, "auth") /\ obj' = [obj EXCEPT ![p] = Counted(p)]
                 /\ UNCHANGED <<fresh, op, tries>>)
      <3>1. LocalsOK' /\ fresh' = fresh
        BY <1>1, <1>4, <1>6, <1>8, <2>2 DEF Rest
      <3> QED
        BY <1>2, <1>3, <3>1, WorkingOK
    <2> QED
      BY <2>1, <2>2
  <1>9. CASE GitPushed(p)
    <2> DEFINE o == [obj[p] EXCEPT !.sha = pushes + 1]
    <2>1. o \in Objects /\ o.hist = obj[p].hist /\ o.sha = pushes + 1
      <3>1. pushes + 1 \in Nat
        BY <1>1
      <3> QED
        BY <1>1, <3>1 DEF Objects
    <2>2. Update(p, o, "advance") /\ pushes' = pushes + 1
      BY <1>9 DEF GitPushed
    <2> HIDE DEF o
    <2>3. o.sha \in 1 .. pushes'
      BY <1>1, <2>1, <2>2
    <2>4. LocalsOK' /\ fresh' = fresh
      BY <1>4, <2>1, <2>2, <2>3
    <2> QED
      BY <1>2, <1>3, <2>4, WorkingOK
  <1> QED
    BY <1>7, <1>8, <1>9

LEMMA WatchTimerInv ==
  ASSUME IInv, NEW p \in Procs, Watch(p) \/ Timer(p), UNCHANGED worldVars
  PROVE  IInv'
  <1>1. /\ UNCHANGED <<versions, now, due, pc, obj, start, fresh, op, tries>>
        /\ UNCHANGED <<edits, crashes, faults, stale, pushes, apiCalls, runs>>
    BY DEF Watch, Timer, Deliver, TimerFire, clockVars, workerVars, boundVars, worldVars
  <1>2. CountersOK'
    BY <1>1 DEF IInv, CountersOK
  <1>3. LocalsOK'
    BY <1>1, LocalsKept DEF IInv, LocalsOK
  <1>4. cached' \in [Procs -> 1 .. RV]
    <2>1. CASE Watch(p)
      <3>1. /\ cached[p] < RV /\ cached' = [cached EXCEPT ![p] = @ + 1]
            /\ cached \in [Procs -> 1 .. RV] /\ RV \in Nat
        BY <2>1, CurrentOK DEF Watch, Deliver, IInv, StoreOK
      <3> QED
        BY <3>1
    <2>2. CASE Timer(p)
      BY <2>2 DEF Timer, TimerFire, IInv, StoreOK
    <2> QED
      BY <2>1, <2>2
  <1>5. StoreOK'
    BY SMTT(20), <1>1, <1>4, TimesOK, StoreKept DEF IInv, StoreOK
  <1>6. dirty' \in [Procs -> BOOLEAN] /\ timer' \in [Procs -> BOOLEAN]
    BY DEF Watch, Timer, Deliver, TimerFire, IInv, ClockOK
  <1>7. ClockOK'
    BY <1>1, <1>6 DEF IInv, ClockOK
  <1> QED
    BY <1>2, <1>3, <1>5, <1>7 DEF IInv

LEMMA TickInv ==
  ASSUME IInv, Tick, UNCHANGED worldVars
  PROVE  IInv'
  <1>1. UNCHANGED <<versions, cached, dirty, timer, due, pc, obj, start, fresh, op, tries>>
        /\ UNCHANGED <<edits, crashes, faults, stale, pushes, apiCalls, runs>>
    BY DEF Tick, kubeVars, workerVars, boundVars, worldVars
  <1>2. StoreOK'
    BY <1>1, StoreKept DEF IInv, StoreOK, CountersOK
  <1>3. LocalsOK'
    BY <1>1, LocalsKept DEF IInv, LocalsOK
  <1>4. now' \in 1 .. MaxTime /\ now <= now' /\ now \in Nat
    BY ScheduleAssumption DEF Tick, IInv, ClockOK
  <1>5. 0 .. now \subseteq 0 .. now'
    BY <1>4
  <1>6. start \in [Procs -> 0 .. now']
    BY <1>5 DEF IInv, ClockOK
  <1> QED
    BY <1>1, <1>2, <1>3, <1>4, <1>6 DEF IInv, ClockOK, CountersOK

LEMMA CrashInv ==
  ASSUME IInv, NEW p \in Procs, Crash(p), UNCHANGED worldVars
  PROVE  IInv'
  <1>1. /\ UNCHANGED <<versions, now, due, edits, faults, stale, pushes, apiCalls, runs>>
        /\ Leave(p) /\ Relist(p)
    BY DEF Crash, Relist, clockVars, worldVars
  <1>2. cached' \in [Procs -> 1 .. RV]
    <2>1. RV \in 1 .. RV
      BY CurrentOK
    <2> QED
      BY <1>1, <2>1 DEF Relist, IInv, StoreOK
  <1>3. LocalsOK' /\ fresh' \in [Procs -> 1 .. RV] /\ start' \in [Procs -> 0 .. now']
    BY <1>1, LeaveOK
  <1>4. StoreOK'
    BY <1>1, <1>2, <1>3, TimesOK, StoreKept
  <1>5. Current.gone \in BOOLEAN
    BY CurrentOK DEF Objects
  <1>6. dirty' \in [Procs -> BOOLEAN] /\ timer' \in [Procs -> BOOLEAN]
    BY <1>1, <1>5 DEF Relist, IInv, ClockOK
  <1>7. ClockOK'
    BY <1>1, <1>3, <1>6 DEF IInv, ClockOK
  <1>8. CountersOK'
    <2>1. crashes' \in 0 .. MaxCrashes
      BY ScheduleAssumption DEF Crash, IInv, CountersOK
    <2> QED
      BY <1>1, <2>1 DEF IInv, CountersOK
  <1> QED
    BY <1>3, <1>4, <1>7, <1>8 DEF IInv

(* What the user writes keeps the history.                                 *)
LEMMA UserWrites ==
  ASSUME IInv, UserEdit \/ UserDelete
  PROVE  \E o \in Objects : Write(o) /\ o.hist = Current.hist
  <1>1. Current \in Objects
    BY CurrentOK
  <1>2. CASE UserEdit
    <2>1. PICK s \in Specs :
              Write([Current EXCEPT !.suspend = s.suspend, !.valid = s.valid])
      BY <1>2 DEF UserEdit
    <2>2. s \in [suspend: BOOLEAN, valid: BOOLEAN]
      BY ScheduleAssumption
    <2>3. /\ [Current EXCEPT !.suspend = s.suspend, !.valid = s.valid] \in Objects
          /\ [Current EXCEPT !.suspend = s.suspend, !.valid = s.valid].hist = Current.hist
      BY <1>1, <2>2 DEF Objects
    <2> QED
      BY <2>1, <2>3
  <1>3. CASE UserDelete
    <2>1. /\ [Current EXCEPT !.gone = TRUE] \in Objects
          /\ [Current EXCEPT !.gone = TRUE].hist = Current.hist
      BY <1>1 DEF Objects
    <2> QED
      BY <1>3, <2>1 DEF UserDelete
  <1> QED
    BY <1>2, <1>3

LEMMA UserInv ==
  ASSUME IInv, UserEdit \/ UserDelete, UNCHANGED worldVars
  PROVE  IInv'
  <1>1. UNCHANGED <<cached, dirty, timer, now, due, pc, obj, start, fresh, op, tries>>
        /\ UNCHANGED <<crashes, faults, stale, pushes, apiCalls, runs>>
    BY DEF UserEdit, UserDelete, clockVars, workerVars, boundVars, worldVars
  <1>2. StoreOK'
    <2>1. PICK o \in Objects : Write(o) /\ o.hist = Current.hist
      BY UserWrites
    <2> QED
      BY <1>1, <2>1, CurrentOK, StoreWritten DEF IInv, StoreOK
  <1>3. LocalsOK'
    BY <1>1, LocalsKept DEF IInv, LocalsOK
  <1>4. ClockOK'
    BY <1>1 DEF IInv, ClockOK
  <1>5. edits' \in 0 .. MaxEdits
    <2>1. \/ edits' = edits
          \/ edits < MaxEdits /\ edits' = edits + 1
      BY DEF UserEdit, UserDelete, boundVars
    <2> QED
      BY <2>1, ScheduleAssumption DEF IInv, CountersOK
  <1>6. CountersOK'
    BY <1>1, <1>5 DEF IInv, CountersOK
  <1> QED
    BY <1>2, <1>3, <1>4, <1>6 DEF IInv

LEMMA StutterInv == IInv /\ UNCHANGED vars => IInv'
  <1> SUFFICES ASSUME IInv, UNCHANGED vars PROVE IInv'
    OBVIOUS
  <1>1. UNCHANGED <<versions, cached, dirty, timer, now, due, pc, obj, start, fresh, op,
                    tries, pushes, apiCalls, runs, edits, crashes, faults, stale>>
    BY DEF vars, kubeVars, clockVars, workerVars, worldVars, boundVars
  <1>2. StoreOK'
    BY <1>1, StoreKept, CurrentOK DEF IInv, StoreOK, CountersOK
  <1>3. LocalsOK'
    BY <1>1, LocalsKept DEF IInv, LocalsOK
  <1> QED
    BY <1>1, <1>2, <1>3 DEF IInv, ClockOK, CountersOK

LEMMA NextInv == IInv /\ [Next]_vars => IInv'
  <1> SUFFICES ASSUME IInv, [Next]_vars PROVE IInv'
    OBVIOUS
  <1>1. ASSUME NEW p \in Procs, Step(p) PROVE IInv'
    BY <1>1, ReconcileInv, GetInv, PutInv, ExecuteInv DEF Step, WorldKept
  <1>2. ASSUME NEW p \in Procs, Delivered(p) \/ Elapsed(p) PROVE IInv'
    BY <1>2, WatchTimerInv DEF Delivered, Elapsed, WorldKept
  <1>3. CASE Ticked
    BY <1>3, TickInv DEF Ticked, WorldKept
  <1>4. CASE Environment
    BY <1>4, PutInv, CrashInv, UserInv DEF Environment, WorldKept
  <1>5. CASE UNCHANGED vars
    BY <1>5, StutterInv
  <1> QED
    BY <1>1, <1>2, <1>3, <1>4, <1>5 DEF Next

-----------------------------------------------------------------------------
(* The invariant holds in every reachable state, for any number of         *)
(* replicas on caches however old.                                         *)
THEOREM Invariance == Spec => []IInv
  BY InitInv, NextInv, PTL DEF Spec

(* Every variable keeps its type; no worker has seen a later time.         *)
THEOREM TypeCorrect == Spec => []TypeOK
  <1>1. IInv => TypeOK
    BY DEF IInv, StoreOK, LocalsOK, ClockOK, CountersOK, TypeOK
  <1> QED
    BY <1>1, Invariance, PTL

-----------------------------------------------------------------------------
(* The order of a history, with one process.                               *)

OneProcess == \E p : Procs = {p}

(* A record that is newer than the history, or has no CommitSHA, keeps the *)
(* order when it is put in front.                                          *)
LEMMA RecordedInOrder ==
  ASSUME NEW h \in Seq(Records), NEW r \in Records, Ordered(h),
         r.sha = 0 \/ Newer(h, r.sha)
  PROVE  Ordered(Recorded(h, r))
  <1> DEFINE g == Recorded(h, r)
  <1>1. /\ g \in Seq(Records) /\ g[1] = r
        /\ \A i \in 2 .. Len(g) : i - 1 \in 1 .. Len(h) /\ g[i] = h[i - 1]
    BY RecordFirst
  <1> HIDE DEF g
  <1>2. ASSUME NEW i \in DOMAIN g, NEW j \in DOMAIN g, i < j, g[i].sha > 0
        PROVE  g[j].sha < g[i].sha
    <2>1. /\ i \in 1 .. Len(g) /\ j \in 2 .. Len(g) /\ j - 1 \in 1 .. Len(h)
          /\ g[j] = h[j - 1]
      BY <1>1, <1>2
    <2>2. CASE i = 1
      BY <1>1, <1>2, <2>1, <2>2 DEF Newer
    <2>3. CASE i # 1
      <3>1. i - 1 \in 1 .. Len(h) /\ g[i] = h[i - 1] /\ i - 1 < j - 1
        BY <1>1, <1>2, <2>1, <2>3
      <3> QED
        BY <1>2, <2>1, <3>1 DEF Ordered
    <2> QED
      BY <2>2, <2>3
  <1>3. Ordered(g)
    BY <1>2 DEF Ordered
  <1> QED
    BY <1>3 DEF g

LEMMA VersionInOrder ==
  ASSUME IInv, OrderOK, NEW p \in Procs, NEW k \in 1 .. RV
  PROVE  /\ Ordered(versions[k].hist)
         /\ Recording(p) => Newer(versions[k].hist, obj[p].sha)
  BY DEF OrderOK

(* What an update writes is in order; only a record adds to the history.   *)
LEMMA WrittenInOrder ==
  ASSUME IInv, OrderOK, NEW p \in Procs
  PROVE  /\ Ordered(Written(p).hist)
         /\ op[p] = "advance" => Newer(Written(p).hist, obj[p].sha)
  <1> DEFINE f == versions[fresh[p]]
  <1>1. fresh[p] \in 1 .. RV
    BY DEF IInv, StoreOK
  <1>2. /\ f \in Objects /\ Ordered(f.hist)
        /\ Recording(p) => Newer(f.hist, obj[p].sha)
    BY <1>1, VersionOK, VersionInOrder
  <1>3. /\ obj[p] \in Objects /\ op[p] \in Ops /\ Ordered(obj[p].hist)
        /\ Written(p) = Merge(p, f) /\ f.hist \in Seq(Records)
    BY <1>2 DEF IInv, LocalsOK, OrderOK, Written, Objects
  <1> HIDE DEF f
  <1>4. CASE op[p] \in StatusOps
    <2>1. Written(p) = MergeStatus(f, obj[p], PhaseOf(op[p]))
      BY <1>3, <1>4 DEF Merge, StatusOps, NextOps
    <2>2. MergeStatus(f, obj[p], PhaseOf(op[p])).hist \in {f.hist, obj[p].hist}
      BY <1>2 DEF MergeStatus, Objects
    <2>3. op[p] # "advance"
      BY <1>4 DEF StatusOps
    <2> QED
      BY <1>2, <1>3, <2>1, <2>2, <2>3
  <1>5. CASE op[p] \in NextOps
    <2>1. Written(p) = [f EXCEPT !.next = NextRun(start[p])]
      BY <1>3, <1>5 DEF Merge, StatusOps, NextOps
    <2>2. Written(p).hist = f.hist
      BY <1>2, <2>1 DEF Objects
    <2> QED
      BY <1>2, <2>2 DEF Recording
  <1>6. ASSUME NEW ph, NEW t, NEW n \in Nat,
               n = (IF ph = "Committed" THEN obj[p].sha ELSE 0),
               ph \in Phases, n = 0 \/ Newer(f.hist, n)
        PROVE  Ordered(MergeRecord(f, obj[p], ph, t).hist)
    <2>1. [sha |-> n, phase |-> ph] \in Records
      BY <1>6 DEF Records
    <2>2. Ordered(Recorded(f.hist, [sha |-> n, phase |-> ph]))
      BY <1>2, <1>3, <1>6, <2>1, RecordedInOrder
    <2>3. MergeRecord(f, obj[p], ph, t).hist
            = Recorded(f.hist, [sha |-> n, phase |-> ph])
      BY <1>2, <1>6 DEF MergeRecord, Recorded, Objects
    <2> QED
      BY <2>2, <2>3
  <1>7. CASE op[p] = "recordCommitted"
    <2>1. Written(p) = MergeRecord(f, obj[p], "Committed", 0)
      BY <1>3, <1>7 DEF Merge, StatusOps, NextOps
    <2>2. Newer(f.hist, obj[p].sha) /\ obj[p].sha \in Nat
      BY <1>2, <1>3, <1>7 DEF Recording, Objects
    <2>3. "Committed" \in Phases
      BY DEF Phases
    <2> QED
      BY <1>6, <1>7, <2>1, <2>2, <2>3
  <1>8. CASE op[p] \in {"recordFailed", "recordPending"}
    <2>1. Written(p) = MergeRecord(f, obj[p], PhaseOf(op[p]), NextRun(start[p]))
      BY <1>3, <1>8 DEF Merge, StatusOps, NextOps
    <2>2. PhaseOf(op[p]) \in Phases \ {"Committed"}
      BY <1>8 DEF PhaseOf, Phases
    <2> QED
      BY <1>6, <1>8, <2>1, <2>2
  <1> QED
    BY <1>3, <1>4, <1>5, <1>7, <1>8 DEF Ops, StatusOps, NextOps, RecordOps

(* A step that stores o, or nothing, after which the worker records the    *)
(* same commit or none.                                                    *)
LEMMA OrderStored ==
  ASSUME IInv, OrderOK, NEW p, Procs = {p}, NEW o \in Objects, Store(o),
         Ordered(o.hist), Ordered(obj'[p].hist),
         Recording(p)' => /\ Recording(p) /\ obj'[p].sha = obj[p].sha
                          /\ Newer(o.hist, obj[p].sha)
  PROVE  OrderOK'
  <1>1. /\ RV' \in Nat
        /\ \A k \in 1 .. RV' : \/ k \in 1 .. RV /\ versions'[k] = versions[k]
                               \/ versions'[k] = o
    <2>1. CASE UNCHANGED versions
      BY <2>1, CurrentOK DEF RV
    <2>2. CASE Write(o)
      <3>1. /\ RV \in Nat /\ RV' = RV + 1 /\ versions'[RV + 1] = o
            /\ \A k \in 1 .. RV : versions'[k] = versions[k]
        BY <2>2, WriteType DEF IInv, StoreOK
      <3> QED
        BY <3>1
    <2> QED
      BY <2>1, <2>2 DEF Store
  <1>2. \A k \in 1 .. RV' : Ordered(versions'[k].hist)
    BY <1>1, VersionInOrder
  <1>3. Recording(p)' => \A k \in 1 .. RV' : Newer(versions'[k].hist, obj'[p].sha)
    BY <1>1, VersionInOrder
  <1> QED
    BY <1>2, <1>3 DEF OrderOK

LEMMA OrderKept ==
  ASSUME IInv, OrderOK, NEW p, Procs = {p}, UNCHANGED versions,
         Ordered(obj'[p].hist),
         Recording(p)' => Recording(p) /\ obj'[p].sha = obj[p].sha
  PROVE  OrderOK'
  <1>1. Store(Current)
    BY DEF Store
  <1>2. RV \in 1 .. RV
    BY CurrentOK
  <1>3. /\ Ordered(Current.hist) /\ Current \in Objects
        /\ Recording(p) => Newer(Current.hist, obj[p].sha)
    BY <1>2, CurrentOK, VersionInOrder DEF Current
  <1> QED
    BY <1>1, <1>3, OrderStored

LEMMA LeaveInOrder ==
  ASSUME IInv, OrderOK, NEW p \in Procs, Leave(p)
  PROVE  Ordered(obj'[p].hist) /\ ~Recording(p)'
  <1>1. 1 \in 1 .. RV
    BY CurrentOK
  <1>2. obj'[p] = versions[1] /\ op'[p] = "wait"
    BY DEF Leave, IInv, LocalsOK
  <1> QED
    BY <1>1, <1>2, VersionInOrder DEF Recording

(* Steps that do not begin to record a commit.                             *)
LEMMA ReconcileInOrder ==
  ASSUME IInv, OrderOK, NEW p, Procs = {p}, Reconcile(p)
  PROVE  OrderOK'
  <1>1. UNCHANGED versions /\ p \in Procs
    BY DEF Reconcile, ReconcileGone, ReconcileSuspended, ReconcileInvalid, Scheduled,
           ReconcileWait, ReconcileRun, Begin
  <1>2. CASE UNCHANGED workerVars
    BY <1>1, <1>2, OrderKept DEF workerVars, Recording, OrderOK
  <1>3. ASSUME NEW o \in Objects, NEW u \in {"suspended", "invalid", "wait", "running"},
               Update(p, o, u), o.hist = View(p).hist
        PROVE  OrderOK'
    <2>1. obj'[p] = o /\ op'[p] = u
      BY <1>1, <1>3 DEF Update, IInv, LocalsOK
    <2>2. Ordered(View(p).hist)
      BY <1>1, ViewOK, VersionInOrder DEF View
    <2> QED
      BY <1>1, <1>3, <2>1, <2>2, OrderKept DEF Recording
  <1>4. View(p) \in Objects /\ now \in Nat
    BY <1>1, ViewOK, TimesOK
  <1>5. /\ [View(p) EXCEPT !.last = now] \in Objects
        /\ [View(p) EXCEPT !.last = now].hist = View(p).hist
    BY <1>4 DEF Objects
  <1> QED
    BY <1>2, <1>3, <1>4, <1>5
       DEF Reconcile, ReconcileGone, ReconcileSuspended, ReconcileInvalid,
           ReconcileWait, ReconcileRun

LEMMA PutInOrder ==
  ASSUME IInv, OrderOK, NEW p, Procs = {p}, PutOk(p) \/ PutFailed(p) \/ PutFault(p)
  PROVE  OrderOK'
  <1>1. /\ p \in Procs /\ Written(p) \in Objects /\ Ordered(Written(p).hist)
        /\ op[p] = "advance" => Newer(Written(p).hist, obj[p].sha)
    BY WrittenOK, WrittenInOrder
  <1>2. UNCHANGED versions \/ Store(Written(p))
    BY DEF PutOk, PutFailed, PutFault, Exhausted
  <1>3. ASSUME Leave(p) PROVE OrderOK'
    <2>1. Ordered(obj'[p].hist) /\ ~Recording(p)'
      BY <1>1, <1>3, LeaveInOrder
    <2> QED
      BY <1>1, <1>2, <2>1, OrderKept, OrderStored
  <1>4. CASE UpdateFailed(p)
    BY <1>3, <1>4 DEF UpdateFailed, ReturnError
  <1>5. CASE PutOk(p)
    <2>1. Store(Written(p)) /\ UpdateDone(p, Written(p))
      BY <1>5 DEF PutOk
    <2>2. CASE op[p] = "running"
      <3>1. obj' = [obj EXCEPT ![p] = Written(p)] /\ op' = op
        BY <2>1, <2>2 DEF UpdateDone
      <3>2. obj'[p] = Written(p) /\ ~Recording(p)'
        BY <1>1, <2>2, <3>1 DEF IInv, LocalsOK, Recording
      <3> QED
        BY <1>1, <2>1, <3>2, OrderStored
    <2>3. CASE op[p] = "advance"
      <3>1. Update(p, [obj[p] EXCEPT !.next = Written(p).next], "recordCommitted")
        BY <2>1, <2>3 DEF UpdateDone
      <3>2. /\ obj'[p] = [obj[p] EXCEPT !.next = Written(p).next]
            /\ obj[p] \in Objects /\ Ordered(obj[p].hist)
        BY <1>1, <3>1 DEF Update, IInv, LocalsOK, OrderOK
      <3>3. obj'[p].hist = obj[p].hist /\ obj'[p].sha = obj[p].sha
        BY <3>2 DEF Objects
      <3>4. Recording(p)
        BY <2>3 DEF Recording
      <3> QED
        BY <1>1, <2>1, <2>3, <3>2, <3>3, <3>4, OrderStored
    <2>4. CASE op[p] \notin {"running", "advance"}
      <3>1. op[p] \in {"suspended", "invalid", "wait", "recordCommitted", "recordFailed",
                       "recordPending"}
        BY <1>1, <2>4 DEF IInv, LocalsOK, Ops, StatusOps, NextOps, RecordOps
      <3> QED
        BY <1>3, <2>1, <3>1 DEF UpdateDone, ReturnError
    <2> QED
      BY <2>2, <2>3, <2>4
  <1> QED
    BY <1>4, <1>5 DEF PutFailed, PutFault

LEMMA ExecuteInOrder ==
  ASSUME IInv, OrderOK, NEW p, Procs = {p},
         Gate(p) \/ Rest(p) \/ Auth(p) \/ GitPushed(p) \/ GitFailed(p)
  PROVE  OrderOK'
  <1>1. /\ UNCHANGED versions /\ p \in Procs
        /\ obj[p] \in Objects /\ Ordered(obj[p].hist) /\ pushes \in Nat
    BY DEF Gate, Rest, Auth, GitPushed, GitFailed, Working, kubeVars, IInv, LocalsOK,
           OrderOK, CountersOK
  <1>2. ASSUME NEW o \in Objects, o.hist = obj[p].hist, NEW u \in RecordOps,
               u # "recordCommitted", Update(p, o, u)
        PROVE  OrderOK'
    <2>1. obj'[p] = o /\ op'[p] = u
      BY <1>1, <1>2 DEF Update, IInv, LocalsOK
    <2> QED
      BY <1>1, <1>2, <2>1, OrderKept DEF Recording, RecordOps
  <1>3. ASSUME NEW o \in Objects, o.hist = obj[p].hist, o.sha = obj[p].sha,
               obj' = [obj EXCEPT ![p] = o], op' = op
        PROVE  OrderOK'
    <2>1. obj'[p] = o
      BY <1>1, <1>3 DEF IInv, LocalsOK
    <2> QED
      BY <1>1, <1>3, <2>1, OrderKept DEF Recording
  <1>4. ASSUME NEW l, Move(p, l) PROVE OrderOK'
    BY <1>1, <1>4, OrderKept DEF Move, Recording
  <1>5. /\ Counted(p) \in Objects /\ Counted(p).hist = obj[p].hist
        /\ Counted(p).sha = obj[p].sha
    BY SMTT(20), <1>1 DEF Counted, Objects
  <1>6. "recordFailed" \in RecordOps /\ "recordPending" \in RecordOps
    BY DEF RecordOps
  <1>7. CASE Gate(p) \/ Rest(p) \/ Auth(p) \/ GitFailed(p)
    BY <1>1, <1>2, <1>3, <1>4, <1>5, <1>6, <1>7 DEF Gate, Rest, Auth, GitFailed
  <1>8. CASE GitPushed(p)
    <2>1. obj'[p] = [obj[p] EXCEPT !.sha = pushes + 1]
      BY <1>1, <1>8 DEF GitPushed, Update, IInv, LocalsOK
    <2>2. obj'[p].hist = obj[p].hist /\ obj'[p].sha = pushes + 1
      BY <1>1, <2>1 DEF Objects
    <2>3. ASSUME NEW k \in 1 .. RV PROVE Newer(versions[k].hist, pushes + 1)
      <3>1. HistoryOK(versions[k].hist, pushes) /\ versions[k].hist \in Seq(Records)
        BY VersionOK DEF Objects
      <3>2. \A i \in DOMAIN versions[k].hist :
                /\ versions[k].hist[i].sha <= pushes
                /\ versions[k].hist[i].sha \in Nat
        <4>1. \A i \in DOMAIN versions[k].hist : versions[k].hist[i] \in Records
          BY <3>1
        <4> QED
          BY <3>1, <4>1 DEF HistoryOK, Records
      <3> QED
        BY <1>1, <3>2 DEF Newer
    <2>4. RV' = RV /\ \A k \in 1 .. RV : Ordered(versions[k].hist)
      BY <1>1, VersionInOrder DEF RV
    <2> QED
      BY <1>1, <2>2, <2>3, <2>4 DEF OrderOK
  <1> QED
    BY <1>7, <1>8

LEMMA OrderNext ==
  ASSUME OneProcess, IInv, OrderOK, [Next]_vars
  PROVE  OrderOK'
  <1>1. PICK p : Procs = {p}
    BY DEF OneProcess
  <1>2. p \in Procs /\ Ordered(obj[p].hist)
    BY <1>1 DEF OrderOK
  <1>3. CASE UNCHANGED <<versions, obj, op>>
    BY <1>1, <1>2, <1>3, OrderKept DEF Recording
  <1>4. CASE Crash(p)
    <2>1. Leave(p) /\ UNCHANGED versions
      BY <1>4 DEF Crash, Relist
    <2> QED
      BY <1>1, <1>2, <2>1, LeaveInOrder, OrderKept
  <1>5. CASE UserEdit \/ UserDelete
    <2>1. PICK o \in Objects : Write(o) /\ o.hist = Current.hist
      BY <1>5, UserWrites
    <2>2. UNCHANGED <<obj, op>>
      BY <1>5 DEF UserEdit, UserDelete, workerVars
    <2>3. RV \in 1 .. RV
      BY CurrentOK
    <2>4. Ordered(o.hist) /\ (Recording(p) => Newer(o.hist, obj[p].sha))
      BY <1>2, <2>1, <2>3, VersionInOrder DEF Current
    <2>5. CASE o = Current
      <3>1. \A k \in 1 .. RV' : \E m \in 1 .. RV : versions'[k] = versions[m]
        <4>1. /\ RV \in Nat /\ RV' = RV + 1 /\ versions'[RV + 1] = Current
              /\ \A k \in 1 .. RV : versions'[k] = versions[k]
          BY <2>1, <2>5, WriteType, CurrentOK DEF IInv, StoreOK
        <4> QED
          BY <2>3, <4>1 DEF Current
      <3> QED
        BY <2>2, <3>1 DEF OrderOK, Recording
    <2>6. CASE o # Current
      <3>1. Store(o)
        BY <2>1, <2>6 DEF Store
      <3> QED
        BY <1>1, <1>2, <2>2, <2>4, <3>1, OrderStored DEF Recording
    <2> QED
      BY <2>5, <2>6
  <1>6. ASSUME Step(p) PROVE OrderOK'
    <2>1. CASE GetOk(p) \/ PutConflict(p)
      BY <1>3, <2>1 DEF GetOk, PutConflict
    <2> QED
      BY <1>1, <1>6, <2>1, ReconcileInOrder, PutInOrder, ExecuteInOrder DEF Step
  <1>7. CASE Delivered(p) \/ Elapsed(p) \/ Ticked \/ UNCHANGED vars
    BY <1>3, <1>7 DEF Delivered, Elapsed, Ticked, Watch, Timer, Tick, Deliver, TimerFire,
                      workerVars, kubeVars, vars
  <1> QED
    BY <1>1, <1>4, <1>5, <1>6, <1>7, PutInOrder DEF Next, Environment

(* The execution history tells the truth, newest first: each record that   *)
(* says Committed names a commit on the remote, and an older record names  *)
(* an older commit, on caches however old and whatever crashes, edits,     *)
(* conflicts and failed calls come in between.                             *)
THEOREM HistoryTellsTheTruth == OneProcess => (Spec => []HistoryIsHonest)
  <1> SUFFICES ASSUME OneProcess PROVE Spec => []HistoryIsHonest
    OBVIOUS
  <1>1. Init => OrderOK
    <2> SUFFICES ASSUME Init PROVE OrderOK
      OBVIOUS
    <2>1. PICK s \in Specs, c \in CallsBefore : KubeInit(NewObject(s, c))
      BY DEF Init
    <2>2. versions = <<NewObject(s, c)>> /\ NewObject(s, c).hist = <<>>
      BY <2>1 DEF KubeInit, NewObject
    <2>3. RV = 1 /\ versions[1].hist = <<>>
      BY <2>2 DEF RV
    <2>4. \A p \in Procs : obj[p] = versions[1] /\ op[p] = "wait"
      BY DEF Init, ScheduleInit
    <2> QED
      BY <2>3, <2>4 DEF OrderOK, Ordered, Recording
  <1>2. IInv /\ OrderOK /\ [Next]_vars => OrderOK'
    BY OrderNext
  <1>3. IInv /\ OrderOK => HistoryIsHonest
    <2> SUFFICES ASSUME IInv, OrderOK, NEW k \in 1 .. RV
                 PROVE  HistoryOK(versions[k].hist, pushes) /\ Ordered(versions[k].hist)
      BY DEF HistoryIsHonest, HistoryOK, Ordered
    <2> QED
      BY VersionOK DEF OrderOK
  <1> QED
    BY <1>1, <1>2, <1>3, Invariance, PTL DEF Spec

-----------------------------------------------------------------------------
(* Runs and records are accounted for.                                     *)

(* One process whose reads are current.                                    *)
Ideal == CacheLag = FALSE /\ OneProcess

Accounts(p) == IInv /\ AccountOK /\ CacheLag = FALSE /\ Procs = {p}

LEMMA AccountFacts ==
  ASSUME NEW p, Accounts(p)
  PROVE  /\ p \in Procs /\ Typed(p, Objects, PCs) /\ CountsTyped(p) /\ Met(p) <= edits
         /\ Current \in Objects /\ obj[p] \in Objects /\ op[p] \in Ops /\ pc[p] \in PCs
         /\ Current.last \in Nat /\ Current.next \in Nat /\ Current.hist \in Seq(Records)
         /\ Len(Current.hist) \in Nat /\ Len(Current.hist) <= MaxHistory
         /\ now \in Nat \ {0} /\ start[p] \in 0 .. now /\ runs \in Nat
         /\ Spare(p) \in Nat /\ Mishaps \in Nat /\ Spare(p) <= Mishaps
         /\ Period \in Nat \ {0}
  <1>1. p \in Procs
    BY DEF Accounts
  <1>2. op = [q \in Procs |-> op[q]]
    BY DEF Accounts, IInv, LocalsOK
  <1>3. CountsTyped(p)
    BY <1>1 DEF Accounts, IInv, CountersOK, LocalsOK, CountsTyped
  <1>4. now \in Nat \ {0}
    BY DEF Accounts, IInv, ClockOK
  <1>5. Typed(p, Objects, PCs)
    BY <1>2, <1>3, <1>4 DEF Typed, Accounts, IInv, StoreOK, LocalsOK, ClockOK
  <1>6. Met(p) <= edits
    BY <1>1 DEF Accounts, AccountOK
  <1>7. Current \in Objects /\ Len(Current.hist) <= MaxHistory
    BY CurrentOK DEF Accounts, HistoryOK
  <1>8. /\ Current.last \in Nat /\ Current.next \in Nat /\ Current.hist \in Seq(Records)
        /\ Len(Current.hist) \in Nat
    BY <1>7 DEF Objects
  <1>9. obj[p] \in Objects /\ op[p] \in Ops /\ pc[p] \in PCs /\ start[p] \in 0 .. now
        /\ runs \in Nat
    BY <1>1 DEF Accounts, IInv, LocalsOK, ClockOK, CountersOK
  <1> QED
    BY <1>1, <1>3, <1>4, <1>5, <1>6, <1>7, <1>8, <1>9, SpareType, ScheduleAssumption

(* A step that changes neither the plan nor the runs, and that does not    *)
(* end or record a run unless it costs a mishap.                           *)
LEMMA Carried ==
  ASSUME NEW p, Accounts(p), IInv', Charged(p), now <= now', runs' = runs,
         \/ Current'.gone
         \/ /\ Current'.last = Current.last /\ Current'.next = Current.next
            /\ Current'.hist = Current.hist /\ ~Current.gone
            /\ HandOK(p)' /\ ExecutionOK(p)'
            /\ Executing(p)' => Executing(p)
            /\ Unrecorded(p)' => Unrecorded(p)
            /\ \/ (Executing(p) => Executing(p)') /\ (Unrecorded(p) => Unrecorded(p)')
               \/ Spare(p) + 1 <= Spare(p)'
  PROVE  AccountOK'
  <1>1. /\ CountsTyped(p) /\ Met(p) <= edits /\ p \in Procs /\ Procs = {p}
        /\ now \in Nat \ {0} /\ runs \in Nat /\ Spare(p) \in Nat /\ Mishaps \in Nat
        /\ Period \in Nat \ {0} /\ Current.next \in Nat
        /\ Len(Current.hist) \in Nat
    BY AccountFacts DEF Accounts
  <1>2. CountsTyped(p)' /\ now' \in Nat
    BY <1>1 DEF CountsTyped, IInv, CountersOK, LocalsOK, ClockOK
  <1>3. Met(p)' <= edits' /\ Spare(p) <= Spare(p)' /\ Mishaps <= Mishaps'
    BY <1>1, <1>2, SpareGrows DEF Charged
  <1>4. Spare(p)' \in Nat /\ Mishaps' \in Nat
    BY <1>1, <1>2, SpareGrows DEF Charged
  <1>5. /\ now \div Period \in Nat /\ now' \div Period \in Nat
        /\ now \div Period <= now' \div Period
    BY <1>1, <1>2, DivLe, DivDef
  <1>6. RunsAccounted'
    <2>1. RunsAccounted
      BY <1>1 DEF Accounts, AccountOK
    <2> QED
      BY <1>1, <1>3, <1>4, <1>5, <2>1 DEF RunsAccounted
  <1>7. ASSUME ~Current'.gone
        PROVE  PlanOK' /\ HandOK(p)' /\ ExecutionOK(p)' /\ RunsOK(p)' /\ RecordsOK(p)'
    <2>1. /\ Current'.last = Current.last /\ Current'.next = Current.next
          /\ Current'.hist = Current.hist /\ ~Current.gone
          /\ HandOK(p)' /\ ExecutionOK(p)'
          /\ Executing(p)' => Executing(p)
          /\ Unrecorded(p)' => Unrecorded(p)
          /\ \/ (Executing(p) => Executing(p)') /\ (Unrecorded(p) => Unrecorded(p)')
             \/ Spare(p) + 1 <= Spare(p)'
      BY <1>7
    <2>2. PlanOK /\ RunsOK(p) /\ RecordsOK(p)
      BY <1>1, <2>1 DEF Accounts, AccountOK
    <2>3. Current.next \div Period \in Nat
      BY <1>1, DivDef
    <2>4. PlanOK'
      BY <1>1, <1>5, <2>1, <2>2, <2>3 DEF PlanOK
    <2>5. Slots \in Nat /\ Slots' = Slots /\ Slots <= Current.next \div Period + 1
          /\ Current.next \div Period <= Slots
      <3>1. 0 \div Period = 0
        BY <1>1
      <3> QED
        BY <2>1, <2>3, <3>1 DEF Slots
    <2>6. RunsOK(p)'
      BY <1>1, <1>3, <1>4, <2>1, <2>2, <2>3, <2>5 DEF RunsOK
    <2>7. RecordsOK(p)'
      <3>1. CASE Len(Current.hist) = MaxHistory
        BY <2>1, <3>1 DEF RecordsOK
      <3>2. CASE runs <= Len(Current.hist) + OpenRun(Unrecorded(p)) + Spare(p)
        <4>1. OpenRun(Unrecorded(p)) \in {0, 1} /\ OpenRun(Unrecorded(p)') \in {0, 1}
          BY DEF OpenRun
        <4>2. \/ OpenRun(Unrecorded(p)') = OpenRun(Unrecorded(p))
              \/ Spare(p) + 1 <= Spare(p)'
          BY <2>1 DEF OpenRun
        <4> HIDE DEF OpenRun, Unrecorded
        <4>3. runs' <= Len(Current'.hist) + OpenRun(Unrecorded(p)') + Spare(p)'
          BY <1>1, <1>3, <1>4, <2>1, <3>2, <4>1, <4>2
        <4> QED
          BY <4>3 DEF RecordsOK
      <3> QED
        BY <2>2, <3>1, <3>2 DEF RecordsOK
    <2> QED
      BY <2>1, <2>4, <2>6, <2>7
  <1> QED
    BY <1>1, <1>3, <1>6, <1>7 DEF AccountOK

LEMMA ReconcileAccount ==
  ASSUME NEW p, Accounts(p), IInv', Reconcile(p), runs' = runs
  PROVE  AccountOK' /\ Charged(p)
  <1> DEFINE o == [Current EXCEPT !.last = now]
  <1>1. /\ p \in Procs /\ Typed(p, Objects, PCs) /\ Current \in Objects
        /\ now \in Nat \ {0} /\ CacheLag = FALSE /\ Current.next \in Nat
    BY AccountFacts DEF Accounts
  <1>2. o.last = now /\ o.next = Current.next /\ o.hist = Current.hist
    BY <1>1 DEF Objects
  <1> HIDE DEF o
  <1>3. PlanOK \/ Current.gone
    BY <1>1 DEF Accounts, AccountOK
  <1>4. /\ UNCHANGED <<versions, edits, crashes, faults, now>>
        /\ Charged(p)
        /\ pc[p] = "idle"
        /\ \/ pc'[p] = "idle"
           \/ pc'[p] = "get" /\ op'[p] \in {"suspended", "invalid", "wait", "running"}
        /\ Current.gone \/ HandOK(p)'
    BY <1>1, <1>2, <1>3, ReconcileHand DEF o
  <1>5. Current' = Current
    BY <1>4 DEF Current, RV
  <1>6. ~Executing(p) /\ ~Unrecorded(p)
    BY <1>4 DEF Executing, Unrecorded, Updating
  <1>7. ~Executing(p)' /\ ~Unrecorded(p)'
    BY <1>4 DEF Executing, Unrecorded, Updating
  <1>8. ExecutionOK(p)'
    BY <1>7 DEF ExecutionOK
  <1>9. now <= now'
    BY <1>1, <1>4
  <1>10. CASE Current.gone
    BY <1>4, <1>5, <1>9, <1>10, Carried
  <1>11. CASE ~Current.gone
    BY <1>4, <1>5, <1>6, <1>7, <1>8, <1>9, <1>11, Carried
  <1> QED
    BY <1>10, <1>11

(* A step that moves the worker at most from one call of an update, or of  *)
(* an execution, to the next.                                              *)
LEMMA MovedAccount ==
  ASSUME NEW p, Accounts(p), IInv', Charged(p), UNCHANGED <<versions, runs>>,
         now <= now', obj'[p].last = obj[p].last, obj'[p].next = obj[p].next,
         obj'[p].hist = obj[p].hist, start'[p] = start[p],
         \/ op'[p] = op[p] /\ (Updating(p) <=> Updating(p)') /\ (Executing(p) <=> Executing(p)')
         \/ Executing(p) /\ Executing(p)' /\ (Updating(p)' => op'[p] \in Ops \ (StatusOps \cup {"wait"}))
  PROVE  AccountOK'
  <1>1. Current' = Current
    BY DEF Current, RV
  <1>2. CASE Current.gone
    BY <1>1, <1>2, Carried
  <1>3. CASE ~Current.gone
    <2>1. HandOK(p) /\ ExecutionOK(p) /\ p \in Procs
      BY <1>3, AccountFacts DEF Accounts, AccountOK
    <2>2. (Executing(p) <=> Executing(p)') /\ (Unrecorded(p) <=> Unrecorded(p)')
      BY DEF Unrecorded
    <2>3. HandOK(p)'
      <3>1. CASE op'[p] = op[p] /\ (Updating(p) <=> Updating(p)')
        BY <1>1, <2>1, <3>1 DEF HandOK
      <3>2. CASE Updating(p)' => op'[p] \in Ops \ (StatusOps \cup {"wait"})
        <4>1. Updating(p)' => op'[p] \notin {"suspended", "invalid", "running", "wait"}
          BY <3>2 DEF StatusOps
        <4> QED
          BY <4>1 DEF HandOK
      <3> QED
        BY <3>1, <3>2
    <2>4. ExecutionOK(p)'
      BY <1>1, <2>1, <2>2 DEF ExecutionOK
    <2> QED
      BY <1>1, <1>3, <2>2, <2>3, <2>4, Carried
  <1> QED
    BY <1>2, <1>3

LEMMA GetAccount ==
  ASSUME NEW p, Accounts(p), IInv', GetOk(p) \/ PutConflict(p), runs' = runs
  PROVE  AccountOK' /\ Charged(p)
  <1>1. /\ p \in Procs /\ Typed(p, Objects, PCs) /\ now \in Nat
        /\ CacheLag = FALSE
    BY AccountFacts DEF Accounts
  <1>2. Charged(p)
    BY <1>1, GetCharged
  <1>3. UNCHANGED <<versions, now, obj, start, op>>
    BY DEF GetOk, PutConflict
  <1>4. Updating(p) /\ Updating(p)'
    BY <1>1 DEF GetOk, PutConflict, Conflict, At, GoTo, Updating, Typed
  <1>5. Executing(p) <=> Executing(p)'
    BY <1>3, <1>4 DEF Executing, Updating
  <1>6. now <= now'
    BY <1>1, <1>3
  <1> QED
    BY <1>2, <1>3, <1>4, <1>5, <1>6, MovedAccount

(* The worker drops what it does: the update in hand, and the record of    *)
(* its execution, are lost.                                                *)
LEMMA LostAccount ==
  ASSUME NEW p, Accounts(p), IInv', Leave(p), Charged(p), Spare(p) + 1 <= Spare(p)',
         UNCHANGED <<versions, runs>>, now <= now'
  PROVE  AccountOK'
  <1>1. Current' = Current
    BY DEF Current, RV
  <1>2. pc'[p] = "idle"
    BY AccountFacts DEF Leave, GoTo, Typed
  <1>3. ~Executing(p)' /\ ~Unrecorded(p)' /\ HandOK(p)' /\ ExecutionOK(p)'
    BY <1>2 DEF Executing, Unrecorded, Updating, HandOK, ExecutionOK
  <1>4. CASE Current.gone
    BY <1>1, <1>4, Carried
  <1>5. CASE ~Current.gone
    BY <1>1, <1>3, <1>5, Carried
  <1> QED
    BY <1>4, <1>5

LEMMA EnvironmentAccount ==
  ASSUME NEW p, Accounts(p), IInv', Watch(p) \/ Timer(p) \/ Tick \/ Crash(p), runs' = runs
  PROVE  AccountOK' /\ Charged(p)
  <1>1. /\ p \in Procs /\ Procs = {p} /\ Typed(p, Objects, PCs) /\ CountsTyped(p)
        /\ Met(p) <= edits
    BY AccountFacts DEF Accounts
  <1>2. /\ UNCHANGED <<versions, edits, faults>> /\ now <= now'
        /\ Charged(p)
        /\ \/ UNCHANGED workerVars
           \/ Leave(p) /\ crashes' = crashes + 1
    BY <1>1, EnvironmentCharged
  <1>3. CASE UNCHANGED workerVars
    <2>1. UNCHANGED <<pc, obj, start, op>>
      BY <1>3 DEF workerVars
    <2>2. (Updating(p) <=> Updating(p)') /\ (Executing(p) <=> Executing(p)')
      BY <2>1 DEF Updating, Executing
    <2> QED
      BY <1>2, <2>1, <2>2, MovedAccount
  <1>4. CASE Leave(p) /\ crashes' = crashes + 1
    <2>1. CountsTyped(p)'
      BY <1>1 DEF CountsTyped, IInv, CountersOK, LocalsOK
    <2>2. crashes + faults < crashes' + faults'
      BY <1>1, <1>2, <1>4 DEF CountsTyped
    <2>3. Spare(p) + 1 <= Spare(p)'
      BY <1>1, <1>2, <2>1, <2>2, SpareGrows DEF Charged
    <2> QED
      BY <1>2, <1>4, <2>3, LostAccount
  <1> QED
    BY <1>2, <1>3, <1>4

LEMMA UserAccount ==
  ASSUME NEW p, Accounts(p), IInv', UserEdit \/ UserDelete, runs' = runs
  PROVE  AccountOK' /\ Charged(p)
  <1>1. /\ p \in Procs /\ Procs = {p} /\ Typed(p, Objects, PCs) /\ CountsTyped(p)
        /\ Current \in Objects /\ now \in Nat /\ Met(p) \in Nat
    BY AccountFacts, MetType DEF Accounts
  <1>2. UNCHANGED <<now, pc, obj, start, fresh, op, tries, crashes, faults>>
    BY DEF UserEdit, UserDelete, clockVars, workerVars, boundVars
  <1>3. now <= now'
    BY <1>1, <1>2
  <1>4. CASE UserEdit
    <2>1. PICK s \in Specs :
              Write([Current EXCEPT !.suspend = s.suspend, !.valid = s.valid])
      BY <1>4 DEF UserEdit
    <2> DEFINE o == [Current EXCEPT !.suspend = s.suspend, !.valid = s.valid]
    <2>2. s \in [suspend: BOOLEAN, valid: BOOLEAN]
      BY ScheduleAssumption
    <2>3. /\ o \in Objects /\ o.last = Current.last /\ o.next = Current.next
          /\ o.hist = Current.hist
      BY <1>1, <2>2 DEF Objects
    <2> HIDE DEF o
    <2>4. Write(o)
      BY <2>1 DEF o
    <2>5. Charged(p) /\ Current' = o
      BY <1>1, <1>4, <2>3, <2>4, EditCharged, WriteType DEF Typed
    <2>6. ~Current.gone
      BY <1>4 DEF UserEdit
    <2>7. HandOK(p) /\ ExecutionOK(p)
      BY <1>1, <2>6 DEF Accounts, AccountOK
    <2>8. HandOK(p)' /\ ExecutionOK(p)'
          /\ (Executing(p)' <=> Executing(p)) /\ (Unrecorded(p)' <=> Unrecorded(p))
      BY <1>2, <2>3, <2>5, <2>7 DEF HandOK, ExecutionOK, Executing, Unrecorded, Updating
    <2> QED
      BY <1>3, <2>3, <2>5, <2>6, <2>8, Carried
  <1>5. CASE UserDelete
    <2> DEFINE o == [Current EXCEPT !.gone = TRUE]
    <2>1. o \in Objects /\ o.gone
      BY <1>1 DEF Objects
    <2> HIDE DEF o
    <2>2. Write(o) /\ edits' = edits
      BY <1>5 DEF UserDelete, boundVars, o
    <2>3. Current'.gone
      BY <1>1, <2>1, <2>2, WriteType DEF Typed
    <2>4. Met(p)' = tries[p] /\ tries[p] <= Met(p) /\ tries[p] \in Nat
      BY <1>1, <1>2, <2>3, MetType DEF Met, Behind, CountsTyped
    <2>5. Charged(p)
      BY <1>1, <1>2, <2>2, <2>4 DEF Charged, CountsTyped
    <2> QED
      BY <1>3, <2>3, <2>5, Carried
  <1> QED
    BY <1>4, <1>5

LEMMA ExecuteAccount ==
  ASSUME NEW p, Accounts(p), IInv',
         Gate(p) \/ Rest(p) \/ Auth(p) \/ GitPushed(p) \/ GitFailed(p)
  PROVE  AccountOK' /\ Charged(p)
  <1>1. /\ p \in Procs /\ Typed(p, Objects, PCs) /\ CountsTyped(p)
        /\ obj[p] \in Objects /\ now \in Nat /\ Met(p) <= edits /\ Met(p) \in Nat
    BY AccountFacts, MetType DEF Accounts
  <1>2. /\ UNCHANGED <<versions, now, start, runs, edits, crashes, faults>>
        /\ pc[p] \in {"gate", "rest", "auth", "git"}
    BY DEF Gate, Rest, Auth, GitPushed, GitFailed, Working, kubeVars, boundVars, At
  <1>3. Met(p) = tries[p] /\ tries[p] \in Nat /\ Executing(p)
    BY <1>1, <1>2 DEF Met, Behind, At, Executing, CountsTyped
  <1>4. ASSUME NEW o \in Objects, NEW u \in {"advance", "recordFailed", "recordPending"},
               Update(p, o, u),
               o.last = obj[p].last, o.next = obj[p].next, o.hist = obj[p].hist
        PROVE  AccountOK' /\ Charged(p)
    <2>1. pc'[p] = "get" /\ obj'[p] = o /\ op'[p] = u /\ Met(p)' = 0
      BY <1>1, <1>4, MetNone DEF Update, GoTo, Typed
    <2>2. Charged(p)
      BY <1>1, <1>2, <1>3, <2>1 DEF Charged, CountsTyped
    <2>3. Executing(p)'
      BY <2>1 DEF Executing, Updating
    <2>4. u \in Ops \ (StatusOps \cup {"wait"})
      BY DEF Ops, StatusOps, NextOps, RecordOps
    <2>5. now <= now'
      BY <1>1, <1>2
    <2> QED
      BY <1>2, <1>3, <1>4, <2>1, <2>2, <2>3, <2>4, <2>5, MovedAccount
  <1>5. ASSUME NEW l \in {"rest", "auth", "git"}, GoTo(p, l), UNCHANGED tries,
               obj'[p].last = obj[p].last, obj'[p].next = obj[p].next,
               obj'[p].hist = obj[p].hist
        PROVE  AccountOK' /\ Charged(p)
    <2>1. pc'[p] = l
      BY <1>1, <1>5 DEF GoTo, Typed
    <2>2. Met(p)' = tries[p]
      BY <1>3, <1>5, <2>1 DEF Met, Behind, At
    <2>3. Charged(p)
      BY <1>1, <1>2, <1>3, <2>2 DEF Charged, CountsTyped
    <2>4. Executing(p)' /\ ~Updating(p)'
      BY <2>1 DEF Executing, Updating
    <2>5. now <= now'
      BY <1>1, <1>2
    <2> QED
      BY <1>2, <1>3, <1>5, <2>3, <2>4, <2>5, MovedAccount
  <1>6. ASSUME NEW l \in {"rest", "auth", "git"}, Move(p, l) PROVE AccountOK' /\ Charged(p)
    BY <1>5, <1>6 DEF Move
  <1>7. /\ Counted(p) \in Objects /\ Counted(p).last = obj[p].last
        /\ Counted(p).next = obj[p].next /\ Counted(p).hist = obj[p].hist
    <2>1. obj[p] \in Objects
      BY <1>1
    <2> QED
      BY SMTT(20), <2>1 DEF Counted, Objects
  <1>8. CASE Gate(p) \/ Auth(p) \/ GitFailed(p)
    BY <1>1, <1>4, <1>6, <1>8 DEF Gate, Auth, GitFailed
  <1>9. CASE Rest(p)
    <2>1. CASE GoTo(p, "auth") /\ obj' = [obj EXCEPT ![p] = Counted(p)]
               /\ UNCHANGED <<fresh, op, tries>>
      <3>1. obj'[p] = Counted(p)
        BY <1>1, <2>1 DEF Typed
      <3> QED
        BY <1>5, <1>7, <2>1, <3>1
    <2>2. CASE \/ Update(p, Counted(p), "recordPending")
               \/ Update(p, Counted(p), "recordFailed")
               \/ Update(p, obj[p], "recordFailed")
      BY <1>1, <1>4, <1>7, <2>2
    <2> QED
      BY <1>9, <2>1, <2>2 DEF Rest
  <1>10. CASE GitPushed(p)
    <2> DEFINE o == [obj[p] EXCEPT !.sha = pushes + 1]
    <2>1. /\ o \in Objects /\ o.last = obj[p].last /\ o.next = obj[p].next
          /\ o.hist = obj[p].hist
      <3>1. pushes + 1 \in Nat
        BY <1>1, TimesOK DEF Accounts
      <3> QED
        BY <1>1, <3>1 DEF Objects
    <2>2. Update(p, o, "advance")
      BY <1>10 DEF GitPushed
    <2> HIDE DEF o
    <2> QED
      BY <1>4, <2>1, <2>2
  <1> QED
    BY <1>8, <1>9, <1>10

(* The times up to the next one that a written status leaves.              *)
SlotsOf(w) == IF w.next = 0 THEN 1 ELSE w.next \div Period

(* What an accepted update writes, by its kind.                            *)
LEMMA WrittenFields ==
  ASSUME NEW p, Accounts(p), At(p, "put"), Accepted(p)
  PROVE  /\ Written(p) \in Objects /\ Written(p).gone = Current.gone
         /\ op[p] \in {"suspended", "invalid"} =>
                /\ Written(p).last = Current.last /\ Written(p).next = Current.next
                /\ Written(p).hist = Current.hist
         /\ op[p] = "running" =>
                /\ Written(p).last = start[p] /\ start[p] # 0
                /\ Written(p).next = Current.next
                /\ Written(p).hist = Current.hist
         /\ op[p] \in NextOps =>
                /\ Written(p).last = Current.last /\ Written(p).next = NextRun(start[p])
                /\ Written(p).hist = Current.hist
         /\ op[p] \in RecordOps =>
                /\ Written(p).last # 0
                /\ Written(p).next = IF op[p] = "recordCommitted" THEN Current.next
                                     ELSE NextRun(start[p])
                /\ Len(Written(p).hist) = IF Len(Current.hist) < MaxHistory
                                          THEN Len(Current.hist) + 1 ELSE MaxHistory
  <1>1. /\ p \in Procs /\ Current \in Objects /\ obj[p] \in Objects /\ op[p] \in Ops
        /\ start[p] \in 0 .. now /\ now \in Nat \ {0} /\ Current.hist \in Seq(Records)
        /\ Len(Current.hist) \in Nat /\ Len(Current.hist) <= MaxHistory
        /\ Current.last \in Nat /\ Current.next \in Nat
        /\ start[p] \in Nat
    BY AccountFacts
  <1>2. ~Current.gone /\ HandOK(p) /\ ExecutionOK(p) /\ Updating(p)
    BY <1>1 DEF Accepted, At, Updating, Accounts, AccountOK
  <1>3. Written(p) = Merge(p, Current)
    BY DEF Written, Accepted, Current
  <1>4. Written(p) \in Objects /\ HistoryOK(Written(p).hist, pushes)
    BY <1>1, WrittenOK DEF Accounts
  <1>5. NextRun(start[p]) \in Nat /\ NextRun(start[p]) # 0
    BY <1>1, NextRunType, NextRunSlot
  <1>6. obj[p].hist \in Seq(Records) /\ obj[p].last \in Nat /\ obj[p].next \in Nat
    BY <1>1 DEF Objects
  <1>7. CASE op[p] \in StatusOps
    <2> DEFINE w == MergeStatus(Current, obj[p], PhaseOf(op[p]))
    <2>1. Written(p) = w
      BY <1>3, <1>7 DEF Merge, StatusOps, NextOps
    <2>2. /\ w.gone = Current.gone
          /\ w.last = IF obj[p].last # 0 THEN obj[p].last ELSE Current.last
          /\ w.next = IF obj[p].next # 0 THEN obj[p].next ELSE Current.next
          /\ w.hist = IF Len(obj[p].hist) > 0 THEN obj[p].hist ELSE Current.hist
      BY <1>1 DEF MergeStatus, Objects
    <2>3. /\ obj[p].next = Current.next /\ obj[p].hist = Current.hist
          /\ op[p] = "running" => obj[p].last = start[p] /\ start[p] # 0
          /\ op[p] # "running" => obj[p].last = Current.last
      BY <1>2, <1>7 DEF HandOK, StatusOps
    <2>4. op[p] \notin NextOps /\ op[p] \notin RecordOps
      BY <1>7 DEF StatusOps, NextOps, RecordOps
    <2> HIDE DEF w
    <2> QED
      BY <1>4, <2>1, <2>2, <2>3, <2>4
  <1>8. CASE op[p] \in NextOps
    <2> DEFINE w == [Current EXCEPT !.next = NextRun(start[p])]
    <2>1. Written(p) = w
      BY <1>3, <1>8 DEF Merge, StatusOps, NextOps
    <2>2. /\ w.gone = Current.gone /\ w.last = Current.last
          /\ w.next = NextRun(start[p]) /\ w.hist = Current.hist
      BY <1>1 DEF Objects
    <2>3. op[p] \notin {"suspended", "invalid", "running"} /\ op[p] \notin RecordOps
      BY <1>8 DEF NextOps, RecordOps
    <2> HIDE DEF w
    <2> QED
      BY <1>4, <2>1, <2>2, <2>3
  <1>9. CASE op[p] \in RecordOps
    <2>1. Unrecorded(p)
      BY <1>2, <1>9 DEF Unrecorded, Executing, RecordOps
    <2>2. obj[p].last # 0
      BY <1>2, <2>1 DEF ExecutionOK
    <2>3. PICK ph \in {"Committed", "Failed", "Pending"}, t \in Nat :
            /\ Written(p) = MergeRecord(Current, obj[p], ph, t)
            /\ t = IF op[p] = "recordCommitted" THEN 0 ELSE NextRun(start[p])
      <3>1. CASE op[p] = "recordCommitted"
        <4>1. Written(p) = MergeRecord(Current, obj[p], "Committed", 0)
          BY <1>3, <3>1 DEF Merge, StatusOps, NextOps
        <4> QED
          BY <3>1, <4>1
      <3>2. CASE op[p] \in {"recordFailed", "recordPending"}
        <4>1. Written(p) = MergeRecord(Current, obj[p], PhaseOf(op[p]), NextRun(start[p]))
          BY <1>3, <3>2 DEF Merge, StatusOps, NextOps
        <4>2. PhaseOf(op[p]) \in {"Failed", "Pending"}
          BY <3>2 DEF PhaseOf
        <4> QED
          BY <1>5, <3>2, <4>1, <4>2
      <3> QED
        BY <1>9, <3>1, <3>2 DEF RecordOps
    <2> DEFINE n == IF ph = "Committed" THEN obj[p].sha ELSE 0
    <2>8. n \in Nat /\ ph \in Phases
      <3>1. obj[p].sha \in Nat
        BY <1>1 DEF Objects
      <3> QED
        BY <3>1 DEF Phases
    <2>9. Written(p) = [Current EXCEPT !.phase = ph, !.sync = now, !.sha = n,
                                !.last = obj[p].last, !.next = IF t # 0 THEN t ELSE @,
                                !.hist = Recorded(Current.hist, [sha |-> n, phase |-> ph])]
      BY <2>3 DEF MergeRecord, Recorded
    <2> HIDE DEF n
    <2> DEFINE g == Recorded(Current.hist, [sha |-> n, phase |-> ph])
    <2>4. [sha |-> n, phase |-> ph] \in Records
      BY <2>8 DEF Records
    <2>5. Len(g) = IF Len(Current.hist) < MaxHistory
                   THEN Len(Current.hist) + 1 ELSE MaxHistory
      <3>1. /\ Len(Current.hist) + 1 <= MaxHistory => Len(g) = Len(Current.hist) + 1
            /\ MaxHistory <= Len(Current.hist) => Len(g) = MaxHistory
        BY <1>1, <2>4, RecordFirst
      <3> QED
        BY <1>1, <3>1, ScheduleAssumption
    <2>6. /\ Written(p).gone = Current.gone /\ Written(p).last = obj[p].last
          /\ Written(p).next = IF t # 0 THEN t ELSE Current.next
          /\ Written(p).hist = g
      BY <1>1, <2>9 DEF Objects
    <2>7. op[p] \notin {"suspended", "invalid", "running"} /\ op[p] \notin NextOps
      BY <1>9 DEF NextOps, RecordOps
    <2> HIDE DEF g
    <2> QED
      BY <1>4, <1>5, <2>2, <2>3, <2>5, <2>6, <2>7
  <1> QED
    BY <1>1, <1>7, <1>8, <1>9 DEF Ops

(* The accounts of what is written: a Running update begins one run more,  *)
(* every other leaves a plan with room for all of them.                    *)
LEMMA WrittenBalance ==
  ASSUME NEW p, Accounts(p), At(p, "put"), Accepted(p),
         NEW w, w = Written(p), NEW b, b = OpenRun(op[p] = "advance")
  PROVE  /\ w \in Objects /\ ~w.gone
         /\ w.last = 0 => w.next = 0 /\ runs = 0 /\ op[p] # "running"
         /\ w.next \div Period <= now \div Period + 1
         /\ SlotsOf(w) \in Nat /\ w.next \div Period \in Nat
         /\ runs <= SlotsOf(w) + Spare(p)
         /\ op[p] = "running" =>
                /\ runs <= w.next \div Period + Spare(p)
                /\ runs <= now \div Period + Spare(p)
                /\ w.next <= start[p] /\ start[p] # 0
                /\ w.hist = Current.hist
         /\ op[p] = "advance" => w.hist = Current.hist /\ w.last = Current.last
         /\ \/ Len(w.hist) = MaxHistory
            \/ runs <= Len(w.hist) + b + Spare(p)
  <1>1. /\ p \in Procs /\ Current \in Objects /\ op[p] \in Ops
        /\ start[p] \in 0 .. now /\ start[p] \in Nat /\ now \in Nat
        /\ Current.last \in Nat /\ Current.next \in Nat
        /\ Len(Current.hist) \in Nat /\ Len(Current.hist) <= MaxHistory
        /\ runs \in Nat /\ Spare(p) \in Nat /\ Period \in Nat \ {0}
        /\ MaxHistory \in Nat
    BY AccountFacts, ScheduleAssumption
  <1>2. /\ ~Current.gone /\ Updating(p)
        /\ PlanOK /\ HandOK(p) /\ ExecutionOK(p) /\ RunsOK(p) /\ RecordsOK(p)
    BY <1>1 DEF Accepted, At, Updating, Accounts, AccountOK
  <1>3. /\ w \in Objects /\ w.gone = Current.gone /\ w.next \in Nat /\ w.last \in Nat
        /\ Len(w.hist) \in Nat
    BY WrittenFields DEF Objects
  <1> DEFINE d == Current.next \div Period
             e == w.next \div Period
             m == now \div Period
             s == start[p] \div Period
             x == NextRun(start[p])
             a == OpenRun(Unrecorded(p))
  <1>4. /\ d \in Nat /\ e \in Nat /\ m \in Nat /\ s \in Nat /\ s <= m
        /\ x \in Nat /\ x # 0 /\ x \div Period = s + 1
        /\ Current.next <= now => d <= m
        /\ Current.next <= start[p] => d <= s
    <2>1. start[p] <= now
      BY <1>1
    <2>2. s <= m
      BY <1>1, <2>1, DivLe
    <2>3. Current.next <= now => d <= m
      BY <1>1, DivLe
    <2>4. Current.next <= start[p] => d <= s
      BY <1>1, DivLe
    <2>5. x \in Nat /\ x # 0 /\ x \div Period = s + 1
      BY <1>1, NextRunType, NextRunSlot
    <2>6. d \in Nat /\ e \in Nat /\ m \in Nat /\ s \in Nat
      BY <1>1, <1>3, DivDef
    <2> QED
      BY <2>2, <2>3, <2>4, <2>5, <2>6
  <1>5. 0 \div Period = 0
    BY <1>1
  <1>6. Slots = IF Current.next = 0 THEN 1 ELSE d
    BY DEF Slots
  <1>7. SlotsOf(w) = IF w.next = 0 THEN 1 ELSE e
    BY DEF SlotsOf
  <1>8. /\ Current.last = 0 => Current.next = 0 /\ runs = 0
        /\ d <= m + 1
        /\ ~Executing(p) => runs <= Slots + Spare(p)
        /\ Executing(p) => runs <= d + 1 + Spare(p)
    BY <1>2 DEF PlanOK, RunsOK
  <1>9. \/ Len(Current.hist) = MaxHistory
        \/ runs <= Len(Current.hist) + a + Spare(p)
    BY <1>2 DEF RecordsOK
  <1>10. Executing(p) <=> op[p] \in {"advance", "recordFailed", "recordPending"}
    BY <1>2 DEF Executing, Updating
  <1>11. Unrecorded(p) <=> op[p] = "advance" \/ op[p] \in RecordOps
    BY <1>2, <1>10 DEF Unrecorded, RecordOps
  <1> HIDE DEF d, m, s, x, a
  <1>12. e = IF w.next = Current.next THEN d ELSE e
    BY DEF d
  <1>13. w.next = x => e = s + 1
    BY <1>4
  <1> HIDE DEF e
  <1>14. CASE op[p] \in {"suspended", "invalid"}
    <2>1. /\ w.last = Current.last /\ w.next = Current.next /\ w.hist = Current.hist
          /\ op[p] \notin {"running", "advance"} /\ op[p] \notin RecordOps
      BY <1>14, WrittenFields DEF RecordOps
    <2>2. ~Executing(p) /\ ~Unrecorded(p)
      BY <1>10, <1>11, <1>14 DEF RecordOps
    <2>3. a = 0 /\ b = 0
      BY <2>1, <2>2 DEF OpenRun, a
    <2> QED
      BY <1>1, <1>2, <1>3, <1>4, <1>6, <1>7, <1>8, <1>9, <1>12, <2>1, <2>2, <2>3 DEF e, m
  <1>15. CASE op[p] = "running"
    <2>1. /\ w.last = start[p] /\ start[p] # 0 /\ w.next = Current.next
          /\ w.hist = Current.hist /\ op[p] # "advance"
      BY <1>15, WrittenFields
    <2>2. ~Executing(p) /\ ~Unrecorded(p)
      BY <1>10, <1>11, <1>15 DEF RecordOps
    <2>3. a = 0 /\ b = 0
      BY <2>1, <2>2 DEF OpenRun, a
    <2>4. Current.last = 0 \/ (Current.next # 0 /\ Current.next <= start[p])
      BY <1>2, <1>15 DEF HandOK
    <2>5. e = d
      BY <1>12, <2>1
    <2>6. runs <= d + Spare(p) /\ Current.next <= start[p]
      BY <1>1, <1>4, <1>6, <1>8, <2>2, <2>4
    <2>7. d <= m
      BY <1>4, <2>6, <1>1
    <2>8. runs <= SlotsOf(w) + Spare(p) /\ SlotsOf(w) \in Nat
      BY <1>1, <1>4, <1>6, <1>7, <1>8, <2>1, <2>2, <2>5
    <2>9. runs <= m + Spare(p)
      BY <1>1, <1>4, <2>6, <2>7
    <2> QED
      BY <1>1, <1>2, <1>3, <1>4, <1>8, <1>9, <2>1, <2>3, <2>5, <2>6, <2>8, <2>9
         DEF e, d, m
  <1>16. CASE op[p] \in NextOps
    <2>1. /\ w.last = Current.last /\ w.next = x /\ w.hist = Current.hist
          /\ op[p] # "running" /\ op[p] \notin RecordOps
      BY <1>16, WrittenFields DEF x, NextOps, RecordOps
    <2>2. e = s + 1 /\ SlotsOf(w) = e
      BY <1>4, <1>7, <1>13, <2>1
    <2>3. CASE op[p] = "wait"
      <3>1. ~Executing(p) /\ ~Unrecorded(p)
        BY <1>10, <1>11, <2>3 DEF RecordOps
      <3>2. a = 0 /\ b = 0
        BY <2>3, <3>1 DEF OpenRun, a
      <3>3. Current.last # 0 /\ d <= s + 1
        BY <1>2, <2>3 DEF HandOK, d, s
      <3>4. runs <= SlotsOf(w) + Spare(p)
        BY <1>1, <1>4, <1>6, <1>8, <2>2, <3>1, <3>3
      <3>5. Len(w.hist) = MaxHistory \/ runs <= Len(w.hist) + b + Spare(p)
        BY <1>9, <2>1, <3>2
      <3>6. e <= m + 1
        BY <1>4, <2>2
      <3> QED
        BY <1>2, <1>3, <1>4, <2>1, <2>2, <2>3, <3>3, <3>4, <3>5, <3>6 DEF e, m
    <2>4. CASE op[p] = "advance"
      <3>1. Executing(p) /\ Unrecorded(p)
        BY <1>10, <1>11, <2>4
      <3>2. a = b
        BY <2>4, <3>1 DEF OpenRun, a
      <3>3. Current.last # 0 /\ d <= s
        BY <1>2, <1>4, <3>1 DEF ExecutionOK
      <3> QED
        BY SMTT(20), <1>1, <1>2, <1>3, <1>4, <1>8, <1>9, <2>1, <2>2, <3>1, <3>2, <3>3
           DEF e, m
    <2> QED
      BY <1>16, <2>3, <2>4 DEF NextOps
  <1>17. CASE op[p] \in RecordOps
    <2>1. /\ w.last # 0 /\ op[p] # "running" /\ op[p] # "advance"
          /\ w.next = IF op[p] = "recordCommitted" THEN Current.next ELSE x
          /\ Len(w.hist) = IF Len(Current.hist) < MaxHistory
                           THEN Len(Current.hist) + 1 ELSE MaxHistory
      BY <1>17, WrittenFields DEF x, RecordOps
    <2>2. a = 1 /\ b = 0
      BY <1>11, <1>17, <2>1 DEF OpenRun, a
    <2>3. \/ Len(w.hist) = MaxHistory
          \/ runs <= Len(w.hist) + b + Spare(p)
      BY <1>1, <1>9, <2>1, <2>2
    <2>4. CASE op[p] = "recordCommitted"
      <3>1. ~Executing(p) /\ w.next = Current.next
        BY <1>10, <2>1, <2>4
      <3> QED
        BY SMTT(20), <1>1, <1>2, <1>3, <1>4, <1>6, <1>7, <1>8, <1>12, <2>1, <2>3, <3>1 DEF e, m
    <2>5. CASE op[p] \in {"recordFailed", "recordPending"}
      <3>1. Executing(p) /\ Unrecorded(p) /\ w.next = x
        BY <1>10, <1>11, <1>17, <2>1, <2>5
      <3>2. d <= s
        BY <1>2, <1>4, <3>1 DEF ExecutionOK
      <3>3. e = s + 1 /\ SlotsOf(w) = e
        BY <1>4, <1>7, <1>13, <3>1
      <3>4. e <= m + 1 /\ e \in Nat
        BY <1>4, <3>3
      <3>5. runs <= SlotsOf(w) + Spare(p)
        BY <1>1, <1>4, <1>8, <3>1, <3>2, <3>3
      <3> QED
        BY <1>2, <1>3, <1>4, <2>1, <2>3, <2>5, <3>3, <3>4, <3>5 DEF e, m
    <2> QED
      BY <1>17, <2>4, <2>5 DEF RecordOps
  <1> QED
    BY <1>1, <1>14, <1>15, <1>16, <1>17 DEF Ops, StatusOps

(* The update has been stored; the worker goes on, or leaves at the cost   *)
(* of a mishap.                                                            *)
LEMMA StoredAccount ==
  ASSUME NEW p, Accounts(p), IInv', At(p, "put"), Accepted(p), Store(Written(p)),
         CountRun(p), Charged(p), now' = now, HandOK(p)', ExecutionOK(p)',
         \/ /\ Executing(p)' <=> op[p] = "running"
            /\ Unrecorded(p)' <=> op[p] \in {"running", "advance"}
         \/ ~Executing(p)' /\ ~Unrecorded(p)' /\ Spare(p) + 1 <= Spare(p)'
  PROVE  AccountOK'
  <1> DEFINE w == Written(p)
             b == OpenRun(op[p] = "advance")
             a == OpenRun(Unrecorded(p)')
             e == w.next \div Period
             m == now \div Period
  <1>1. /\ CountsTyped(p) /\ Met(p) <= edits /\ p \in Procs /\ Procs = {p}
        /\ now \in Nat \ {0} /\ runs \in Nat /\ Spare(p) \in Nat /\ Mishaps \in Nat
        /\ Spare(p) <= Mishaps /\ Period \in Nat \ {0} /\ Typed(p, Objects, PCs)
    BY AccountFacts DEF Accounts
  <1>2. CountsTyped(p)'
    BY <1>1 DEF CountsTyped, IInv, CountersOK, LocalsOK
  <1>3. /\ Met(p)' <= edits' /\ Spare(p) <= Spare(p)' /\ Mishaps <= Mishaps'
        /\ Spare(p)' \in Nat /\ Mishaps' \in Nat
    BY <1>1, <1>2, SpareGrows DEF Charged
  <1>4. /\ w \in Objects /\ ~w.gone
        /\ w.last = 0 => w.next = 0 /\ runs = 0 /\ op[p] # "running"
        /\ e <= m + 1
        /\ SlotsOf(w) \in Nat /\ e \in Nat
        /\ runs <= SlotsOf(w) + Spare(p)
        /\ op[p] = "running" => /\ runs <= e + Spare(p)
                                /\ runs <= m + Spare(p)
                                /\ w.hist = Current.hist
        /\ \/ Len(w.hist) = MaxHistory
           \/ runs <= Len(w.hist) + b + Spare(p)
    BY WrittenBalance
  <1>5. Current' = w
    BY <1>1, <1>4, StoreCurrent DEF Typed
  <1>6. m \in Nat
    BY <1>1, DivDef
  <1>7. Slots' = SlotsOf(w)
    BY <1>5 DEF Slots, SlotsOf
  <1>8. runs' = IF op[p] = "running" THEN runs + 1 ELSE runs
    BY DEF CountRun
  <1>9. Len(w.hist) \in Nat
    BY <1>4 DEF Objects
  <1>10. /\ a = (IF Unrecorded(p)' THEN 1 ELSE 0)
         /\ b = (IF op[p] = "advance" THEN 1 ELSE 0)
    BY DEF OpenRun
  <1>11. RunsAccounted'
    <2>1. runs <= 1 + m + Mishaps
      BY <1>1 DEF Accounts, AccountOK, RunsAccounted
    <2>2. runs' <= 1 + m + Mishaps'
      <3> DEFINE h == Mishaps
                 k == Mishaps'
                 s == Spare(p)
      <3>1. /\ h \in Nat /\ k \in Nat /\ s \in Nat /\ s <= h /\ h <= k
            /\ runs \in Nat /\ runs <= 1 + m + h
        BY <1>1, <1>3, <2>1
      <3>2. CASE op[p] = "running"
        <4>1. runs' = runs + 1 /\ runs <= m + s
          BY <1>4, <1>8, <3>2
        <4> HIDE DEF m, h, k, s
        <4>2. runs' <= 1 + m + k
          BY <1>6, <3>1, <4>1
        <4> QED
          BY <4>2 DEF k
      <3>3. CASE op[p] # "running"
        <4>1. runs' = runs
          BY <1>8, <3>3
        <4> HIDE DEF m, h, k
        <4>2. runs' <= 1 + m + k
          BY <1>6, <3>1, <4>1
        <4> QED
          BY <4>2 DEF k
      <3> QED
        BY <3>2, <3>3
    <2> QED
      BY <2>2 DEF RunsAccounted
  <1>12. PlanOK'
    BY <1>4, <1>5 DEF PlanOK
  <1> HIDE DEF w, b, a, e, m
  <1>13. RunsOK(p)'
    <2>1. w.last = 0 => runs' = 0
      BY <1>4, <1>8
    <2>2. ~Executing(p)' => runs' <= SlotsOf(w) + Spare(p)'
      BY <1>1, <1>3, <1>4, <1>8
    <2>3. Executing(p)' => runs' <= e + 1 + Spare(p)'
      BY <1>1, <1>3, <1>4, <1>8
    <2> QED
      BY <1>5, <1>7, <2>1, <2>2, <2>3 DEF RunsOK, e
  <1>14. RecordsOK(p)'
    <2>1. CASE Len(w.hist) = MaxHistory
      BY <1>5, <2>1 DEF RecordsOK
    <2>2. CASE runs <= Len(w.hist) + b + Spare(p)
      <3>1. a \in {0, 1} /\ b \in {0, 1} /\ (op[p] = "running" => b = 0)
        BY <1>10
      <3>2. CASE Executing(p)' /\ op[p] = "running"
        <4>1. a = 1 \/ Spare(p) + 1 <= Spare(p)'
          BY <1>10, <3>2
        <4>2. runs' <= Len(w.hist) + a + Spare(p)'
          BY <1>1, <1>3, <1>8, <1>9, <2>2, <3>1, <3>2, <4>1
        <4> QED
          BY <1>5, <4>2 DEF RecordsOK, a
      <3>3. CASE op[p] # "running"
        <4>1. a = b \/ Spare(p) + 1 <= Spare(p)'
          BY <1>10, <3>3
        <4>2. runs' <= Len(w.hist) + a + Spare(p)'
          BY <1>1, <1>3, <1>8, <1>9, <2>2, <3>1, <3>3, <4>1
        <4> QED
          BY <1>5, <4>2 DEF RecordsOK, a
      <3>4. CASE ~Executing(p)' /\ op[p] = "running"
        <4>1. a = 0 /\ Spare(p) + 1 <= Spare(p)'
          BY <1>10, <3>4
        <4>2. runs' <= Len(w.hist) + a + Spare(p)'
          BY <1>1, <1>3, <1>8, <1>9, <2>2, <3>1, <3>4, <4>1
        <4> QED
          BY <1>5, <4>2 DEF RecordsOK, a
      <3> QED
        BY <3>2, <3>3, <3>4
    <2> QED
      BY <1>4, <2>1, <2>2
  <1> QED
    BY <1>1, <1>3, <1>11, <1>12, <1>13, <1>14 DEF AccountOK

LEMMA PutOkAccount ==
  ASSUME NEW p, Accounts(p), IInv', PutOk(p)
  PROVE  AccountOK' /\ Charged(p)
  <1> DEFINE w == Written(p)
  <1>1. /\ p \in Procs /\ Typed(p, Objects, PCs) /\ CountsTyped(p) /\ Met(p) \in Nat
        /\ op[p] \in Ops /\ obj[p] \in Objects /\ start[p] \in Nat
        /\ now \in Nat
    BY AccountFacts, MetType
  <1>2. /\ At(p, "put") /\ Accepted(p) /\ Store(w) /\ UpdateDone(p, w) /\ CountRun(p)
        /\ UNCHANGED <<now, edits, crashes, faults>>
    BY DEF PutOk, boundVars
  <1>3. Met(p) = tries[p] /\ tries[p] \in Nat
    BY <1>1, <1>2 DEF Met, Behind, Accepted, CountsTyped
  <1>4. w \in Objects
    BY <1>2, WrittenFields
  <1>5. Current' = w
    BY <1>1, <1>2, <1>4, StoreCurrent DEF Typed
  <1>6. ~Current.gone /\ ExecutionOK(p) /\ Updating(p)
    BY <1>1, <1>2 DEF Accepted, At, Updating, Accounts, AccountOK
  <1>7. CASE op[p] = "running"
    <2>1. /\ GoTo(p, "gate") /\ obj' = [obj EXCEPT ![p] = w] /\ UNCHANGED <<start, tries>>
      BY <1>2, <1>7 DEF UpdateDone
    <2>2. pc'[p] = "gate" /\ obj'[p] = w
      BY <1>1, <2>1 DEF GoTo, Typed
    <2>3. Met(p)' = tries[p]
      BY <1>3, <2>1, <2>2 DEF Met, Behind, At
    <2>4. Charged(p)
      BY <1>1, <1>2, <1>3, <2>3 DEF Charged, CountsTyped
    <2>5. Executing(p)' /\ Unrecorded(p)' /\ ~Updating(p)'
      BY <2>2 DEF Executing, Unrecorded, Updating
    <2>6. w.last = start[p] /\ start[p] # 0
      BY <1>2, <1>7, WrittenFields
    <2>7. w.next <= start[p]
      BY <1>2, <1>7, WrittenBalance
    <2>8. HandOK(p)' /\ ExecutionOK(p)'
      BY <1>5, <2>1, <2>2, <2>5, <2>6, <2>7 DEF HandOK, ExecutionOK
    <2> QED
      BY <1>2, <1>7, <2>4, <2>5, <2>8, StoredAccount
  <1>8. CASE op[p] = "advance"
    <2>1. Update(p, [obj[p] EXCEPT !.next = w.next], "recordCommitted")
      BY <1>2, <1>8 DEF UpdateDone
    <2>2. /\ pc'[p] = "get" /\ op'[p] = "recordCommitted"
          /\ obj'[p] = [obj[p] EXCEPT !.next = w.next] /\ Met(p)' = 0
      BY <1>1, <2>1, MetNone DEF Update, GoTo, Typed
    <2>3. Charged(p)
      BY <1>1, <1>2, <1>3, <2>2 DEF Charged, CountsTyped
    <2>4. ~Executing(p)' /\ Unrecorded(p)'
      BY <2>2 DEF Executing, Unrecorded, Updating
    <2>5. obj[p].last # 0 /\ Current.last # 0
      BY <1>6, <1>8 DEF ExecutionOK, Unrecorded, Executing
    <2>6. obj'[p].last # 0
      BY <1>1, <2>2, <2>5 DEF Objects
    <2>7. w.last = Current.last
      BY <1>2, <1>8, WrittenBalance
    <2>8. HandOK(p)' /\ ExecutionOK(p)'
      BY <1>5, <2>2, <2>4, <2>5, <2>6, <2>7 DEF HandOK, ExecutionOK
    <2> QED
      BY <1>2, <1>8, <2>3, <2>4, <2>8, StoredAccount
  <1>9. CASE op[p] \notin {"running", "advance"}
    <2>1. op[p] \in {"suspended", "invalid", "wait", "recordCommitted", "recordFailed",
                     "recordPending"}
      BY <1>1, <1>9 DEF Ops, StatusOps, NextOps, RecordOps
    <2>2. Leave(p)
      BY <1>2, <2>1 DEF UpdateDone, ReturnError
    <2>3. pc'[p] = "idle" /\ Met(p)' = 0
      BY <1>1, <2>2, MetNone DEF Leave, GoTo, Typed
    <2>4. Charged(p)
      BY <1>1, <1>2, <1>3, <2>3 DEF Charged, CountsTyped
    <2>5. ~Executing(p)' /\ ~Unrecorded(p)' /\ HandOK(p)' /\ ExecutionOK(p)'
      BY <2>3 DEF Executing, Unrecorded, Updating, HandOK, ExecutionOK
    <2> QED
      BY <1>2, <1>9, <2>4, <2>5, StoredAccount
  <1> QED
    BY <1>7, <1>8, <1>9

LEMMA UpdateFailedLeaves == ASSUME NEW p, UpdateFailed(p) PROVE Leave(p)
  BY DEF UpdateFailed, ReturnError

LEMMA PutFailedAccount ==
  ASSUME NEW p, Accounts(p), IInv', PutFailed(p)
  PROVE  AccountOK' /\ Charged(p)
  <1>1. /\ p \in Procs /\ Typed(p, Objects, PCs) /\ CountsTyped(p) /\ Met(p) \in Nat
        /\ Met(p) <= edits /\ now \in Nat /\ CacheLag = FALSE
    BY AccountFacts, MetType DEF Accounts
  <1>2. /\ Exhausted(p) /\ Leave(p) /\ UNCHANGED <<versions, now, runs>>
        /\ UNCHANGED <<edits, crashes, faults>>
    BY UpdateFailedLeaves DEF PutFailed, Exhausted, boundVars, worldVars
  <1>3. CountsTyped(p)' /\ now <= now'
    BY <1>1, <1>2 DEF CountsTyped, IInv, CountersOK, LocalsOK
  <1>4. CASE Conflict(p) /\ ~RetriesLeft(p)
    <2>1. Charged(p) /\ Spare(p) + 1 <= Spare(p)'
      BY <1>1, <1>2, <1>3, <1>4, LostCharged
    <2> QED
      BY <1>2, <1>3, <2>1, LostAccount
  <1>5. CASE Current.gone
    <2>1. Met(p)' = 0
      BY <1>1, <1>2, MetNone
    <2>2. Charged(p)
      BY <1>1, <1>2, <2>1 DEF Charged, CountsTyped
    <2>3. Current'.gone
      BY <1>2, <1>5 DEF Current, RV
    <2> QED
      BY <1>2, <1>3, <2>2, <2>3, Carried
  <1>6. Current.gone \/ (Conflict(p) /\ ~RetriesLeft(p))
    BY <1>1, <1>2, CurrentReads DEF Exhausted
  <1> QED
    BY <1>4, <1>5, <1>6

LEMMA PutFaultAccount ==
  ASSUME NEW p, Accounts(p), IInv', PutFault(p)
  PROVE  AccountOK' /\ Charged(p)
  <1>1. /\ p \in Procs /\ Typed(p, Objects, PCs) /\ CountsTyped(p)
        /\ Met(p) <= edits /\ now \in Nat
    BY AccountFacts DEF Accounts
  <1>2. /\ At(p, "put") /\ Leave(p) /\ now' = now /\ faults' = faults + 1
        /\ UNCHANGED <<edits, crashes>>
        /\ \/ UNCHANGED <<versions, runs>>
           \/ Accepted(p) /\ Store(Written(p)) /\ CountRun(p)
    BY UpdateFailedLeaves DEF PutFault, Fault
  <1>3. CountsTyped(p)' /\ now <= now'
    BY <1>1, <1>2 DEF CountsTyped, IInv, CountersOK, LocalsOK
  <1>4. Charged(p) /\ Spare(p) + 1 <= Spare(p)'
    BY <1>1, <1>2, <1>3, LostCharged
  <1>5. CASE UNCHANGED <<versions, runs>>
    BY <1>2, <1>3, <1>4, <1>5, LostAccount
  <1>6. CASE Accepted(p) /\ Store(Written(p)) /\ CountRun(p)
    <2>1. pc'[p] = "idle"
      BY <1>1, <1>2 DEF Leave, GoTo, Typed
    <2>2. ~Executing(p)' /\ ~Unrecorded(p)' /\ HandOK(p)' /\ ExecutionOK(p)'
      BY <2>1 DEF Executing, Unrecorded, Updating, HandOK, ExecutionOK
    <2> QED
      BY <1>2, <1>4, <1>6, <2>2, StoredAccount
  <1> QED
    BY <1>2, <1>5, <1>6

LEMMA InitAccount == OneProcess /\ Init => AccountOK
  <1> SUFFICES ASSUME OneProcess, Init PROVE AccountOK
    OBVIOUS
  <1>1. PICK s \in Specs, c \in CallsBefore : KubeInit(NewObject(s, c))
    BY DEF Init
  <1>2. Current = NewObject(s, c)
    BY <1>1 DEF KubeInit, Current, RV
  <1>3. Current.last = 0 /\ Current.next = 0 /\ Current.hist = <<>>
    BY <1>2 DEF NewObject
  <1>4. /\ now = 1 /\ runs = 0 /\ edits = 0 /\ crashes = 0 /\ faults = 0
        /\ \A p \in Procs : pc[p] = "idle" /\ tries[p] = 0
    BY DEF Init, ScheduleInit
  <1>5. /\ Period \in Nat \ {0} /\ MaxRetries \in Nat \ {0} /\ 0 \div Period = 0
        /\ 0 \div MaxRetries = 0 /\ now \div Period \in Nat
    BY <1>4, ScheduleAssumption, DivDef
  <1>6. RunsAccounted
    BY <1>4, <1>5 DEF RunsAccounted, Mishaps
  <1>7. PlanOK
    BY <1>3, <1>4, <1>5 DEF PlanOK
  <1> SUFFICES ASSUME NEW p \in Procs
               PROVE  /\ Met(p) <= edits /\ HandOK(p) /\ ExecutionOK(p) /\ RunsOK(p)
                      /\ RecordsOK(p)
    BY <1>6, <1>7 DEF AccountOK
  <1>8. ~Behind(p) /\ Met(p) = 0
    BY <1>4 DEF Met, Behind, At
  <1>9. ~Executing(p) /\ ~Unrecorded(p) /\ ~Updating(p)
    BY <1>4 DEF Executing, Unrecorded, Updating
  <1>10. Spare(p) = 0
    BY <1>4, <1>5, <1>8 DEF Spare
  <1>11. Slots = 1
    BY <1>3 DEF Slots
  <1>12. RunsOK(p)
    BY <1>4, <1>9, <1>10, <1>11 DEF RunsOK
  <1>13. RecordsOK(p)
    BY <1>3, <1>4, <1>9, <1>10 DEF RecordsOK, OpenRun
  <1> QED
    BY <1>4, <1>8, <1>9, <1>12, <1>13 DEF HandOK, ExecutionOK

LEMMA AccountNext == Ideal /\ IInv /\ AccountOK /\ [Next]_vars => AccountOK'
  <1> SUFFICES ASSUME Ideal, IInv, AccountOK, [Next]_vars PROVE AccountOK'
    OBVIOUS
  <1>1. PICK p : Procs = {p}
    BY DEF Ideal, OneProcess
  <1>2. Accounts(p) /\ IInv'
    BY <1>1, NextInv DEF Accounts, Ideal
  <1>3. CASE Step(p)
    <2>1. CASE (Reconcile(p) \/ GetOk(p) \/ PutConflict(p)) /\ WorldKept
      <3>1. runs' = runs
        BY <2>1 DEF WorldKept, worldVars
      <3> QED
        BY <1>2, <2>1, <3>1, ReconcileAccount, GetAccount
    <2> QED
      BY <1>2, <1>3, <2>1, PutOkAccount, PutFailedAccount, ExecuteAccount DEF Step
  <1>4. CASE Delivered(p) \/ Elapsed(p) \/ Ticked
    <2>1. runs' = runs
      BY <1>4 DEF Delivered, Elapsed, Ticked, WorldKept, worldVars
    <2> QED
      BY <1>2, <1>4, <2>1, EnvironmentAccount DEF Delivered, Elapsed, Ticked
  <1>5. CASE Environment
    <2>1. CASE PutFault(p)
      BY <1>2, <2>1, PutFaultAccount
    <2>2. CASE (Crash(p) \/ UserEdit \/ UserDelete) /\ WorldKept
      <3>1. runs' = runs
        BY <2>2 DEF WorldKept, worldVars
      <3> QED
        BY <1>2, <2>2, <3>1, EnvironmentAccount, UserAccount
    <2> QED
      BY <1>1, <1>5, <2>1, <2>2 DEF Environment
  <1>6. CASE UNCHANGED vars
    <2>1. UNCHANGED <<versions, now, pc, obj, start, fresh, op, tries>>
      BY <1>6 DEF vars, kubeVars, clockVars, workerVars
    <2>2. UNCHANGED <<runs, edits, crashes, faults>>
      BY <1>6 DEF vars, worldVars, boundVars
    <2>3. UNCHANGED <<Current, RV, Mishaps, Slots>>
      BY <2>1, <2>2 DEF Current, RV, Mishaps, Slots
    <2> QED
      BY <2>1, <2>2, <2>3 DEF AccountOK, RunsAccounted, PlanOK, HandOK, ExecutionOK, RunsOK,
         RecordsOK, Executing, Unrecorded, Updating, Met, Behind, At, Spare
  <1> QED
    BY <1>1, <1>3, <1>4, <1>5, <1>6 DEF Next

LEMMA AccountInvariance == Ideal => (Spec => []AccountOK)
  <1> SUFFICES ASSUME Ideal PROVE Spec => []AccountOK
    OBVIOUS
  <1>1. Init => AccountOK
    BY InitAccount DEF Ideal
  <1>2. IInv /\ AccountOK /\ [Next]_vars => AccountOK'
    BY AccountNext
  <1> QED
    BY <1>1, <1>2, Invariance, PTL DEF Spec

(* The schedule is an upper bound: whatever crashes, edits, conflicts and  *)
(* failed calls come in between, an execution begins at most once for each *)
(* time on the schedule and once more for each of these mishaps.           *)
THEOREM RunsAreAccounted == Ideal => (Spec => []RunsAccounted)
  <1> SUFFICES ASSUME Ideal PROVE Spec => []RunsAccounted
    OBVIOUS
  <1>1. AccountOK => RunsAccounted
    BY DEF AccountOK, Ideal, OneProcess
  <1> QED
    BY <1>1, AccountInvariance, PTL

(* Every run is in the history between reconciles, as far as the history   *)
(* reaches, but for one run for each mishap.                               *)
THEOREM RunsAreRecorded == Ideal => (Spec => []RunsRecorded)
  <1> SUFFICES ASSUME Ideal PROVE Spec => []RunsRecorded
    OBVIOUS
  <1>1. IInv /\ AccountOK => RunsRecorded
    <2> SUFFICES ASSUME IInv, AccountOK, \A q \in Procs : At(q, "idle"), ~Current.gone
                 PROVE  \/ runs <= Len(Current.hist) + Mishaps
                        \/ Len(Current.hist) = MaxHistory
      BY DEF RunsRecorded
    <2>1. PICK p : Procs = {p}
      BY DEF Ideal, OneProcess
    <2>2. Accounts(p) /\ RecordsOK(p) /\ pc[p] = "idle"
      BY <2>1 DEF Accounts, Ideal, AccountOK, At
    <2>3. /\ Spare(p) \in Nat /\ Mishaps \in Nat /\ Spare(p) <= Mishaps /\ runs \in Nat
          /\ Len(Current.hist) \in Nat
      BY <2>2, AccountFacts
    <2>4. ~Unrecorded(p)
      BY <2>2 DEF Unrecorded, Executing, Updating
    <2> QED
      BY <2>2, <2>3, <2>4 DEF RecordsOK, OpenRun
  <1> QED
    BY <1>1, Invariance, AccountInvariance, PTL

-----------------------------------------------------------------------------
(* Nobody sleeps.                                                          *)

Watching(p) == Accounts(p) /\ AwakeOK

LEMMA AwakeFacts ==
  ASSUME NEW p, Watching(p)
  PROVE  /\ Accounts(p) /\ p \in Procs /\ Procs = {p}
         /\ cached \in [Procs -> 1 .. RV] /\ versions \in Seq(Objects) /\ RV \in Nat
         /\ timer \in [Procs -> BOOLEAN] /\ dirty \in [Procs -> BOOLEAN]
         /\ Spare(p) \in Nat
         /\ ~Unrecorded(p) /\ Current.phase = "Running" => Current.gone \/ Spare(p) >= 1
         /\ Unrecorded(p) => Alert(p) \/ (Current.phase = "Running" /\ Spare(p) >= 1)
         /\ At(p, "idle") => Alert(p) \/ Mishaps >= 2
  <1>1. p \in Procs /\ Procs = {p} /\ Accounts(p) /\ AwakeOK
    BY DEF Watching, Accounts
  <1>2. /\ cached \in [Procs -> 1 .. RV] /\ versions \in Seq(Objects) /\ RV \in Nat
        /\ timer \in [Procs -> BOOLEAN] /\ dirty \in [Procs -> BOOLEAN]
    BY <1>1, CurrentOK DEF Accounts, IInv, StoreOK, ClockOK
  <1> QED
    BY <1>1, <1>2, AccountFacts DEF AwakeOK

(* The mishaps never get fewer.                                            *)
LEMMA SpareKept ==
  ASSUME NEW p, Accounts(p), IInv', Charged(p)
  PROVE  /\ Spare(p) \in Nat /\ Spare(p)' \in Nat /\ Mishaps \in Nat /\ Mishaps' \in Nat
         /\ Spare(p) <= Spare(p)' /\ Mishaps <= Mishaps' /\ Spare(p)' <= Mishaps'
  <1>1. /\ CountsTyped(p) /\ Met(p) <= edits /\ p \in Procs
        /\ Spare(p) \in Nat /\ Mishaps \in Nat
    BY AccountFacts
  <1>2. CountsTyped(p)'
    BY <1>1 DEF CountsTyped, IInv, CountersOK, LocalsOK
  <1> QED
    BY <1>1, <1>2, SpareGrows DEF Charged

(* A step that leaves the store and the stage of the run as they are.      *)
LEMMA AwakeMoved ==
  ASSUME NEW p, Watching(p), IInv', Charged(p),
         Current' = Current, Unrecorded(p)' <=> Unrecorded(p),
         Alert(p) => Alert(p)', At(p, "idle")' => At(p, "idle")
  PROVE  AwakeOK'
  <1>1. /\ Spare(p) \in Nat /\ Spare(p)' \in Nat /\ Mishaps \in Nat /\ Mishaps' \in Nat
        /\ Spare(p) <= Spare(p)' /\ Mishaps <= Mishaps' /\ Procs = {p}
    BY SpareKept, AwakeFacts
  <1>2. /\ ~Unrecorded(p) /\ Current.phase = "Running" => Current.gone \/ Spare(p) >= 1
        /\ Unrecorded(p) => Alert(p) \/ (Current.phase = "Running" /\ Spare(p) >= 1)
        /\ At(p, "idle") => Alert(p) \/ Mishaps >= 2
    BY AwakeFacts
  <1> QED
    BY <1>1, <1>2 DEF AwakeOK

(* A step after which the key comes back, or that ends the run it is in.   *)
LEMMA AwakeAgain ==
  ASSUME NEW p, Watching(p), IInv',
         ~Unrecorded(p)',
         ~(At(p, "idle")') \/ Alert(p)' \/ Mishaps' >= 2,
         Current'.phase = "Running" => Current'.gone \/ Spare(p)' >= 1
  PROVE  AwakeOK'
  <1>1. Procs = {p}
    BY AwakeFacts
  <1> QED
    BY <1>1 DEF AwakeOK

LEMMA ReconcileAwake ==
  ASSUME NEW p, Watching(p), IInv', Reconcile(p), Charged(p)
  PROVE  AwakeOK'
  <1>1. /\ p \in Procs /\ Accounts(p) /\ Typed(p, Objects, PCs) /\ CacheLag = FALSE
        /\ timer \in [Procs -> BOOLEAN] /\ now \in Nat
    BY AwakeFacts, AccountFacts DEF Accounts
  <1>2. UNCHANGED versions /\ pc[p] = "idle"
    BY DEF Reconcile, ReconcileGone, ReconcileSuspended, ReconcileInvalid, Scheduled,
           ReconcileWait, ReconcileRun, Begin, At
  <1>3. Current' = Current /\ View(p) = Current
    BY <1>1, <1>2, CurrentReads DEF Current, RV
  <1>4. ~Unrecorded(p)
    BY <1>2 DEF Unrecorded, Executing, Updating
  <1>5. \/ pc'[p] = "idle" /\ Alert(p)'
        \/ pc'[p] = "get" /\ op'[p] \in {"suspended", "invalid", "wait", "running"}
    <2>1. CASE ReconcileGone(p)
      BY <1>2, <1>3, <2>1 DEF ReconcileGone, Alert, workerVars
    <2>2. ASSUME NEW o, NEW u \in {"suspended", "invalid", "wait", "running"},
                 Update(p, o, u)
          PROVE  pc'[p] = "get" /\ op'[p] = u
      BY <1>1, <2>2 DEF Update, GoTo, Typed
    <2>3. CASE ReconcileSuspended(p) \/ ReconcileInvalid(p) \/ ReconcileRun(p)
      BY <2>2, <2>3 DEF ReconcileSuspended, ReconcileInvalid, ReconcileRun
    <2>4. CASE ReconcileWait(p)
      <3>1. CASE Update(p, View(p), "wait")
        BY <2>2, <3>1
      <3>2. CASE RequeueAt(p, WaitUntil(NextRun(now))) /\ UNCHANGED workerVars
        BY <1>1, <1>2, <3>2, TimerAlerts DEF workerVars
      <3> QED
        BY <2>4, <3>1, <3>2 DEF ReconcileWait
    <2> QED
      BY <2>1, <2>3, <2>4 DEF Reconcile
  <1>6. ~Unrecorded(p)'
    BY <1>5 DEF Unrecorded, Executing, Updating
  <1>7. /\ Spare(p) <= Spare(p)' /\ Spare(p) \in Nat /\ Spare(p)' \in Nat
        /\ Current.phase = "Running" => Current.gone \/ Spare(p) >= 1
    BY <1>1, <1>4, AwakeFacts, SpareKept
  <1>8. ~(At(p, "idle")') \/ Alert(p)'
    BY <1>5 DEF At
  <1> QED
    BY <1>3, <1>6, <1>7, <1>8, AwakeAgain

(* Calls, events, delays and time move the worker on.                      *)
LEMMA MovesAwake ==
  ASSUME NEW p, Watching(p), IInv', Charged(p),
         \/ GetOk(p) \/ PutConflict(p) \/ Watch(p) \/ Timer(p) \/ Tick
         \/ Gate(p) \/ Rest(p) \/ Auth(p) \/ GitPushed(p) \/ GitFailed(p)
  PROVE  AwakeOK'
  <1>1. /\ p \in Procs /\ Typed(p, Objects, PCs) /\ cached \in [Procs -> 1 .. RV]
        /\ timer \in [Procs -> BOOLEAN] /\ dirty \in [Procs -> BOOLEAN] /\ RV \in Nat
    BY AwakeFacts, AccountFacts
  <1>2. UNCHANGED versions
    BY DEF GetOk, PutConflict, Watch, Timer, Tick, Gate, Rest, Auth, GitPushed, GitFailed,
           Working, kubeVars, Deliver, TimerFire
  <1>3. Current' = Current /\ RV' = RV
    BY <1>2 DEF Current, RV
  <1>4. Alert(p) => Alert(p)'
    <2>1. CASE Watch(p)
      <3>1. dirty'[p]
        BY <1>1, <2>1 DEF Watch, Deliver
      <3> QED
        BY <3>1 DEF Alert
    <2>2. CASE Timer(p)
      <3>1. dirty'[p]
        BY <1>1, <2>2 DEF Timer, TimerFire
      <3> QED
        BY <3>1 DEF Alert
    <2>3. CASE UNCHANGED <<cached, dirty, timer>>
      BY <1>3, <2>3 DEF Alert
    <2> QED
      BY <2>1, <2>2, <2>3
         DEF GetOk, PutConflict, Tick, Gate, Rest, Auth, GitPushed, GitFailed, Working,
             kubeVars, NoRequeue
  <1>5. (Unrecorded(p)' <=> Unrecorded(p)) /\ (At(p, "idle")' => At(p, "idle"))
    <2>1. CASE UNCHANGED <<pc, op>>
      BY <2>1 DEF Unrecorded, Executing, Updating, At
    <2>2. CASE GetOk(p) \/ PutConflict(p)
      <3>1. op' = op /\ Updating(p) /\ pc'[p] \in {"get", "put"}
        BY <1>1, <2>2 DEF GetOk, PutConflict, Conflict, Updating, At, GoTo, Typed
      <3> QED
        BY <3>1 DEF Unrecorded, Executing, Updating, At
    <2>3. CASE Gate(p) \/ Rest(p) \/ Auth(p) \/ GitPushed(p) \/ GitFailed(p)
      <3>1. pc[p] \in {"gate", "rest", "auth", "git"}
        BY <2>3 DEF Gate, Rest, Auth, GitPushed, GitFailed, At
      <3>2. \/ pc'[p] \in {"rest", "auth", "git"}
            \/ pc'[p] = "get" /\ op'[p] \in {"advance", "recordFailed", "recordPending"}
        BY <1>1, <2>3 DEF Gate, Rest, Auth, GitPushed, GitFailed, Move, Update, GoTo, Typed
      <3> QED
        BY <3>1, <3>2 DEF Unrecorded, Executing, Updating, At
    <2> QED
      BY <2>1, <2>2, <2>3 DEF Watch, Timer, Tick, workerVars
  <1> QED
    BY <1>3, <1>4, <1>5, AwakeMoved

LEMMA CrashUserAwake ==
  ASSUME NEW p, Watching(p), IInv', Charged(p), Crash(p) \/ UserEdit \/ UserDelete
  PROVE  AwakeOK'
  <1>1. /\ p \in Procs /\ Typed(p, Objects, PCs) /\ cached \in [Procs -> 1 .. RV]
        /\ dirty \in [Procs -> BOOLEAN] /\ RV \in Nat /\ versions \in Seq(Objects)
        /\ CountsTyped(p) /\ Met(p) <= edits /\ Current \in Objects /\ Procs = {p}
    BY AwakeFacts, AccountFacts
  <1>2. /\ Spare(p) <= Spare(p)' /\ Spare(p) \in Nat /\ Spare(p)' \in Nat
        /\ ~Unrecorded(p) /\ Current.phase = "Running" => Current.gone \/ Spare(p) >= 1
    BY AwakeFacts, SpareKept
  <1>3. CASE Crash(p)
    <2>1. /\ UNCHANGED <<versions, edits, faults>> /\ crashes' = crashes + 1
          /\ pc'[p] = "idle" /\ dirty'[p] = ~Current.gone
      BY <1>1, <1>3 DEF Crash, Relist, Leave, GoTo, Typed
    <2>2. Current' = Current
      BY <2>1 DEF Current, RV
    <2>3. Alert(p)'
      BY <2>1, <2>2 DEF Alert
    <2>4. CountsTyped(p)'
      BY <1>1 DEF CountsTyped, IInv, CountersOK, LocalsOK
    <2>5. Spare(p)' >= 1
      <3>1. Spare(p) + 1 <= Spare(p)'
        <4>1. crashes + faults < crashes' + faults'
          BY <1>1, <2>1 DEF CountsTyped
        <4> QED
          BY <1>1, <2>4, <4>1, SpareGrows DEF Charged
      <3> QED
        BY <1>2, <3>1
    <2>6. ~Unrecorded(p)'
      BY <2>1 DEF Unrecorded, Executing, Updating
    <2> QED
      BY <2>3, <2>5, <2>6, AwakeAgain
  <1>4. CASE UserEdit
    <2>1. PICK s \in Specs :
              Write([Current EXCEPT !.suspend = s.suspend, !.valid = s.valid])
      BY <1>4 DEF UserEdit
    <2> DEFINE o == [Current EXCEPT !.suspend = s.suspend, !.valid = s.valid]
    <2>2. s \in [suspend: BOOLEAN, valid: BOOLEAN]
      BY ScheduleAssumption
    <2>3. o \in Objects /\ o.phase = Current.phase /\ o.gone = Current.gone
      BY <1>1, <2>2 DEF Objects
    <2> HIDE DEF o
    <2>4. RV' = RV + 1 /\ Current' = o
      BY <1>1, <2>1, <2>3, WriteType DEF o
    <2>5. cached' = cached /\ cached[p] \in 1 .. RV
      BY <1>1, <1>4 DEF UserEdit
    <2>6. Alert(p)'
      <3>1. cached'[p] < RV'
        BY <1>1, <2>4, <2>5
      <3> QED
        BY <3>1 DEF Alert
    <2>7. Unrecorded(p)' <=> Unrecorded(p)
      BY <1>4 DEF UserEdit, workerVars, Unrecorded, Executing, Updating
    <2>8. ~Unrecorded(p)' /\ Current'.phase = "Running" => Current'.gone \/ Spare(p)' >= 1
      BY <1>2, <2>3, <2>4, <2>7
    <2> QED
      BY <1>1, <2>6, <2>8 DEF AwakeOK
  <1>5. CASE UserDelete
    <2> DEFINE o == [Current EXCEPT !.gone = TRUE]
    <2>1. o \in Objects /\ o.gone
      BY <1>1 DEF Objects
    <2> HIDE DEF o
    <2>2. Write(o)
      BY <1>5 DEF UserDelete, o
    <2>3. Current'.gone
      BY <1>1, <2>1, <2>2, WriteType
    <2>4. Alert(p)'
      BY <2>3 DEF Alert
    <2> QED
      BY <1>1, <2>3, <2>4 DEF AwakeOK
  <1> QED
    BY <1>3, <1>4, <1>5

LEMMA WrittenPhase ==
  ASSUME NEW p, Accounts(p), Accepted(p)
  PROVE  /\ op[p] \in NextOps => Written(p).phase = Current.phase
         /\ op[p] = "running" <=> op[p] \notin NextOps /\ Written(p).phase = "Running"
  <1>1. Current \in Objects /\ op[p] \in Ops
    BY AccountFacts
  <1>2. Written(p) = Merge(p, Current)
    BY DEF Written, Accepted, Current
  <1>3. CASE op[p] \in StatusOps
    <2>1. Written(p) = MergeStatus(Current, obj[p], PhaseOf(op[p]))
      BY <1>2, <1>3 DEF Merge, StatusOps, NextOps
    <2>2. Written(p).phase = PhaseOf(op[p])
      BY <1>1, <2>1 DEF MergeStatus, Objects
    <2> QED
      BY <1>3, <2>2 DEF PhaseOf, StatusOps, NextOps
  <1>4. CASE op[p] \in NextOps
    <2>1. Written(p) = [Current EXCEPT !.next = NextRun(start[p])]
      BY <1>2, <1>4 DEF Merge, StatusOps, NextOps
    <2> QED
      BY <1>1, <1>4, <2>1 DEF Objects, NextOps
  <1>5. CASE op[p] = "recordCommitted"
    <2>1. Written(p) = MergeRecord(Current, obj[p], "Committed", 0)
      BY <1>2, <1>5 DEF Merge, StatusOps, NextOps
    <2>2. Written(p).phase = "Committed"
      BY <1>1, <2>1 DEF MergeRecord, Objects
    <2> QED
      BY <1>5, <2>2 DEF NextOps
  <1>6. CASE op[p] \in {"recordFailed", "recordPending"}
    <2>1. Written(p) = MergeRecord(Current, obj[p], PhaseOf(op[p]), NextRun(start[p]))
      BY <1>2, <1>6 DEF Merge, StatusOps, NextOps
    <2>2. Written(p).phase = PhaseOf(op[p])
      BY <1>1, <2>1 DEF MergeRecord, Objects
    <2> QED
      BY <1>6, <2>2 DEF PhaseOf, NextOps
  <1> QED
    BY <1>1, <1>3, <1>4, <1>5, <1>6 DEF Ops, RecordOps

(* The stage of a run that an update belongs to.                           *)
LEMMA UpdatingStage ==
  ASSUME NEW p, At(p, "put"), op[p] \in Ops
  PROVE  Unrecorded(p) <=> op[p] = "advance" \/ op[p] \in RecordOps
  BY DEF At, Unrecorded, Executing, Updating, RecordOps

(* Only the record of an execution that did not commit may end without a   *)
(* requeue.                                                                *)
LEMMA EndsAlert ==
  ASSUME NEW p \in Procs, timer \in [Procs -> BOOLEAN], op[p] \in Ops,
         \/ UpdateFailed(p)
         \/ UpdateDone(p, Written(p)) /\ op[p] \notin {"running", "advance"}
  PROVE  /\ NoRequeue \/ \E t : RequeueAt(p, t)
         /\ op[p] \notin {"recordFailed", "recordPending"} => Alert(p)'
  <1>1. CASE UpdateFailed(p)
    BY <1>1, TimerAlerts DEF UpdateFailed, ReturnError, RequeueIfAhead
  <1>2. CASE UpdateDone(p, Written(p)) /\ op[p] \notin {"running", "advance"}
    <2>1. op[p] \in {"suspended", "invalid", "wait", "recordCommitted", "recordFailed",
                     "recordPending"}
      BY <1>2 DEF Ops, StatusOps, NextOps, RecordOps
    <2> QED
      BY <1>2, <2>1, TimerAlerts DEF UpdateDone, ReturnError, RequeueIfAhead
  <1> QED
    BY <1>1, <1>2

LEMMA PutOkAwake ==
  ASSUME NEW p, Watching(p), IInv', Charged(p), PutOk(p)
  PROVE  AwakeOK'
  <1> DEFINE w == Written(p)
  <1>1. /\ p \in Procs /\ Accounts(p) /\ Typed(p, Objects, PCs)
        /\ timer \in [Procs -> BOOLEAN] /\ Procs = {p} /\ op[p] \in Ops
        /\ versions \in Seq(Objects) /\ cached \in [Procs -> 1 .. RV] /\ RV >= 1
    BY AwakeFacts, AccountFacts DEF Typed
  <1>2. /\ At(p, "put") /\ Accepted(p) /\ Store(w) /\ UpdateDone(p, w)
        /\ UNCHANGED <<cached, dirty>> /\ ~Current.gone
    BY DEF PutOk, Accepted
  <1>3. /\ w \in Objects /\ w.gone = Current.gone
        /\ op[p] \in NextOps => w.phase = Current.phase
        /\ op[p] = "running" <=> op[p] \notin NextOps /\ w.phase = "Running"
    BY <1>1, <1>2, WrittenFields, WrittenPhase
  <1> HIDE DEF w
  <1>4. Current' = w
    BY <1>1, <1>2, <1>3, StoreCurrent
  <1>5. w # Current => Alert(p)'
    BY <1>1, <1>2, <1>3, StoreAlerts
  <1>6. /\ Spare(p) <= Spare(p)' /\ Spare(p) \in Nat /\ Spare(p)' \in Nat
        /\ ~Unrecorded(p) /\ Current.phase = "Running" => Spare(p) >= 1
        /\ Unrecorded(p) => Alert(p) \/ (Current.phase = "Running" /\ Spare(p) >= 1)
    BY <1>1, <1>2, AwakeFacts, SpareKept
  <1>7. Unrecorded(p) <=> op[p] = "advance" \/ op[p] \in RecordOps
    BY <1>1, <1>2, UpdatingStage
  <1>8. CASE op[p] = "running"
    <2>1. GoTo(p, "gate")
      BY <1>2, <1>8 DEF UpdateDone
    <2>2. Unrecorded(p)' /\ ~(At(p, "idle")')
      BY <1>1, <2>1 DEF GoTo, Typed, Unrecorded, Executing, At
    <2>3. ~Unrecorded(p) /\ w.phase = "Running"
      BY <1>3, <1>7, <1>8 DEF RecordOps
    <2>4. Alert(p)' \/ (Current'.phase = "Running" /\ Spare(p)' >= 1)
      BY <1>4, <1>5, <1>6, <2>3
    <2> QED
      BY <1>1, <2>2, <2>4 DEF AwakeOK
  <1>9. CASE op[p] = "advance"
    <2>1. NoRequeue /\ \E o : Update(p, o, "recordCommitted")
      BY <1>2, <1>9 DEF UpdateDone
    <2>2. pc'[p] = "get" /\ op'[p] = "recordCommitted"
      BY <1>1, <2>1 DEF Update, GoTo, Typed
    <2>3. Unrecorded(p)' /\ ~(At(p, "idle")')
      BY <2>2 DEF Unrecorded, Updating, At
    <2>4. Alert(p) => Alert(p)'
      BY <1>1, <1>2, <1>3, <2>1, AlertKept
    <2>5. w.phase = Current.phase
      BY <1>3, <1>9 DEF NextOps
    <2>6. Alert(p)' \/ (Current'.phase = "Running" /\ Spare(p)' >= 1)
      BY <1>4, <1>6, <1>7, <1>9, <2>4, <2>5
    <2> QED
      BY <1>1, <2>3, <2>6 DEF AwakeOK
  <1>10. CASE op[p] \notin {"running", "advance"}
    <2>1. /\ NoRequeue \/ \E t : RequeueAt(p, t)
          /\ op[p] \notin {"recordFailed", "recordPending"} => Alert(p)'
      BY <1>1, <1>2, <1>10, EndsAlert DEF w
    <2>2. pc'[p] = "idle"
      <3>1. op[p] \in {"suspended", "invalid", "wait", "recordCommitted", "recordFailed",
                       "recordPending"}
        BY <1>1, <1>10 DEF Ops, StatusOps, NextOps, RecordOps
      <3>2. Leave(p)
        BY <1>2, <3>1 DEF UpdateDone, ReturnError
      <3> QED
        BY <1>1, <3>2 DEF Leave, GoTo, Typed
    <2>3. ~Unrecorded(p)'
      BY <2>2 DEF Unrecorded, Executing, Updating
    <2>4. Alert(p) => Alert(p)'
      BY <1>1, <1>2, <1>3, <2>1, AlertKept
    <2>5. Alert(p)'
      <3>1. CASE op[p] \in {"recordFailed", "recordPending"}
        <4>1. Unrecorded(p) /\ w.phase # "Running"
          BY <1>3, <1>7, <3>1 DEF RecordOps, NextOps
        <4> QED
          BY <1>5, <1>6, <2>4, <4>1
      <3> QED
        BY <2>1, <3>1
    <2>6. Current'.phase = "Running" => Spare(p)' >= 1
      <3>1. CASE op[p] = "wait"
        <4>1. ~Unrecorded(p) /\ w.phase = Current.phase
          BY <1>3, <1>7, <3>1 DEF RecordOps, NextOps
        <4> QED
          BY <1>4, <1>6, <4>1
      <3>2. CASE op[p] # "wait"
        <4>1. op[p] \notin NextOps
          BY <1>10, <3>2 DEF NextOps
        <4> QED
          BY <1>3, <1>4, <1>10, <4>1
      <3> QED
        BY <3>1, <3>2
    <2> QED
      BY <2>3, <2>5, <2>6, AwakeAgain
  <1> QED
    BY <1>8, <1>9, <1>10

LEMMA PutLostAwake ==
  ASSUME NEW p, Watching(p), IInv', Charged(p), PutFailed(p) \/ PutFault(p)
  PROVE  AwakeOK'
  <1> DEFINE w == Written(p)
  <1>1. /\ p \in Procs /\ Accounts(p) /\ Typed(p, Objects, PCs) /\ CacheLag = FALSE
        /\ timer \in [Procs -> BOOLEAN] /\ Procs = {p} /\ op[p] \in Ops
        /\ versions \in Seq(Objects) /\ cached \in [Procs -> 1 .. RV] /\ RV >= 1
        /\ CountsTyped(p) /\ Met(p) <= edits /\ Current \in Objects
    BY AwakeFacts, AccountFacts DEF Typed, Accounts
  <1>2. /\ UpdateFailed(p) /\ Leave(p) /\ UNCHANGED <<cached, dirty, edits, crashes>>
        /\ \/ UNCHANGED versions
           \/ At(p, "put") /\ Accepted(p) /\ Store(w)
        /\ \/ Exhausted(p) /\ UNCHANGED <<versions, faults>>
           \/ faults' = faults + 1 /\ At(p, "put")
    BY UpdateFailedLeaves DEF PutFailed, PutFault, Exhausted, Fault, boundVars
  <1>3. pc'[p] = "idle"
    BY <1>1, <1>2 DEF Leave, GoTo, Typed
  <1>4. ~Unrecorded(p)'
    BY <1>3 DEF Unrecorded, Executing, Updating
  <1>5. w \in Objects
    BY <1>1, WrittenOK DEF Accounts
  <1> HIDE DEF w
  <1>6. /\ NoRequeue \/ \E t : RequeueAt(p, t)
        /\ op[p] \notin {"recordFailed", "recordPending"} => Alert(p)'
    BY <1>1, <1>2, EndsAlert
  <1>7. Alert(p) => Alert(p)'
    BY <1>1, <1>2, <1>5, <1>6, AlertKept DEF Accepted
  <1>8. /\ Spare(p) <= Spare(p)' /\ Spare(p) \in Nat /\ Spare(p)' \in Nat
        /\ Spare(p)' <= Mishaps' /\ Mishaps' \in Nat
        /\ Unrecorded(p) => Alert(p) \/ (Current.phase = "Running" /\ Spare(p) >= 1)
    BY <1>1, AwakeFacts, SpareKept
  <1>9. CASE Current.gone
    <2>1. UNCHANGED versions
      BY <1>2, <1>9 DEF Accepted
    <2>2. Current'.gone
      BY <1>9, <2>1 DEF Current, RV
    <2>3. Alert(p)'
      BY <2>2 DEF Alert
    <2> QED
      BY <1>4, <2>2, <2>3, AwakeAgain
  <1>10. CASE ~Current.gone
    <2>1. Updating(p) /\ (faults' = faults + 1
             \/ (Conflict(p) /\ ~RetriesLeft(p) /\ faults' = faults))
      BY <1>1, <1>2, <1>10, CurrentReads DEF Exhausted, Updating, At, Conflict
    <2>2. CountsTyped(p)'
      BY <1>1 DEF CountsTyped, IInv, CountersOK, LocalsOK
    <2>3. Spare(p) + 1 <= Spare(p)'
      BY <1>1, <1>2, <2>1, <2>2, LostCharged
    <2>4. Spare(p)' >= 1
      BY <1>8, <2>3
    <2>5. Alert(p)' \/ Mishaps' >= 2
      <3>1. CASE op[p] \in {"recordFailed", "recordPending"}
        <4>1. Unrecorded(p)
          BY <2>1, <3>1 DEF Unrecorded, Executing
        <4> QED
          BY <1>7, <1>8, <2>3, <4>1
      <3> QED
        BY <1>6, <3>1
    <2> QED
      BY <1>4, <2>4, <2>5, AwakeAgain
  <1> QED
    BY <1>9, <1>10

LEMMA AwakeNext == Ideal /\ IInv /\ AccountOK /\ AwakeOK /\ [Next]_vars => AwakeOK'
  <1> SUFFICES ASSUME Ideal, IInv, AccountOK, AwakeOK, [Next]_vars PROVE AwakeOK'
    OBVIOUS
  <1>1. PICK p : Procs = {p}
    BY DEF Ideal, OneProcess
  <1>2. Accounts(p) /\ Watching(p) /\ IInv'
    BY <1>1, NextInv DEF Accounts, Ideal, Watching
  <1>3. CASE Step(p)
    <2>1. CASE (Reconcile(p) \/ GetOk(p) \/ PutConflict(p)) /\ WorldKept
      <3>1. runs' = runs
        BY <2>1 DEF WorldKept, worldVars
      <3> QED
        BY <1>2, <2>1, <3>1, ReconcileAccount, GetAccount, ReconcileAwake, MovesAwake
    <2>2. CASE PutOk(p)
      BY <1>2, <2>2, PutOkAccount, PutOkAwake
    <2>3. CASE PutFailed(p)
      BY <1>2, <2>3, PutFailedAccount, PutLostAwake
    <2>4. CASE Gate(p) \/ Rest(p) \/ Auth(p) \/ GitPushed(p) \/ GitFailed(p)
      BY <1>2, <2>4, ExecuteAccount, MovesAwake
    <2> QED
      BY <1>3, <2>1, <2>2, <2>3, <2>4 DEF Step
  <1>4. CASE Delivered(p) \/ Elapsed(p) \/ Ticked
    <2>1. runs' = runs
      BY <1>4 DEF Delivered, Elapsed, Ticked, WorldKept, worldVars
    <2> QED
      BY <1>2, <1>4, <2>1, EnvironmentAccount, MovesAwake DEF Delivered, Elapsed, Ticked
  <1>5. CASE Environment
    <2>1. CASE PutFault(p)
      BY <1>2, <2>1, PutFaultAccount, PutLostAwake
    <2>2. CASE (Crash(p) \/ UserEdit \/ UserDelete) /\ WorldKept
      <3>1. runs' = runs
        BY <2>2 DEF WorldKept, worldVars
      <3> QED
        BY <1>2, <2>2, <3>1, EnvironmentAccount, UserAccount, CrashUserAwake
    <2> QED
      BY <1>1, <1>5, <2>1, <2>2 DEF Environment
  <1>6. CASE UNCHANGED vars
    <2>1. UNCHANGED <<versions, cached, dirty, timer, pc, fresh, op, tries>>
      BY <1>6 DEF vars, kubeVars, clockVars, workerVars
    <2>2. UNCHANGED <<edits, crashes, faults>>
      BY <1>6 DEF vars, boundVars
    <2>3. UNCHANGED <<Current, RV, Mishaps>>
      BY <2>1, <2>2 DEF Current, RV, Mishaps
    <2> QED
      BY <2>1, <2>2, <2>3 DEF AwakeOK, Unrecorded, Executing, Updating, Met, Behind, At,
         Spare, Alert
  <1> QED
    BY <1>1, <1>3, <1>4, <1>5, <1>6 DEF Next

LEMMA InitAwake == Init => AwakeOK
  <1> SUFFICES ASSUME Init, NEW p \in Procs
               PROVE  Current.phase # "Running" /\ ~Unrecorded(p) /\ Alert(p)
    BY DEF AwakeOK
  <1>1. PICK s \in Specs, c \in CallsBefore : KubeInit(NewObject(s, c))
    BY DEF Init
  <1>2. Current = NewObject(s, c) /\ dirty[p]
    BY <1>1 DEF KubeInit, Current, RV
  <1>3. Current.phase = ""
    BY <1>2 DEF NewObject
  <1>4. pc[p] = "idle"
    BY DEF Init, ScheduleInit
  <1> QED
    BY <1>2, <1>3, <1>4 DEF Unrecorded, Executing, Updating, Alert

(* No lost wake-up: while the resource lives its key is queued, delayed or *)
(* about to be enqueued by an event, unless two mishaps came together.     *)
THEOREM NobodySleeps == Ideal => (Spec => []NeverAsleep)
  <1> SUFFICES ASSUME Ideal PROVE Spec => []NeverAsleep
    OBVIOUS
  <1>1. IInv /\ AccountOK /\ AwakeOK /\ [Next]_vars => AwakeOK'
    BY AwakeNext
  <1>2. IInv /\ AwakeOK => NeverAsleep
    <2> SUFFICES ASSUME IInv, AwakeOK, NEW p \in Procs, Asleep(p) PROVE Mishaps >= 2
      BY DEF NeverAsleep
    <2>1. cached[p] \in 1 .. RV /\ RV \in Nat
      BY CurrentOK DEF IInv, StoreOK
    <2>2. ~Alert(p) /\ At(p, "idle")
      BY <2>1 DEF Asleep, Alert
    <2> QED
      BY <2>2 DEF AwakeOK
  <1> QED
    BY <1>1, <1>2, InitAwake, Invariance, AccountInvariance, PTL DEF Spec

-----------------------------------------------------------------------------
(* The records, for any number of processes on caches however old.         *)

(* All but the first of a history with a record in front.                  *)
LEMMA RecordedTail ==
  ASSUME NEW h \in Seq(Records), NEW r \in Records
  PROVE  Recorded(h, r) # <<>> /\ Tail(Recorded(h, r)) = Newest(h, MaxHistory - 1)
  <1> DEFINE g == Recorded(h, r)
             m == IF Len(h) < MaxHistory - 1 THEN Len(h) ELSE MaxHistory - 1
  <1>1. /\ g \in Seq(Records) /\ Len(h) \in Nat /\ Len(g) \in 1 .. MaxHistory
        /\ Len(h) + 1 <= MaxHistory => Len(g) = Len(h) + 1
        /\ MaxHistory <= Len(h) => Len(g) = MaxHistory
        /\ \A i \in 2 .. Len(g) : i - 1 \in 1 .. Len(h) /\ g[i] = h[i - 1]
    BY RecordFirst
  <1>2. MaxHistory \in Nat \ {0}
    BY ScheduleAssumption
  <1>3. m \in Nat /\ Len(g) = m + 1 /\ m <= Len(h)
    BY <1>1, <1>2
  <1> HIDE DEF g, m
  <1>4. g # <<>>
    BY <1>1
  <1>5. Tail(g) = [i \in 1 .. m |-> g[i + 1]]
    <2> DEFINE t == Tail(g)
    <2>1. t \in Seq(Records) /\ Len(t) = m
      BY <1>1, <1>3, <1>4
    <2>2. \A i \in 1 .. m : t[i] = g[i + 1]
      BY <1>1, <1>3, <1>4
    <2> HIDE DEF t
    <2>3. t = [i \in 1 .. m |-> t[i]]
      BY <2>1
    <2> QED
      BY <2>2, <2>3 DEF t
  <1>6. \A i \in 1 .. m : g[i + 1] = h[i]
    <2> TAKE i \in 1 .. m
    <2>1. i + 1 \in 2 .. Len(g) /\ (i + 1) - 1 = i
      BY <1>3
    <2> QED
      BY <1>1, <2>1
  <1>7. SubSeq(h, 1, m) = [i \in 1 .. m |-> h[i]]
    BY <1>1, <1>3
  <1>8. [i \in 1 .. m |-> g[i + 1]] = [i \in 1 .. m |-> h[i]]
    BY <1>6
  <1>9. Newest(h, MaxHistory - 1) = SubSeq(h, 1, m)
    BY DEF Newest, m
  <1> QED
    BY <1>4, <1>5, <1>7, <1>8, <1>9 DEF g

(* A step stores nothing, what the user writes, or what an accepted update *)
(* writes.                                                                 *)
LEMMA WhatIsStored ==
  ASSUME IInv, [Next]_vars
  PROVE  \/ UNCHANGED versions
         \/ \E o \in Objects : Write(o) /\ o.hist = Current.hist
         \/ \E p \in Procs : At(p, "put") /\ Accepted(p) /\ Store(Written(p))
  <1>1. ASSUME NEW p \in Procs, PutOk(p) \/ PutFault(p)
        PROVE  \/ UNCHANGED versions
               \/ At(p, "put") /\ Accepted(p) /\ Store(Written(p))
    BY <1>1 DEF PutOk, PutFault
  <1>2. CASE UserEdit \/ UserDelete
    BY <1>2, UserWrites
  <1>3. ASSUME NEW p \in Procs, Step(p), ~PutOk(p)
        PROVE  UNCHANGED versions
    <2>1. CASE Reconcile(p)
      BY <2>1 DEF Reconcile, ReconcileGone, ReconcileSuspended, ReconcileInvalid,
         ReconcileWait, ReconcileRun, Scheduled, Begin
    <2>2. CASE GetOk(p) \/ PutConflict(p) \/ PutFailed(p)
      BY <2>2 DEF GetOk, PutConflict, PutFailed, Exhausted
    <2>3. CASE Gate(p) \/ Rest(p) \/ Auth(p) \/ GitPushed(p) \/ GitFailed(p)
      BY <2>3 DEF Gate, Rest, Auth, GitPushed, GitFailed, Working, kubeVars
    <2> QED
      BY <1>3, <2>1, <2>2, <2>3 DEF Step
  <1>4. ASSUME NEW p \in Procs, Delivered(p) \/ Elapsed(p) \/ Crash(p)
        PROVE  UNCHANGED versions
    BY <1>4 DEF Delivered, Elapsed, Watch, Deliver, Timer, TimerFire, Crash, Relist
  <1>5. CASE Ticked \/ UNCHANGED vars
    BY <1>5 DEF Ticked, Tick, vars, kubeVars
  <1> QED
    BY <1>1, <1>2, <1>3, <1>4, <1>5 DEF Next, Environment

(* The history of what an accepted update writes.                          *)
LEMMA WrittenHistory ==
  ASSUME IInv, NEW p \in Procs, Accepted(p)
  PROVE  \/ Written(p).hist = Current.hist
         \/ \E r \in Records : Written(p).hist = Recorded(Current.hist, r)
         \/ op[p] \in StatusOps /\ Written(p).hist = obj[p].hist
  <1>1. Current \in Objects /\ obj[p] \in Objects /\ op[p] \in Ops
    BY CurrentOK DEF IInv, LocalsOK
  <1>2. Written(p) = Merge(p, Current)
    BY DEF Written, Accepted, Current
  <1>3. CASE op[p] \in StatusOps
    <2>1. Written(p) = MergeStatus(Current, obj[p], PhaseOf(op[p]))
      BY <1>2, <1>3 DEF Merge, StatusOps, NextOps
    <2>2. Written(p).hist \in {Current.hist, obj[p].hist}
      BY <1>1, <2>1 DEF MergeStatus, Objects
    <2> QED
      BY <1>3, <2>2
  <1>4. CASE op[p] \in NextOps
    <2>1. Written(p) = [Current EXCEPT !.next = NextRun(start[p])]
      BY <1>2, <1>4 DEF Merge, StatusOps, NextOps
    <2> QED
      BY <1>1, <2>1 DEF Objects
  <1>5. CASE op[p] \in RecordOps
    <2>1. PICK ph, t : /\ ph \in {"Committed", "Failed", "Pending"}
                       /\ Written(p) = MergeRecord(Current, obj[p], ph, t)
      <3>1. CASE op[p] = "recordCommitted"
        BY <1>2, <3>1 DEF Merge, StatusOps, NextOps
      <3>2. CASE op[p] \in {"recordFailed", "recordPending"}
        <4>1. Written(p) = MergeRecord(Current, obj[p], PhaseOf(op[p]), NextRun(start[p]))
          BY <1>2, <3>2 DEF Merge, StatusOps, NextOps
        <4>2. PhaseOf(op[p]) \in {"Failed", "Pending"}
          BY <3>2 DEF PhaseOf
        <4> QED
          BY <4>1, <4>2
      <3> QED
        BY <1>5, <3>1, <3>2 DEF RecordOps
    <2> DEFINE n == IF ph = "Committed" THEN obj[p].sha ELSE 0
               r == [sha |-> n, phase |-> ph]
    <2>2. obj[p].sha \in Nat
      BY <1>1 DEF Objects
    <2>3. n \in Nat /\ ph \in Phases
      BY <2>1, <2>2 DEF Phases
    <2>4. Written(p) = [Current EXCEPT !.phase = ph, !.sync = now, !.sha = n,
                                !.last = obj[p].last, !.next = IF t # 0 THEN t ELSE @,
                                !.hist = Recorded(Current.hist, r)]
      BY <2>1 DEF MergeRecord, Recorded
    <2> HIDE DEF n
    <2>5. r \in Records
      BY <2>3 DEF Records
    <2> HIDE DEF r
    <2>6. Written(p).hist = Recorded(Current.hist, r)
      BY <1>1, <2>4 DEF Objects
    <2> QED
      BY <2>5, <2>6
  <1> QED
    BY <1>1, <1>3, <1>4, <1>5 DEF Ops

(* Nothing that is stored is ever replaced.                                *)
LEMMA VersionsStay ==
  ASSUME IInv, [Next]_vars
  PROVE  /\ RV \in Nat /\ RV' \in Nat /\ RV <= RV'
         /\ \A k \in 1 .. RV : versions'[k] = versions[k]
  <1>1. versions \in Seq(Objects) /\ RV \in Nat
    BY CurrentOK DEF IInv, StoreOK
  <1>2. ASSUME UNCHANGED versions
        PROVE  /\ RV' \in Nat /\ RV <= RV'
               /\ \A k \in 1 .. RV : versions'[k] = versions[k]
    BY <1>1, <1>2 DEF RV
  <1>3. ASSUME NEW o \in Objects, Write(o)
        PROVE  /\ RV' \in Nat /\ RV <= RV'
               /\ \A k \in 1 .. RV : versions'[k] = versions[k]
    BY <1>1, <1>3, WriteType
  <1>4. ASSUME NEW p \in Procs, Store(Written(p))
        PROVE  UNCHANGED versions \/ \E o \in Objects : Write(o)
    BY <1>4, WrittenOK DEF Store
  <1> QED
    BY <1>1, <1>2, <1>3, <1>4, WhatIsStored

(* How a step moves the worker of q.                                       *)
Moves(q) ==
    \/ Leave(q)
    \/ \E o \in Objects, u \in Ops :
          Update(q, o, u) /\ (u \in StatusOps => o.hist = View(q).hist)
    \/ \E l \in PCs : /\ GoTo(q, l) /\ UNCHANGED <<obj, op>>
                      /\ l \in {"get", "put"} => Updating(q)
    \/ \E l \in {"gate", "auth"}, o \in Objects :
          GoTo(q, l) /\ obj' = [obj EXCEPT ![q] = o] /\ UNCHANGED op

LEMMA WhoMoves ==
  ASSUME IInv, [Next]_vars
  PROVE  UNCHANGED <<pc, obj, op>> \/ \E q \in Procs : Moves(q)
  <1>1. ASSUME NEW q \in Procs, Reconcile(q)
        PROVE  UNCHANGED <<pc, obj, op>> \/ Moves(q)
    <2>1. View(q) \in Objects /\ now \in Nat
      BY ViewOK, TimesOK
    <2>2. CASE UNCHANGED workerVars
      BY <2>2 DEF workerVars
    <2>3. ASSUME NEW u \in {"suspended", "invalid", "wait"}, Update(q, View(q), u)
          PROVE  Moves(q)
      <3>1. u \in Ops
        BY DEF Ops, StatusOps, NextOps
      <3> QED
        BY <2>1, <2>3, <3>1 DEF Moves
    <2>4. CASE Update(q, [View(q) EXCEPT !.last = now], "running")
      <3> DEFINE o == [View(q) EXCEPT !.last = now]
      <3>1. "running" \in Ops
        BY DEF Ops, StatusOps
      <3>2. o \in Objects /\ o.hist = View(q).hist
        BY <2>1 DEF Objects
      <3>3. Update(q, o, "running")
        BY <2>4
      <3> HIDE DEF o
      <3> QED
        BY <3>1, <3>2, <3>3 DEF Moves
    <2> QED
      BY <1>1, <2>2, <2>3, <2>4 DEF Reconcile, ReconcileGone, ReconcileSuspended,
         ReconcileInvalid, ReconcileWait, ReconcileRun
  <1>2. ASSUME NEW q \in Procs, GetOk(q) \/ PutConflict(q) PROVE Moves(q)
    <2>1. Updating(q) /\ "get" \in PCs /\ "put" \in PCs
      BY <1>2 DEF GetOk, PutConflict, Conflict, At, Updating, PCs
    <2>2. (GoTo(q, "put") \/ GoTo(q, "get")) /\ UNCHANGED <<obj, op>>
      BY <1>2 DEF GetOk, PutConflict
    <2> QED
      BY <2>1, <2>2 DEF Moves
  <1>3. ASSUME NEW q \in Procs, PutOk(q) PROVE Moves(q)
    <2>1. UpdateDone(q, Written(q)) /\ Written(q) \in Objects
      BY <1>3, WrittenOK DEF PutOk
    <2>2. obj[q] \in Objects /\ op[q] \in Ops
      BY DEF IInv, LocalsOK
    <2>3. CASE op[q] = "running"
      <3>1. GoTo(q, "gate") /\ obj' = [obj EXCEPT ![q] = Written(q)] /\ UNCHANGED op
        BY <2>1, <2>3 DEF UpdateDone
      <3> QED
        BY <2>1, <3>1 DEF Moves
    <2>4. CASE op[q] = "advance"
      <3> DEFINE o == [obj[q] EXCEPT !.next = Written(q).next]
      <3>1. Update(q, o, "recordCommitted")
        BY <2>1, <2>4 DEF UpdateDone
      <3>2. o \in Objects
        BY <2>1, <2>2 DEF Objects
      <3>3. "recordCommitted" \in Ops /\ "recordCommitted" \notin StatusOps
        BY DEF Ops, RecordOps, StatusOps
      <3> HIDE DEF o
      <3> QED
        BY <3>1, <3>2, <3>3 DEF Moves
    <2>5. CASE op[q] \notin {"running", "advance"}
      <3>1. Leave(q)
        BY <2>1, <2>2, <2>5 DEF UpdateDone, Ops, StatusOps, NextOps, RecordOps, ReturnError
      <3> QED
        BY <3>1 DEF Moves
    <2> QED
      BY <2>3, <2>4, <2>5
  <1>4. ASSUME NEW q \in Procs, PutFailed(q) \/ PutFault(q) \/ Crash(q) PROVE Moves(q)
    <2>1. Leave(q)
      BY <1>4, UpdateFailedLeaves DEF PutFailed, PutFault, Crash
    <2> QED
      BY <2>1 DEF Moves
  <1>5. ASSUME NEW q \in Procs,
               Gate(q) \/ Rest(q) \/ Auth(q) \/ GitPushed(q) \/ GitFailed(q)
        PROVE  Moves(q)
    <2>1. obj[q] \in Objects /\ pushes \in Nat
      BY TimesOK DEF IInv, LocalsOK
    <2>2. obj[q].calls + 1 \in Nat /\ pushes + 1 \in Nat
      BY <2>1 DEF Objects
    <2>3. /\ Counted(q) \in Objects
          /\ [obj[q] EXCEPT !.sha = pushes + 1] \in Objects
      <3>1. Counted(q) \in Objects
        BY ZenonT(30), <2>1, <2>2 DEF Counted, Objects
      <3>2. [obj[q] EXCEPT !.sha = pushes + 1] \in Objects
        BY ZenonT(30), <2>1, <2>2 DEF Objects
      <3> QED
        BY <3>1, <3>2
    <2>4. CASE \E l \in {"auth", "rest", "git"} : Move(q, l)
      BY <2>4 DEF Moves, Move, PCs
    <2>5. ASSUME NEW o \in Objects,
                 NEW u \in {"recordFailed", "recordPending", "advance"}, Update(q, o, u)
          PROVE  Moves(q)
      <3>1. u \in Ops /\ u \notin StatusOps
        BY DEF Ops, RecordOps, NextOps, StatusOps
      <3> QED
        BY <2>5, <3>1 DEF Moves
    <2>6. CASE GoTo(q, "auth") /\ obj' = [obj EXCEPT ![q] = Counted(q)]
                               /\ UNCHANGED <<fresh, op, tries>>
      BY <2>3, <2>6 DEF Moves
    <2> QED
      BY <1>5, <2>1, <2>3, <2>4, <2>5, <2>6 DEF Gate, Rest, Auth, GitPushed, GitFailed
  <1>6. CASE \E q \in Procs : Delivered(q) \/ Elapsed(q)
    BY <1>6 DEF Delivered, Elapsed, Watch, Timer, workerVars
  <1>7. CASE Ticked \/ UserEdit \/ UserDelete \/ UNCHANGED vars
    BY <1>7 DEF Ticked, Tick, UserEdit, UserDelete, vars, workerVars
  <1> QED
    BY <1>1, <1>2, <1>3, <1>4, <1>5, <1>6, <1>7 DEF Next, Step, Environment

(* A status update has the history of the version that Reconcile has read, *)
(* and that version stays.                                                 *)
LEMMA HandsNext == IInv /\ HandsKnown /\ [Next]_vars => HandsKnown'
  <1> SUFFICES ASSUME IInv, HandsKnown, [Next]_vars,
                      NEW p \in Procs, pc'[p] \in {"get", "put"}, op'[p] \in StatusOps
               PROVE  \E k \in 1 .. RV' : obj'[p].hist = versions'[k].hist
    BY DEF HandsKnown
  <1>1. /\ RV \in Nat /\ RV' \in Nat /\ RV <= RV'
        /\ \A k \in 1 .. RV : versions'[k] = versions[k]
    BY VersionsStay
  <1>2. SUFFICES \E k \in 1 .. RV : obj'[p].hist = versions[k].hist
    BY <1>1
  <1>3. /\ pc \in [Procs -> PCs] /\ obj \in [Procs -> Objects] /\ op \in [Procs -> Ops]
    BY DEF IInv, LocalsOK
  <1>4. CASE pc'[p] = pc[p] /\ op'[p] = op[p] /\ obj'[p] = obj[p]
    BY <1>4 DEF HandsKnown
  <1>5. ASSUME NEW q \in Procs, Moves(q), q # p
        PROVE  pc'[p] = pc[p] /\ op'[p] = op[p] /\ obj'[p] = obj[p]
    BY <1>3, <1>5 DEF Moves, Leave, Update, GoTo
  <1>6. CASE Moves(p)
    <2>1. CASE Leave(p)
      BY <1>3, <2>1 DEF Leave, GoTo
    <2>2. ASSUME NEW o \in Objects, NEW u \in Ops, Update(p, o, u),
                 u \in StatusOps => o.hist = View(p).hist
          PROVE  \E k \in 1 .. RV : obj'[p].hist = versions[k].hist
      <3>1. obj'[p] = o /\ op'[p] = u
        BY <1>3, <2>2 DEF Update
      <3>2. Seen(p) \in 1 .. RV /\ o.hist = versions[Seen(p)].hist
        BY <2>2, <3>1, ViewOK DEF View
      <3> QED
        BY <3>1, <3>2
    <2>3. ASSUME NEW l \in PCs, GoTo(p, l), UNCHANGED <<obj, op>>,
                 l \in {"get", "put"} => Updating(p)
          PROVE  \E k \in 1 .. RV : obj'[p].hist = versions[k].hist
      <3>1. pc'[p] = l
        BY <1>3, <2>3 DEF GoTo
      <3> QED
        BY <2>3, <3>1 DEF HandsKnown, Updating
    <2>4. CASE GoTo(p, "gate") \/ GoTo(p, "auth")
      BY <1>3, <2>4 DEF GoTo
    <2> QED
      BY <1>6, <2>1, <2>2, <2>3, <2>4 DEF Moves
  <1> QED
    BY <1>4, <1>5, <1>6, WhoMoves

LEMMA HandsInit == Init => HandsKnown
  BY DEF Init, ScheduleInit, HandsKnown

(* A record leaves a history to make room for a newer one, and otherwise   *)
(* only when a status update writes back what the resource had before:     *)
(* with any number of replicas, on caches however old, and whatever        *)
(* crashes, edits and failed calls come in between.                        *)
THEOREM RecordsAreKept == Spec => LossIsStale
  <1> DEFINE Kept(h, g) ==
                \/ g = h
                \/ g # <<>> /\ Tail(g) = Newest(h, MaxHistory - 1)
                \/ \E p \in Procs, k \in 1 .. RV :
                      At(p, "put") /\ op[p] \in StatusOps /\ g = versions[k].hist
  <1>1. IInv /\ HandsKnown /\ [Next]_vars => Kept(Current.hist, Current'.hist)
    <2> SUFFICES ASSUME IInv, HandsKnown, [Next]_vars
                 PROVE  Kept(Current.hist, Current'.hist)
      OBVIOUS
    <2>1. /\ versions \in Seq(Objects) /\ RV >= 1
          /\ Current \in Objects /\ Current.hist \in Seq(Records)
      BY CurrentOK DEF IInv, StoreOK, Objects
    <2>2. CASE UNCHANGED versions
      BY <2>2 DEF Current, RV
    <2>3. ASSUME NEW o \in Objects, Write(o), o.hist = Current.hist
          PROVE  Kept(Current.hist, Current'.hist)
      <3>1. Current' = o
        BY <2>1, <2>3, WriteType
      <3> QED
        BY <2>3, <3>1
    <2>4. ASSUME NEW p \in Procs, At(p, "put"), Accepted(p), Store(Written(p))
          PROVE  Kept(Current.hist, Current'.hist)
      <3>1. Current' = Written(p)
        BY <2>1, <2>4, WrittenOK, StoreCurrent
      <3>2. CASE Written(p).hist = Current.hist
        BY <3>1, <3>2
      <3>3. ASSUME NEW r \in Records, Written(p).hist = Recorded(Current.hist, r)
            PROVE  Kept(Current.hist, Current'.hist)
        BY <2>1, <3>1, <3>3, RecordedTail
      <3>4. CASE op[p] \in StatusOps /\ Written(p).hist = obj[p].hist
        <4>1. PICK k \in 1 .. RV : obj[p].hist = versions[k].hist
          BY <2>4, <3>4 DEF HandsKnown, At
        <4> QED
          BY <2>4, <3>1, <3>4, <4>1
      <3> QED
        BY <2>4, <3>2, <3>3, <3>4, WrittenHistory
    <2> QED
      BY <2>2, <2>3, <2>4, WhatIsStored
  <1>2. [Kept(Current.hist, Current'.hist)]_vars =>
          [LET h == Current.hist
               g == versions'[Len(versions')].hist
           IN  \/ g = h
               \/ g # <<>> /\ Tail(g) = Newest(h, MaxHistory - 1)
               \/ \E p \in Procs, k \in 1 .. RV :
                     At(p, "put") /\ op[p] \in StatusOps /\ g = versions[k].hist]_vars
    BY DEF Current, RV
  <1> HIDE DEF Kept
  <1> QED
    BY <1>1, <1>2, HandsInit, HandsNext, Invariance, PTL DEF Spec, LossIsStale

-----------------------------------------------------------------------------
(* What is published stays.                                                *)

(* What the user writes keeps the history and the times.                   *)
Unpublished ==
    /\ Current'.next = Current.next /\ Current'.hist = Current.hist
    /\ Current.gone => Current'.gone

LEMMA UserKeeps ==
  ASSUME NEW p, Accounts(p), UserEdit \/ UserDelete
  PROVE  Unpublished
  <1>1. versions \in Seq(Objects) /\ RV >= 1 /\ Current \in Objects
    BY AccountFacts DEF Typed
  <1>2. CASE UserEdit
    <2>1. PICK s \in Specs :
              Write([Current EXCEPT !.suspend = s.suspend, !.valid = s.valid])
      BY <1>2 DEF UserEdit
    <2> DEFINE o == [Current EXCEPT !.suspend = s.suspend, !.valid = s.valid]
    <2>2. s \in [suspend: BOOLEAN, valid: BOOLEAN]
      BY ScheduleAssumption
    <2>3. /\ o \in Objects /\ o.next = Current.next /\ o.hist = Current.hist
          /\ ~Current.gone
      BY <1>1, <1>2, <2>2 DEF Objects, UserEdit
    <2>4. Write(o)
      BY <2>1
    <2> HIDE DEF o
    <2>5. Current' = o
      BY <1>1, <2>3, <2>4, WriteType
    <2> QED
      BY <2>3, <2>5 DEF Unpublished
  <1>3. CASE UserDelete
    <2> DEFINE o == [Current EXCEPT !.gone = TRUE]
    <2>1. /\ o \in Objects /\ o.next = Current.next /\ o.hist = Current.hist
          /\ ~Current.gone
      BY <1>1, <1>3 DEF Objects, UserDelete
    <2>2. Write(o)
      BY <1>3 DEF UserDelete
    <2> HIDE DEF o
    <2>3. Current' = o
      BY <1>1, <2>1, <2>2, WriteType
    <2> QED
      BY <2>1, <2>3 DEF Unpublished
  <1> QED
    BY <1>2, <1>3

(* Anything else that is stored is what an accepted update writes.         *)
Publishes(p) == At(p, "put") /\ Accepted(p) /\ Current' = Written(p)

LEMMA WhoWrites ==
  ASSUME NEW p, Accounts(p), [Next]_vars
  PROVE  Unpublished \/ Publishes(p)
  <1>1. p \in Procs /\ Procs = {p} /\ versions \in Seq(Objects) /\ RV >= 1
        /\ Current \in Objects
    BY AccountFacts DEF Accounts, Typed
  <1>2. CASE UNCHANGED versions
    BY <1>2 DEF Current, RV, Unpublished
  <1>3. ASSUME At(p, "put"), Accepted(p), Store(Written(p))
        PROVE  Publishes(p)
    <2>1. Written(p) \in Objects
      BY <1>3, WrittenFields
    <2> QED
      BY <1>1, <1>3, <2>1, StoreCurrent DEF Publishes
  <1>4. CASE PutOk(p) \/ PutFault(p)
    BY <1>2, <1>3, <1>4 DEF PutOk, PutFault
  <1>5. CASE UserEdit \/ UserDelete
    BY <1>5, UserKeeps
  <1>7. CASE Step(p) /\ ~PutOk(p)
    <2>1. UNCHANGED versions
      <3>1. CASE Reconcile(p)
        BY <3>1 DEF Reconcile, ReconcileGone, ReconcileSuspended, ReconcileInvalid,
           ReconcileWait, ReconcileRun, Scheduled, Begin
      <3>2. CASE GetOk(p) \/ PutConflict(p) \/ PutFailed(p)
        BY <3>2 DEF GetOk, PutConflict, PutFailed, Exhausted
      <3>3. CASE Gate(p) \/ Rest(p) \/ Auth(p) \/ GitPushed(p) \/ GitFailed(p)
        BY <3>3 DEF Gate, Rest, Auth, GitPushed, GitFailed, Working, kubeVars
      <3> QED
        BY <1>7, <3>1, <3>2, <3>3 DEF Step
    <2> QED
      BY <1>2, <2>1
  <1>8. CASE Delivered(p) \/ Elapsed(p) \/ Ticked \/ Crash(p) \/ UNCHANGED vars
    <2>1. UNCHANGED versions
      BY <1>8 DEF Delivered, Elapsed, Ticked, Watch, Deliver, Timer, TimerFire, Tick, Crash,
         Relist, vars, kubeVars
    <2> QED
      BY <1>2, <2>1
  <1> QED
    BY <1>1, <1>4, <1>5, <1>7, <1>8 DEF Next, Environment

(* The cron line: NextRun(t) is on it, and is the first time after t that  *)
(* is.                                                                     *)
LEMMA NextRunOnLine ==
  ASSUME ~Every, NEW t \in Nat
  PROVE  /\ OnLine(NextRun(t))
         /\ \A u \in Nat : /\ OnLine(u) /\ t < u
                          /\ u \div Period <= t \div Period + 1
                          => u = NextRun(t)
  <1>1. Period \in Nat \ {0}
    BY ScheduleAssumption
  <1> DEFINE s == t \div Period
  <1>2. s \in Nat /\ t < Period * s + Period /\ Period * s <= t
    BY <1>1, DivDef
  <1>3. NextRun(t) = (s + 1) * Period
    BY DEF NextRun
  <1>4. NextRun(t) \div Period = s + 1
    BY NextRunSlot
  <1>5. OnLine(NextRun(t))
    BY <1>3, <1>4 DEF OnLine
  <1> HIDE DEF s
  <1>6. ASSUME NEW u \in Nat, OnLine(u), t < u, u \div Period <= s + 1
        PROVE  u = NextRun(t)
    <2> DEFINE v == u \div Period
    <2>1. v \in Nat /\ u = v * Period /\ v <= s + 1
      BY <1>1, <1>6, DivDef DEF OnLine
    <2> HIDE DEF v
    <2>2. ASSUME v <= s PROVE FALSE
      <3>1. v * Period <= s * Period
        BY <1>1, <1>2, <2>1, <2>2
      <3>2. s * Period = Period * s
        BY <1>1, <1>2
      <3> QED
        BY <1>1, <1>2, <1>6, <2>1, <3>1, <3>2
    <2>3. v = s + 1
      BY <1>2, <2>1, <2>2
    <2> QED
      BY <1>3, <2>1, <2>3
  <1> QED
    BY <1>5, <1>6 DEF s

LEMMA LineFacts ==
  ASSUME NEW p, Accounts(p), LineOK, ~Every
  PROVE  Current.gone \/ (/\ OnLine(Current.next)
                          /\ Updating(p) /\ op[p] = "wait" => Current.next = 0)
  BY AccountFacts DEF LineOK

(* A published time is replaced when it has come, by one on the line.      *)
LEMMA PublishedTime ==
  ASSUME NEW p, Accounts(p), LineOK, ~Every, Publishes(p)
  PROVE  /\ OnLine(Current'.next)
         /\ \/ Current'.next = Current.next
            \/ Current.next = 0 \/ Current.next <= now
  <1>1. /\ op[p] \in Ops /\ start[p] \in 0 .. now /\ now \in Nat \ {0}
        /\ start[p] \in Nat /\ Current.next \in Nat /\ ~Current.gone /\ Updating(p)
    BY AccountFacts DEF Publishes, Accepted, At, Updating
  <1>2. At(p, "put") /\ Accepted(p) /\ Current' = Written(p)
    BY DEF Publishes
  <1>3. OnLine(Current.next) /\ (op[p] = "wait" => Current.next = 0)
    BY <1>1, LineFacts
  <1>4. OnLine(NextRun(start[p]))
    BY <1>1, NextRunOnLine
  <1>5. CASE op[p] \in StatusOps \/ op[p] = "recordCommitted"
    <2>1. Current'.next = Current.next
      BY <1>2, <1>5, WrittenFields DEF StatusOps, RecordOps
    <2> QED
      BY <1>3, <2>1
  <1>6. CASE op[p] \in {"wait", "advance", "recordFailed", "recordPending"}
    <2>1. Current'.next = NextRun(start[p])
      BY <1>2, <1>6, WrittenFields DEF NextOps, RecordOps
    <2>2. CASE op[p] = "wait"
      BY <1>3, <1>4, <2>1, <2>2
    <2>3. CASE op[p] # "wait"
      <3>1. Executing(p)
        BY <1>1, <1>6, <2>3 DEF Executing
      <3>2. Current.next <= start[p]
        BY <1>1, <3>1, AccountFacts DEF Accounts, AccountOK, ExecutionOK
      <3> QED
        BY <1>1, <1>4, <2>1, <3>2
    <2> QED
      BY <2>2, <2>3
  <1> QED
    BY <1>1, <1>5, <1>6 DEF Ops, NextOps, RecordOps

(* A wait begins only where no time is published: otherwise that time is   *)
(* the next run already.                                                   *)
LEMMA WaitBegins ==
  ASSUME NEW p, Accounts(p), LineOK, ~Every, Next, ~Current.gone,
         Updating(p)', op'[p] = "wait"
  PROVE  Current'.next = 0
  <1>1. /\ p \in Procs /\ Procs = {p} /\ Typed(p, Objects, PCs) /\ op[p] \in Ops
        /\ Current.next \in Nat /\ now \in Nat /\ CacheLag = FALSE
    BY AccountFacts DEF Accounts
  <1>10. ASSUME UNCHANGED versions PROVE Current' = Current
    BY <1>10 DEF Current, RV
  <1>11. ASSUME Updating(p), op[p] = "wait" PROVE Current.next = 0
    BY <1>11, LineFacts
  <1>2. ASSUME Leave(p) PROVE FALSE
    BY <1>1, <1>2 DEF Leave, GoTo, Typed, Updating
  <1>3. ASSUME NEW o, NEW u, Update(p, o, u) PROVE u = "wait"
    BY <1>1, <1>3 DEF Update, Typed
  <1>4. CASE Reconcile(p)
    <2>1. View(p) = Current
      BY <1>1, CurrentReads
    <2>2. ~UNCHANGED workerVars
      <3> SUFFICES ASSUME UNCHANGED workerVars PROVE FALSE
        OBVIOUS
      <3>1. pc[p] = "idle"
        BY <1>4 DEF Reconcile, ReconcileGone, ReconcileSuspended, ReconcileInvalid,
           ReconcileWait, ReconcileRun, Scheduled, Begin, At
      <3> QED
        BY <3>1 DEF workerVars, Updating
    <2>3. ReconcileWait(p)
      BY <1>3, <1>4, <2>2 DEF Reconcile, ReconcileGone, ReconcileSuspended, ReconcileInvalid,
         ReconcileRun
    <2>4. UNCHANGED versions
      BY <2>3 DEF ReconcileWait, Scheduled, Begin
    <2>5. Current.next # NextRun(now) /\ (Current.next = 0 \/ now < Current.next)
      BY <1>1, <2>1, <2>2, <2>3 DEF ReconcileWait, ShouldExecute
    <2>6. OnLine(Current.next)
      BY LineFacts
    <2>7. Current.next \div Period <= now \div Period + 1
      BY <1>1 DEF Accounts, AccountOK, PlanOK
    <2> QED
      BY <1>1, <1>10, <2>4, <2>5, <2>6, <2>7, NextRunOnLine
  <1>5. CASE GetOk(p) \/ PutConflict(p)
    <2>1. op' = op /\ Updating(p) /\ UNCHANGED versions
      BY <1>5 DEF GetOk, PutConflict, Conflict, At, Updating
    <2> QED
      BY <1>10, <1>11, <2>1
  <1>6. CASE PutOk(p)
    <2>1. PICK o : UpdateDone(p, o)
      BY <1>6 DEF PutOk
    <2>2. op[p] \notin {"running", "advance"}
      <3>1. op[p] = "advance" => FALSE
        BY <1>3, <2>1 DEF UpdateDone
      <3>2. op[p] = "running" => FALSE
        <4>1. op[p] = "running" => pc'[p] = "gate"
          BY <1>1, <2>1 DEF UpdateDone, GoTo, Typed
        <4> QED
          BY <4>1 DEF Updating
      <3> QED
        BY <3>1, <3>2
    <2>3. Leave(p)
      BY <1>1, <2>1, <2>2 DEF UpdateDone, Ops, StatusOps, NextOps, RecordOps, ReturnError
    <2> QED
      BY <1>2, <2>3
  <1>7. CASE PutFailed(p) \/ PutFault(p) \/ Crash(p)
    BY <1>2, <1>7, UpdateFailedLeaves DEF PutFailed, PutFault, Crash
  <1>8. CASE Gate(p) \/ Rest(p) \/ Auth(p) \/ GitPushed(p) \/ GitFailed(p)
    <2>1. pc[p] \in {"gate", "rest", "auth", "git"}
      BY <1>8 DEF Gate, Rest, Auth, GitPushed, GitFailed, At
    <2>2. pc'[p] \in {"auth", "rest", "git"} \/ \E o, u : Update(p, o, u) /\ u # "wait"
      BY <1>1, <1>8 DEF Gate, Rest, Auth, GitPushed, GitFailed, Move, GoTo, Typed
    <2> QED
      BY <1>3, <2>2 DEF Updating
  <1>9. CASE Delivered(p) \/ Elapsed(p) \/ Ticked \/ UserEdit \/ UserDelete
    <2>1. UNCHANGED <<pc, op>>
      BY <1>9 DEF Delivered, Elapsed, Ticked, Watch, Timer, Tick, UserEdit, UserDelete,
         workerVars
    <2>2. Updating(p) /\ op[p] = "wait"
      BY <2>1 DEF Updating
    <2>3. Current'.next = Current.next
      <3>1. CASE UserEdit \/ UserDelete
        BY <3>1, UserKeeps DEF Unpublished
      <3>2. CASE Delivered(p) \/ Elapsed(p) \/ Ticked
        BY <1>10, <3>2 DEF Delivered, Elapsed, Ticked, Watch, Deliver, Timer, TimerFire, Tick,
           kubeVars
      <3> QED
        BY <1>9, <3>1, <3>2
    <2> QED
      BY <1>11, <2>2, <2>3
  <1> QED
    BY <1>1, <1>4, <1>5, <1>6, <1>7, <1>8, <1>9 DEF Next, Step, Environment

LEMMA LineNext ==
  Ideal /\ ~Every /\ IInv /\ AccountOK /\ LineOK /\ [Next]_vars => LineOK'
  <1> SUFFICES ASSUME Ideal, ~Every, IInv, AccountOK, LineOK, [Next]_vars PROVE LineOK'
    OBVIOUS
  <1>1. PICK p : Procs = {p}
    BY DEF Ideal, OneProcess
  <1>2. Accounts(p)
    BY <1>1 DEF Accounts, Ideal
  <1>3. CASE UNCHANGED vars
    <2>1. UNCHANGED <<versions, pc, op>>
      BY <1>3 DEF vars, kubeVars, workerVars
    <2> QED
      BY <2>1 DEF LineOK, OnLine, Updating, Current, RV
  <1>4. CASE Next
    <2>1. Unpublished \/ Publishes(p)
      BY <1>2, WhoWrites
    <2>2. Current.gone => Current'.gone
      BY <2>1 DEF Unpublished, Publishes, Accepted
    <2>3. ASSUME ~Current.gone
          PROVE  OnLine(Current'.next)
      BY <1>2, <2>1, <2>3, LineFacts, PublishedTime DEF Unpublished
    <2>4. ASSUME ~Current.gone, Updating(p)', op'[p] = "wait"
          PROVE  Current'.next = 0
      BY <1>2, <1>4, <2>4, WaitBegins
    <2>5. OnLine(Current.next)' <=> OnLine(Current'.next)
      BY DEF OnLine
    <2> QED
      BY <1>1, <2>2, <2>3, <2>4, <2>5 DEF LineOK
  <1> QED
    BY <1>3, <1>4

LEMMA LineInit == Init => LineOK
  <1> SUFFICES ASSUME Init PROVE LineOK
    OBVIOUS
  <1>1. PICK s \in Specs, c \in CallsBefore : KubeInit(NewObject(s, c))
    BY DEF Init
  <1>2. Current = NewObject(s, c) /\ Current.next = 0
    BY <1>1 DEF KubeInit, Current, RV, NewObject
  <1>3. Period \in Nat \ {0}
    BY ScheduleAssumption
  <1>4. OnLine(0)
    BY <1>3 DEF OnLine
  <1> QED
    BY <1>2, <1>4 DEF LineOK

(* On a cron line a published time is not replaced before it has come:     *)
(* handleScheduledGitCommit publishes another only after the execution     *)
(* that served it, or where there was none.                                *)
THEOREM NextTimeIsKept == Ideal /\ ~Every => (Spec => NextTimeKept)
  <1> SUFFICES ASSUME Ideal, ~Every PROVE Spec => NextTimeKept
    OBVIOUS
  <1> DEFINE Stays == Current.next # 0 /\ Current'.next # Current.next => Current.next <= now
  <1>1. IInv /\ AccountOK /\ LineOK /\ [Next]_vars => Stays
    <2> SUFFICES ASSUME IInv, AccountOK, LineOK, [Next]_vars PROVE Stays
      OBVIOUS
    <2>1. PICK p : Procs = {p}
      BY DEF Ideal, OneProcess
    <2>2. Accounts(p)
      BY <2>1 DEF Accounts, Ideal
    <2> QED
      BY <2>2, WhoWrites, PublishedTime DEF Unpublished
  <1>2. [Stays]_vars => [LET next == versions'[Len(versions')].next
                         IN  Current.next # 0 /\ next # Current.next => Current.next <= now]_vars
    BY DEF Current, RV
  <1> HIDE DEF Stays
  <1>3. IInv /\ AccountOK /\ LineOK /\ [Next]_vars => LineOK'
    BY LineNext
  <1>4. Init => LineOK
    BY LineInit
  <1> QED
    BY <1>1, <1>2, <1>3, <1>4, Invariance, AccountInvariance, PTL DEF Spec, NextTimeKept
=============================================================================
