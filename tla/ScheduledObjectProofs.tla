----------------------- MODULE ScheduledObjectProofs ------------------------
(***************************************************************************)
(* Lemmas about ScheduledObject that the proofs of its two components      *)
(* share: the schedule, histories, versions, and the accounts of mishaps.  *)
(***************************************************************************)
EXTENDS ScheduledObject, TLAPS

-----------------------------------------------------------------------------
(* Times.                                                                  *)

LEMMA DivDef ==
  ASSUME NEW n \in Nat, NEW d \in Nat \ {0}
  PROVE  n \div d \in Nat /\ d * (n \div d) <= n /\ n < d * (n \div d) + d
  OBVIOUS

LEMMA DivLe ==
  ASSUME NEW a \in Nat, NEW b \in Nat, NEW d \in Nat \ {0}, a <= b
  PROVE  a \div d <= b \div d
  <1> DEFINE x == a \div d
             y == b \div d
  <1>1. x \in Nat /\ d * x <= a /\ y \in Nat /\ b < d * y + d
    BY DivDef
  <1> HIDE DEF x, y
  <1> SUFFICES ASSUME y + 1 <= x PROVE FALSE
    BY <1>1 DEF x, y
  <1>2. d * (y + 1) <= d * x
    BY <1>1
  <1>3. d * (y + 1) = d * y + d
    BY <1>1
  <1> QED
    BY <1>1, <1>2, <1>3

LEMMA DivNext ==
  ASSUME NEW a \in Nat, NEW d \in Nat \ {0}
  PROVE  (a + d) \div d = a \div d + 1
  OBVIOUS

LEMMA DivTimes ==
  ASSUME NEW a \in Nat, NEW d \in Nat \ {0}
  PROVE  (a * d) \div d = a
  OBVIOUS

LEMMA NextRunType == ASSUME NEW t \in Nat PROVE NextRun(t) \in Nat
  <1>1. Period \in Nat \ {0}
    BY ScheduleAssumption
  <1>2. t \div Period \in Nat
    BY <1>1
  <1>3. (t \div Period + 1) * Period \in Nat
    BY <1>1, <1>2
  <1> QED
    BY <1>1, <1>3 DEF NextRun

(* With either kind of schedule the next run is in the next slot.          *)
LEMMA NextRunSlot ==
  ASSUME NEW t \in Nat
  PROVE  NextRun(t) \div Period = t \div Period + 1 /\ NextRun(t) # 0
  <1>1. Period \in Nat \ {0} /\ Every \in BOOLEAN
    BY ScheduleAssumption
  <1>2. CASE Every
    <2>1. NextRun(t) = t + Period /\ t + Period # 0
      BY <1>1, <1>2 DEF NextRun
    <2>2. (t + Period) \div Period = t \div Period + 1
      BY <1>1, DivNext
    <2> QED
      BY <2>1, <2>2
  <1>3. CASE ~Every
    <2> DEFINE s == t \div Period + 1
    <2>1. s \in Nat /\ s >= 1
      BY <1>1, DivDef
    <2>2. NextRun(t) = s * Period
      BY <1>3 DEF NextRun
    <2> HIDE DEF s
    <2>3. (s * Period) \div Period = s
      BY <1>1, <2>1, DivTimes
    <2>4. s * Period # 0
      BY <1>1, <2>1
    <2> QED
      BY <2>2, <2>3, <2>4 DEF s
  <1> QED
    BY <1>2, <1>3

LEMMA WaitOK ==
  ASSUME NEW t \in Nat, now \in Nat
  PROVE  WaitUntil(t) \in Nat
  BY ScheduleAssumption DEF WaitUntil

-----------------------------------------------------------------------------
(* Histories and versions.                                                 *)

(* The newest m of at least one record.                                    *)
LEMMA NewestType ==
  ASSUME NEW R, NEW c \in Seq(R), Len(c) >= 1, NEW m \in Nat \ {0}
  PROVE  /\ Newest(c, m) \in Seq(R)
         /\ Len(Newest(c, m)) = IF Len(c) < m THEN Len(c) ELSE m
         /\ \A i \in 1 .. Len(Newest(c, m)) : Newest(c, m)[i] = c[i]
  <1> DEFINE n == IF Len(c) < m THEN Len(c) ELSE m
             g == Newest(c, m)
  <1>1. n \in Nat /\ 1 <= n /\ n <= Len(c)
    OBVIOUS
  <1>2. g = SubSeq(c, 1, n)
    BY DEF Newest
  <1> HIDE DEF n, g
  <1>3. \A i \in 1 .. n : c[i] \in R
    BY <1>1
  <1>4. g = [i \in 1 .. n |-> c[i]]
    BY <1>1, <1>2
  <1>5. g \in Seq(R) /\ Len(g) = n /\ \A i \in 1 .. n : g[i] = c[i]
    BY <1>1, <1>3, <1>4
  <1> QED
    BY <1>5 DEF g, n

(* A history with the record r in front, within its limit.                 *)
Recorded(h, r) == Newest(<<r>> \o h, MaxHistory)

LEMMA RecordedType ==
  ASSUME NEW R, NEW h \in Seq(R), NEW r \in R
  PROVE  /\ Recorded(h, r) \in Seq(R) /\ Len(h) \in Nat
         /\ Len(Recorded(h, r)) \in 1 .. MaxHistory
         /\ Len(h) + 1 <= MaxHistory => Len(Recorded(h, r)) = Len(h) + 1
         /\ MaxHistory <= Len(h) => Len(Recorded(h, r)) = MaxHistory
         /\ Recorded(h, r)[1] = r
         /\ \A i \in 2 .. Len(Recorded(h, r)) :
                i - 1 \in 1 .. Len(h) /\ Recorded(h, r)[i] = h[i - 1]
  <1> DEFINE c == <<r>> \o h
             g == Newest(c, MaxHistory)
  <1>1. /\ c \in Seq(R) /\ Len(c) = Len(h) + 1 /\ c[1] = r /\ Len(h) \in Nat
        /\ \A i \in 2 .. Len(c) : i - 1 \in 1 .. Len(h) /\ c[i] = h[i - 1]
    OBVIOUS
  <1>2. MaxHistory \in Nat \ {0}
    BY ScheduleAssumption
  <1>3. g = Recorded(h, r)
    BY DEF Recorded
  <1> HIDE DEF c
  <1>4. /\ g \in Seq(R) /\ Len(g) = IF Len(c) < MaxHistory THEN Len(c) ELSE MaxHistory
        /\ \A i \in 1 .. Len(g) : g[i] = c[i]
    BY <1>1, <1>2, NewestType
  <1> HIDE DEF g
  <1>5. Len(g) \in Nat /\ Len(g) >= 1 /\ Len(g) <= Len(c)
    BY <1>1, <1>2, <1>4
  <1>6. g[1] = r /\ \A i \in 2 .. Len(g) : i - 1 \in 1 .. Len(h) /\ g[i] = h[i - 1]
    BY <1>1, <1>4, <1>5
  <1> QED
    BY <1>1, <1>2, <1>3, <1>4, <1>5, <1>6

LEMMA WriteType ==
  ASSUME NEW S, versions \in Seq(S), NEW o \in S, Write(o)
  PROVE  /\ versions' \in Seq(S)
         /\ RV \in Nat /\ RV' = RV + 1
         /\ \A k \in 1 .. RV : versions'[k] = versions[k]
         /\ versions'[RV + 1] = o
         /\ Current' = o
  BY DEF Write, RV, Current

(* A write is the current version afterwards, whether it makes a new one   *)
(* or changes nothing.                                                     *)
LEMMA StoreCurrent ==
  ASSUME NEW S, versions \in Seq(S), RV >= 1, NEW o \in S, Store(o)
  PROVE  Current' = o
  <1>1. CASE UNCHANGED versions /\ o = Current
    BY <1>1 DEF Current, RV
  <1>2. CASE Write(o)
    BY <1>2, WriteType
  <1> QED
    BY <1>1, <1>2 DEF Store

-----------------------------------------------------------------------------
(* The accounts of mishaps.                                                *)

CountsTyped(p) ==
    /\ edits \in Nat /\ crashes \in Nat /\ faults \in Nat
    /\ tries[p] \in 0 .. MaxRetries - 1

LEMMA MetType ==
  ASSUME NEW p, CountsTyped(p)
  PROVE  Met(p) \in Nat /\ tries[p] <= Met(p) /\ Met(p) <= tries[p] + 1
         /\ Met(p) <= MaxRetries
  <1>1. MaxRetries \in Nat \ {0} /\ tries[p] \in 0 .. MaxRetries - 1
    BY ScheduleAssumption DEF CountsTyped
  <1> QED
    BY <1>1 DEF Met

(* The mishaps to spare are some of all mishaps.                           *)
LEMMA SpareType ==
  ASSUME NEW p, CountsTyped(p), Met(p) <= edits
  PROVE  Spare(p) \in Nat /\ Mishaps \in Nat /\ Spare(p) <= Mishaps
  <1> DEFINE m == Met(p)
             e == edits - m
  <1>1. m \in Nat /\ edits \in Nat /\ crashes \in Nat /\ faults \in Nat /\ m <= edits
    BY MetType DEF CountsTyped
  <1>2. Spare(p) = crashes + faults + e \div MaxRetries
    BY DEF Spare
  <1> HIDE DEF m
  <1>3. e \in Nat /\ e <= edits
    BY <1>1
  <1> HIDE DEF e
  <1>4. MaxRetries \in Nat \ {0}
    BY ScheduleAssumption
  <1>5. /\ e \div MaxRetries \in Nat /\ edits \div MaxRetries \in Nat
        /\ e \div MaxRetries <= edits \div MaxRetries
    BY <1>1, <1>3, <1>4, DivLe, DivDef
  <1> QED
    BY <1>1, <1>2, <1>5 DEF Mishaps

LEMMA SumGrows ==
  ASSUME NEW a \in Nat, NEW b \in Nat, NEW x \in Nat,
         NEW c \in Nat, NEW d \in Nat, NEW y \in Nat, a <= c, b <= d, x <= y
  PROVE  /\ a + b + x <= c + d + y /\ c + d + y \in Nat
         /\ a + b < c + d => a + b + x + 1 <= c + d + y
         /\ x + 1 <= y => a + b + x + 1 <= c + d + y
  OBVIOUS

(* A step that takes no edit away from those to spare keeps the count; one *)
(* more failure, or an update's worth of edits, adds one.                  *)
LEMMA SpareGrows ==
  ASSUME NEW p, CountsTyped(p), CountsTyped(p)', Met(p) <= edits,
         edits <= edits', crashes <= crashes', faults <= faults',
         edits - Met(p) <= edits' - Met(p)'
  PROVE  /\ Met(p)' <= edits' /\ Spare(p)' \in Nat /\ Mishaps' \in Nat
         /\ Spare(p)' <= Mishaps'
         /\ Spare(p) <= Spare(p)'
         /\ Mishaps <= Mishaps'
         /\ \/ crashes + faults < crashes' + faults'
            \/ edits - Met(p) + MaxRetries <= edits' - Met(p)'
            => Spare(p) + 1 <= Spare(p)'
  <1> DEFINE e == edits - Met(p)
             f == edits' - Met(p)'
  <1>1. /\ edits \in Nat /\ crashes \in Nat /\ faults \in Nat
        /\ edits' \in Nat /\ crashes' \in Nat /\ faults' \in Nat
    BY DEF CountsTyped
  <1>2. Met(p) \in Nat
    BY MetType
  <1>3. Met(p)' \in Nat
    <2>1. MaxRetries \in Nat \ {0} /\ tries'[p] \in 0 .. MaxRetries - 1
      BY ScheduleAssumption DEF CountsTyped
    <2> QED
      BY <2>1 DEF Met
  <1>4. e \in Nat /\ f \in Nat /\ e <= f /\ Met(p)' <= edits'
    BY <1>1, <1>2, <1>3
  <1>5. /\ Spare(p) = crashes + faults + e \div MaxRetries
        /\ Spare(p)' = crashes' + faults' + f \div MaxRetries
    BY DEF Spare
  <1> HIDE DEF e, f
  <1>6. MaxRetries \in Nat \ {0}
    BY ScheduleAssumption
  <1>7. /\ e \div MaxRetries \in Nat /\ f \div MaxRetries \in Nat
        /\ e \div MaxRetries <= f \div MaxRetries
    BY <1>4, <1>6, DivLe, DivDef
  <1>8. edits \div MaxRetries \in Nat /\ edits' \div MaxRetries \in Nat
        /\ edits \div MaxRetries <= edits' \div MaxRetries
    BY <1>1, <1>6, DivLe, DivDef
  <1>9. e + MaxRetries <= f => e \div MaxRetries + 1 <= f \div MaxRetries
    <2> SUFFICES ASSUME e + MaxRetries <= f
                 PROVE  e \div MaxRetries + 1 <= f \div MaxRetries
      OBVIOUS
    <2>1. (e + MaxRetries) \div MaxRetries <= f \div MaxRetries
      BY <1>4, <1>6, DivLe
    <2> QED
      BY <1>4, <1>6, <2>1, DivNext
  <1>10. Mishaps <= Mishaps' /\ Mishaps' \in Nat
    BY <1>1, <1>8 DEF Mishaps
  <1> DEFINE x == e \div MaxRetries
             y == f \div MaxRetries
  <1>11. /\ x \in Nat /\ y \in Nat /\ x <= y /\ (e + MaxRetries <= f => x + 1 <= y)
         /\ Spare(p) = crashes + faults + x /\ Spare(p)' = crashes' + faults' + y
    BY <1>5, <1>7, <1>9
  <1> HIDE DEF x, y
  <1>12. /\ crashes + faults + x <= crashes' + faults' + y
         /\ crashes' + faults' + y \in Nat
         /\ crashes + faults < crashes' + faults'
            => crashes + faults + x + 1 <= crashes' + faults' + y
         /\ x + 1 <= y => crashes + faults + x + 1 <= crashes' + faults' + y
    BY <1>1, <1>11, SumGrows
  <1>13. Spare(p)' \in Nat
    BY <1>11, <1>12
  <1>14. Spare(p)' <= Mishaps'
    <2>1. f <= edits' /\ f \in Nat /\ edits' \in Nat
      BY <1>1, <1>3, <1>4 DEF f
    <2>2. f \div MaxRetries <= edits' \div MaxRetries
      BY <1>6, <2>1, DivLe
    <2>3. /\ y <= edits' \div MaxRetries /\ y \in Nat /\ edits' \div MaxRetries \in Nat
          /\ Spare(p)' = crashes' + faults' + y
          /\ Mishaps' = crashes' + faults' + edits' \div MaxRetries
      BY <1>8, <1>11, <2>2 DEF y, Mishaps
    <2> QED
      BY <1>1, <2>3, SumGrows
  <1> QED
    BY <1>4, <1>10, <1>11, <1>12, <1>13, <1>14 DEF e, f

-----------------------------------------------------------------------------
(* What the shared actions do to the accounts of one process whose reads   *)
(* are current.                                                            *)

Typed(p, S, L) ==
    /\ versions \in Seq(S) /\ RV >= 1
    /\ pc \in [Procs -> L] /\ tries \in [Procs -> 0 .. MaxRetries - 1]
    /\ fresh \in [Procs -> 1 .. RV] /\ op = [q \in Procs |-> op[q]]
    /\ obj \in [Procs -> S] /\ start \in [Procs -> 0 .. now] /\ now \in Nat \ {0}
    /\ CountsTyped(p)

(* No edit is taken away from those to spare.                              *)
Charged(p) ==
    /\ edits <= edits' /\ crashes <= crashes' /\ faults <= faults'
    /\ edits - Met(p) <= edits' - Met(p)'

(* An update that begins, or a reconcile that ends, has met no edit.       *)
LEMMA MetNone ==
  ASSUME NEW p \in Procs, NEW S, NEW L, Typed(p, S, L),
         Leave(p) \/ \E o, u : Update(p, o, u)
  PROVE  Met(p)' = 0
  <1>1. pc'[p] \in {"idle", "get"} /\ tries'[p] = 0
    BY DEF Typed, Leave, Update, GoTo
  <1> QED
    BY <1>1 DEF Met, Behind, At

LEMMA CurrentReads ==
  ASSUME CacheLag = FALSE, NEW p
  PROVE  Seen(p) = RV /\ View(p) = Current
  BY DEF Seen, View, Current

LEMMA GetCharged ==
  ASSUME NEW p \in Procs, NEW S, NEW L, Typed(p, S, L), CacheLag = FALSE,
         GetOk(p) \/ PutConflict(p)
  PROVE  Charged(p)
  <1>1. tries[p] \in Nat /\ edits \in Nat /\ crashes \in Nat /\ faults \in Nat
    BY DEF Typed, CountsTyped
  <1>2. UNCHANGED <<edits, crashes, faults, versions>>
    BY DEF GetOk, PutConflict, boundVars
  <1>3. CASE GetOk(p)
    <2>1. pc[p] = "get" /\ fresh'[p] = RV /\ tries' = tries
      BY <1>3, CurrentReads DEF GetOk, At, Typed
    <2>2. RV' = RV
      BY <1>2 DEF RV
    <2>3. ~Behind(p) /\ ~Behind(p)'
      BY <2>1, <2>2 DEF Behind, At
    <2> QED
      BY <1>1, <1>2, <2>1, <2>3 DEF Charged, Met
  <1>4. CASE PutConflict(p)
    <2>1. Behind(p) /\ tries'[p] = tries[p] + 1 /\ pc'[p] = "get"
      BY <1>4 DEF PutConflict, Conflict, Behind, Typed, GoTo
    <2>2. ~Behind(p)'
      BY <2>1 DEF Behind, At
    <2> QED
      BY <1>1, <1>2, <2>1, <2>2 DEF Charged, Met
  <1> QED
    BY <1>3, <1>4

(* The time of the update that a reconcile begins, and what it holds.      *)
LEMMA ReconcileHand ==
  ASSUME NEW p \in Procs, NEW S, NEW L, Typed(p, S, L), CacheLag = FALSE,
         Reconcile(p), PlanOK \/ Current.gone,
         NEW o, o = [Current EXCEPT !.last = now],
         o.last = now, o.next = Current.next, o.hist = Current.hist,
         Current.next \in Nat
  PROVE  /\ UNCHANGED <<versions, edits, crashes, faults, now>>
         /\ Charged(p)
         /\ pc[p] = "idle"
         /\ \/ pc'[p] = "idle"
            \/ pc'[p] = "get" /\ op'[p] \in {"suspended", "invalid", "wait", "running"}
         /\ Current.gone \/ HandOK(p)'
  <1>1. /\ UNCHANGED <<versions, edits, crashes, faults, now>> /\ pc[p] = "idle"
        /\ Current' = Current
    BY DEF Reconcile, ReconcileGone, ReconcileSuspended, ReconcileInvalid, Scheduled,
           ReconcileWait, ReconcileRun, Begin, At, Current, RV
  <1>2. View(p) = Current
    BY CurrentReads
  <1>3. tries[p] \in Nat /\ edits \in Nat /\ crashes \in Nat /\ faults \in Nat
        /\ Period \in Nat \ {0}
    BY ScheduleAssumption DEF Typed, CountsTyped
  <1>4. Met(p) = tries[p]
    BY <1>1, <1>3 DEF Met, Behind, At
  <1>5. CASE UNCHANGED workerVars
    <2>1. UNCHANGED <<pc, tries>>
      BY <1>5 DEF workerVars
    <2>2. Met(p)' = tries[p]
      BY <1>1, <1>3, <2>1 DEF Met, Behind, At
    <2>3. Charged(p)
      BY <1>1, <1>3, <1>4, <2>2 DEF Charged
    <2>4. pc'[p] = "idle"
      BY <1>1, <2>1
    <2>5. HandOK(p)'
      BY <2>4 DEF HandOK, Updating
    <2> QED
      BY <1>1, <2>3, <2>4, <2>5
  <1>6. ASSUME NEW v, NEW u \in {"suspended", "invalid", "wait", "running"},
               Update(p, v, u)
        PROVE  /\ Charged(p) /\ pc'[p] = "get" /\ op'[p] = u /\ obj'[p] = v
    <2>1. Met(p)' = 0
      BY <1>6, MetNone
    <2>2. pc'[p] = "get" /\ op'[p] = u /\ obj'[p] = v
      BY <1>6 DEF Update, GoTo, Typed
    <2> QED
      BY <1>1, <1>3, <1>4, <2>1, <2>2 DEF Charged
  <1>7. CASE ReconcileSuspended(p) \/ ReconcileInvalid(p)
    <2>1. PICK u \in {"suspended", "invalid"} : Update(p, Current, u)
      BY <1>2, <1>7 DEF ReconcileSuspended, ReconcileInvalid
    <2>2. Charged(p) /\ pc'[p] = "get" /\ op'[p] = u /\ obj'[p] = Current
      BY <1>6, <2>1
    <2>3. HandOK(p)'
      BY <1>1, <2>2 DEF HandOK
    <2> QED
      BY <1>1, <2>2, <2>3
  <1>8. CASE ReconcileRun(p)
    <2>1. /\ Update(p, o, "running") /\ start'[p] = now
          /\ Current.last = 0 \/ (Current.next # 0 /\ now >= Current.next)
      BY <1>2, <1>8 DEF ReconcileRun, ShouldExecute, Typed
    <2>2. Charged(p) /\ pc'[p] = "get" /\ op'[p] = "running" /\ obj'[p] = o
      BY <1>6, <2>1
    <2>3. now # 0 /\ now \in Nat
      BY DEF Typed
    <2>4. HandOK(p)'
      BY <1>1, <2>1, <2>2, <2>3 DEF HandOK
    <2> QED
      BY <1>1, <2>2, <2>4
  <1>9. CASE ReconcileWait(p) /\ ~UNCHANGED workerVars
    <2>1. /\ Update(p, Current, "wait") /\ start'[p] = now
          /\ Current.last # 0
      BY <1>2, <1>9 DEF ReconcileWait, ShouldExecute, Typed
    <2>2. Charged(p) /\ pc'[p] = "get" /\ op'[p] = "wait" /\ obj'[p] = Current
      BY <1>6, <2>1
    <2>3. Current.gone \/ Current.next \div Period <= now \div Period + 1
      BY DEF PlanOK
    <2>4. Current.gone \/ HandOK(p)'
      BY <1>1, <2>1, <2>2, <2>3 DEF HandOK
    <2> QED
      BY <1>1, <2>2, <2>4
  <1> QED
    BY <1>5, <1>7, <1>8, <1>9 DEF Reconcile, ReconcileGone

(* Events, delays, time and a crash.                                       *)
LEMMA EnvironmentCharged ==
  ASSUME NEW p, Procs = {p}, NEW S, NEW L, Typed(p, S, L),
         Watch(p) \/ Timer(p) \/ Tick \/ Crash(p)
  PROVE  /\ UNCHANGED <<versions, edits, faults>> /\ now <= now'
         /\ Charged(p)
         /\ \/ UNCHANGED workerVars
            \/ Leave(p) /\ crashes' = crashes + 1
  <1>1. /\ tries[p] \in Nat /\ edits \in Nat /\ crashes \in Nat /\ faults \in Nat
        /\ now \in Nat /\ p \in Procs
    BY DEF Typed, CountsTyped
  <1>2. CASE Watch(p) \/ Timer(p) \/ Tick
    <2>1. UNCHANGED <<versions, workerVars, edits, crashes, faults>> /\ now <= now'
      BY <1>1, <1>2 DEF Watch, Timer, Tick, Deliver, TimerFire, kubeVars, clockVars,
                        boundVars
    <2>2. Met(p)' = Met(p)
      BY <2>1 DEF Met, Behind, At, Current, RV, workerVars
    <2>3. Met(p) \in Nat
      BY MetType DEF Typed
    <2> QED
      BY <1>1, <2>1, <2>2, <2>3 DEF Charged
  <1>3. CASE Crash(p)
    <2>1. UNCHANGED <<versions, now, edits, faults>> /\ Leave(p) /\ crashes' = crashes + 1
      BY <1>3 DEF Crash, Relist, clockVars
    <2>2. Met(p)' = 0
      BY <1>1, <2>1, MetNone
    <2>3. Met(p) \in Nat
      BY MetType DEF Typed
    <2> QED
      BY <1>1, <2>1, <2>2, <2>3 DEF Charged
  <1> QED
    BY <1>2, <1>3

(* An edit is met by at most one update.                                   *)
LEMMA EditCharged ==
  ASSUME NEW p \in Procs, NEW S, NEW L, Typed(p, S, L), UserEdit,
         NEW o \in S, Write(o)
  PROVE  Charged(p)
  <1>1. /\ tries[p] \in Nat /\ edits \in Nat /\ crashes \in Nat /\ faults \in Nat
        /\ fresh[p] \in 1 .. RV
    BY DEF Typed, CountsTyped
  <1>2. /\ edits' = edits + 1 /\ UNCHANGED <<pc, tries, fresh, crashes, faults>>
        /\ ~Current.gone
    BY DEF UserEdit, workerVars
  <1>3. RV' = RV + 1 /\ RV \in Nat
    BY WriteType DEF Typed
  <1>4. Behind(p) <=> (pc[p] = "put" /\ fresh[p] # RV)
    BY <1>2 DEF Behind, At
  <1>5. Behind(p)' => pc[p] = "put"
    BY <1>2 DEF Behind, At
  <1>6. Met(p)' <= Met(p) + 1 /\ Met(p)' \in Nat /\ Met(p) \in Nat
    BY <1>1, <1>2 DEF Met
  <1> QED
    BY <1>1, <1>2, <1>6 DEF Charged

(* The update in hand is lost to a failed call, or after MaxRetries        *)
(* edits: one mishap more.                                                 *)
LEMMA LostCharged ==
  ASSUME NEW p \in Procs, NEW S, NEW L, Typed(p, S, L), Met(p) <= edits,
         Leave(p) \/ \E o, u : Update(p, o, u),
         CountsTyped(p)', UNCHANGED <<edits, crashes>>,
         \/ faults' = faults + 1
         \/ Conflict(p) /\ ~RetriesLeft(p) /\ faults' = faults
  PROVE  Charged(p) /\ Spare(p) + 1 <= Spare(p)'
  <1>1. /\ tries[p] \in 0 .. MaxRetries - 1 /\ edits \in Nat /\ crashes \in Nat
        /\ faults \in Nat /\ MaxRetries \in Nat \ {0} /\ CountsTyped(p)
    BY ScheduleAssumption DEF Typed, CountsTyped
  <1>2. Met(p) \in Nat /\ Met(p)' = 0
    BY <1>1, MetNone, MetType
  <1>3. Charged(p) /\ faults <= faults'
    BY <1>1, <1>2 DEF Charged
  <1>4. \/ crashes + faults < crashes' + faults'
        \/ edits - Met(p) + MaxRetries <= edits' - Met(p)'
    <2>1. CASE faults' = faults + 1
      BY <1>1, <2>1
    <2>2. CASE Conflict(p) /\ ~RetriesLeft(p)
      <3>1. Behind(p)
        BY <2>2 DEF Conflict, Behind
      <3>2. Met(p) = MaxRetries
        BY <1>1, <2>2, <3>1 DEF Met, RetriesLeft
      <3> QED
        BY <1>1, <1>2, <3>2
    <2> QED
      BY <2>1, <2>2
  <1> QED
    BY <1>1, <1>3, <1>4, SpareGrows DEF Charged

(* Only a step of its own that begins a reconcile puts a process off its   *)
(* guard; a new version puts it on.                                        *)
LEMMA StoreAlerts ==
  ASSUME NEW p \in Procs, NEW S, versions \in Seq(S), cached \in [Procs -> 1 .. RV],
         NEW o \in S, Store(o), o # Current, UNCHANGED cached
  PROVE  Alert(p)'
  <1>1. Write(o) /\ RV \in Nat /\ cached[p] \in 1 .. RV
    BY DEF Store, RV
  <1>2. RV' = RV + 1
    BY <1>1, WriteType
  <1>3. cached'[p] < RV'
    BY <1>1, <1>2
  <1> QED
    BY <1>3 DEF Alert

LEMMA TimerAlerts ==
  ASSUME NEW p \in Procs, timer \in [Procs -> BOOLEAN], NEW t, RequeueAt(p, t)
  PROVE  Alert(p)'
  <1>1. timer'[p]
    BY DEF RequeueAt, Requeue
  <1> QED
    BY <1>1 DEF Alert

(* What alerts the process is not lost while it works.                     *)
LEMMA AlertKept ==
  ASSUME NEW p \in Procs, timer \in [Procs -> BOOLEAN], NEW S, versions \in Seq(S),
         cached \in [Procs -> 1 .. RV], NEW o \in S, UNCHANGED versions \/ (Store(o) /\ ~Current.gone),
         UNCHANGED <<cached, dirty>>,
         NoRequeue \/ \E t : RequeueAt(p, t), Alert(p)
  PROVE  Alert(p)'
  <1>1. timer[p] => timer'[p]
    BY DEF NoRequeue, RequeueAt, Requeue
  <1>2. cached[p] < RV => cached'[p] < RV'
    <2>1. CASE UNCHANGED versions
      BY <2>1 DEF RV
    <2>2. CASE Write(o)
      <3>1. RV' = RV + 1 /\ RV \in Nat /\ cached[p] \in 1 .. RV
        BY <2>2, WriteType
      <3> QED
        BY <3>1
    <2> QED
      BY <2>1, <2>2 DEF Store
  <1>3. Current.gone => Current'.gone
    BY DEF Current, RV
  <1> QED
    BY <1>1, <1>2, <1>3 DEF Alert
=============================================================================
