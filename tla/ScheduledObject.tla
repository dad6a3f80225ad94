-------------------------- MODULE ScheduledObject ---------------------------
(***************************************************************************)
(* What handleScheduledGitCommit (src/controllers/gitcommit_controller.go) *)
(* and handleScheduledPullRequest                                          *)
(* (src/controllers/pullrequest_controller.go) have in common: the clock   *)
(* and the schedule, the way a status update is repeated, the requeue, and *)
(* what users, crashes and the API server do meanwhile.  The components    *)
(* EXTEND this module with the fields of their status and the calls of one *)
(* execution.                                                              *)
(*                                                                         *)
(* Times are counted in the seconds of metav1.Time, scaled down; 0 stands  *)
(* for a nil time.                                                         *)
(***************************************************************************)
EXTENDS KubeObject

CONSTANTS
    Period,         \* the schedule runs every Period
    Every,          \* FALSE: a cron line, on multiples of Period;
                    \* TRUE: "@every", Period after the time asked about
    MinWait,        \* the shortest requeue while waiting: a minute
    MaxRetries,     \* attempts of a status update: 3 in the code
    MaxHistory,     \* spec.maxExecutionHistory: 10 unless it is set
    Specs,          \* the specs the user may apply: [suspend, valid]
    MayDelete,      \* the user may delete the object
    MaxTime,        \* bound: the clock stops here
    MaxEdits,       \* bound: edits by the user
    MaxCrashes,     \* bound: restarts of a manager process
    MaxFaults,      \* bound: failed calls to the API server
    MaxStale        \* bound: reconciles that begin on an outdated cache

ASSUME ScheduleAssumption ==
    /\ Period \in Nat \ {0}
    /\ Every \in BOOLEAN
    /\ MinWait \in Nat \ {0}
    /\ MaxRetries \in Nat \ {0}
    /\ MaxHistory \in Nat \ {0}
    /\ Specs \subseteq [suspend: BOOLEAN, valid: BOOLEAN]
    /\ MayDelete \in BOOLEAN
    /\ MaxTime \in Nat \ {0}
    /\ MaxEdits \in Nat
    /\ MaxCrashes \in Nat
    /\ MaxFaults \in Nat
    /\ MaxStale \in Nat

VARIABLES
    now,        \* the clock
    due,        \* due[p]: when the delayed add of the key ends
    pc,         \* pc[p]: the call that p's worker is about to make
    obj,        \* obj[p]: the resource the reconcile works on
    start,      \* start[p]: "now" of the reconcile
    fresh,      \* fresh[p]: resourceVersion the update has just read
    op,         \* op[p]: the status update p is doing
    tries,      \* tries[p]: conflicts it has met
    edits, crashes, faults, stale   \* what the bounds count

workerVars == <<pc, obj, start, fresh, op, tries>>
boundVars == <<edits, crashes, faults, stale>>
clockVars == <<now, due>>

-----------------------------------------------------------------------------
(* Mutant of NextRun: a fixed delay in place of the cron line.             *)
NextRunFromNow(t) == t + Period

(* schedule.Next: strictly after t.                                        *)
NextRun(t) == IF Every THEN t + Period ELSE (t \div Period + 1) * Period

(* The first n records of a history.                                       *)
Newest(h, n) == SubSeq(h, 1, IF Len(h) < n THEN Len(h) ELSE n)

(* Time to run: always when nothing ever ran, else from the published time *)
(* on.                                                                     *)
ShouldExecute(o) == o.last = 0 \/ (o.next # 0 /\ now >= o.next)

ScheduleInit ==
    /\ now = 1
    /\ due = [p \in Procs |-> 0]
    /\ pc = [p \in Procs |-> "idle"]
    /\ obj = [p \in Procs |-> versions[1]]
    /\ start = [p \in Procs |-> 0]
    /\ fresh = [p \in Procs |-> 1]
    /\ op = [p \in Procs |-> "wait"]
    /\ tries = [p \in Procs |-> 0]
    /\ edits = 0 /\ crashes = 0 /\ faults = 0 /\ stale = 0

At(p, l) == pc[p] = l
GoTo(p, l) == pc' = [pc EXCEPT ![p] = l]

(* The reconcile ends, or its process dies: the locals are dead.           *)
Leave(p) ==
    /\ GoTo(p, "idle")
    /\ obj' = [obj EXCEPT ![p] = versions[1]]
    /\ start' = [start EXCEPT ![p] = 0]
    /\ fresh' = [fresh EXCEPT ![p] = 1]
    /\ op' = [op EXCEPT ![p] = "wait"]
    /\ tries' = [tries EXCEPT ![p] = 0]

(* Requeue at time t; of two delayed adds of one key the earlier counts.   *)
RequeueAt(p, t) ==
    /\ Requeue(p, TRUE)
    /\ due' = [due EXCEPT ![p] = IF timer[p] /\ due[p] < t THEN due[p] ELSE t]

NoRequeue == UNCHANGED <<timer, due>>

(* An error is returned: the key comes back after a short back-off.        *)
ReturnError(p) == Leave(p) /\ RequeueAt(p, now)

(* RequeueAfter: waitDuration, the time to the next run but at least       *)
(* MinWait.                                                                *)
WaitUntil(t) == IF t < now + MinWait THEN now + MinWait ELSE t

(* RequeueAfter: time.Until(nextTime).  A result that is not positive      *)
(* does not requeue.                                                       *)
RequeueIfAhead(p, t) == IF t > now THEN RequeueAt(p, t) ELSE NoRequeue

-----------------------------------------------------------------------------
(* Reconcile reads the object and takes the scheduled path.                *)

Begin(p) ==
    /\ At(p, "idle") /\ dirty[p] /\ TakeKey(p)
    /\ Seen(p) = RV \/ stale < MaxStale
    /\ stale' = IF Seen(p) = RV THEN stale ELSE stale + 1
    /\ UNCHANGED <<versions, cached, now, edits, crashes, faults>>

ReconcileGone(p) ==
    /\ Begin(p)
    /\ View(p).gone
    /\ NoRequeue /\ UNCHANGED workerVars

(* Begin a status update on object o.                                      *)
Update(p, o, u) ==
    /\ GoTo(p, "get")
    /\ obj' = [obj EXCEPT ![p] = o]
    /\ op' = [op EXCEPT ![p] = u]
    /\ tries' = [tries EXCEPT ![p] = 0]
    /\ UNCHANGED fresh

(* The suspend flag is looked at first, then the schedule is parsed.       *)
ReconcileSuspended(p) ==
    /\ Begin(p) /\ ~View(p).gone
    /\ View(p).suspend
    /\ Update(p, View(p), "suspended")
    /\ NoRequeue /\ UNCHANGED start

ReconcileInvalid(p) ==
    /\ Begin(p) /\ ~View(p).gone
    /\ ~View(p).suspend /\ ~View(p).valid
    /\ Update(p, View(p), "invalid")
    /\ NoRequeue /\ UNCHANGED start

Scheduled(p) == Begin(p) /\ ~View(p).gone /\ ~View(p).suspend /\ View(p).valid

(* Mutant of ReconcileWait: nothing to publish, nothing to wait for.       *)
ReconcileWaitForgets(p) ==
    /\ Scheduled(p)
    /\ ~ShouldExecute(View(p))
    /\ IF View(p).next # NextRun(now)
       THEN /\ Update(p, View(p), "wait")
            /\ start' = [start EXCEPT ![p] = now]
       ELSE UNCHANGED workerVars
    /\ NoRequeue

(* Not yet: publish the next time if it differs, and wait.                 *)
ReconcileWait(p) ==
    /\ Scheduled(p)
    /\ ~ShouldExecute(View(p))
    /\ IF View(p).next # NextRun(now)
       THEN /\ Update(p, View(p), "wait")
            /\ start' = [start EXCEPT ![p] = now]
            /\ NoRequeue
       ELSE RequeueAt(p, WaitUntil(NextRun(now))) /\ UNCHANGED workerVars

(* Mutant of ReconcileRun: times are counted from the next run on.         *)
ReconcileRunFromNext(p) ==
    /\ Scheduled(p)
    /\ ShouldExecute(View(p))
    /\ Update(p, [View(p) EXCEPT !.last = now], "running")
    /\ start' = [start EXCEPT ![p] = NextRun(now)]
    /\ NoRequeue

(* The execution starts with the Running update.                           *)
ReconcileRun(p) ==
    /\ Scheduled(p)
    /\ ShouldExecute(View(p))
    /\ Update(p, [View(p) EXCEPT !.last = now], "running")
    /\ start' = [start EXCEPT ![p] = now]
    /\ NoRequeue

Reconcile(p) ==
    \/ ReconcileGone(p) \/ ReconcileSuspended(p) \/ ReconcileInvalid(p)
    \/ ReconcileWait(p) \/ ReconcileRun(p)

-----------------------------------------------------------------------------
(* A status update: up to MaxRetries times, Get from the cache and         *)
(* Status().Update.  What it writes and where the reconcile goes on is for *)
(* the components to say.                                                  *)

GetOk(p) ==
    /\ At(p, "get")
    /\ ~View(p).gone
    /\ GoTo(p, "put")
    /\ fresh' = [fresh EXCEPT ![p] = Seen(p)]
    /\ NoRequeue
    /\ UNCHANGED <<versions, cached, dirty, now, obj, start, op, tries, boundVars>>

(* The API server stores o; an update that changes nothing makes no new    *)
(* version.                                                                *)
Store(o) == IF o = Current THEN UNCHANGED versions ELSE Write(o)

Accepted(p) == fresh[p] = RV /\ ~Current.gone

Conflict(p) == At(p, "put") /\ fresh[p] # RV /\ ~Current.gone

(* Mutants of RetriesLeft: one attempt too many, a single attempt.         *)
RetriesLeftLate(p) == tries[p] < MaxRetries

RetriesLeftNone(p) == FALSE

RetriesLeft(p) == tries[p] + 1 < MaxRetries

PutConflict(p) ==
    /\ Conflict(p) /\ RetriesLeft(p)
    /\ GoTo(p, "get")
    /\ tries' = [tries EXCEPT ![p] = @ + 1]
    /\ NoRequeue
    /\ UNCHANGED <<versions, cached, dirty, now, obj, start, fresh, op, boundVars>>

(* The update fails for good without a call that fails: the object is      *)
(* gone, or every attempt met a conflict.                                  *)
Exhausted(p) ==
    /\ \/ At(p, "get") /\ View(p).gone
       \/ At(p, "put") /\ Current.gone
       \/ Conflict(p) /\ ~RetriesLeft(p)
    /\ UNCHANGED <<versions, cached, dirty, now, boundVars>>

(* A call fails otherwise, before or after the server has applied it.      *)
Fault == faults < MaxFaults /\ faults' = faults + 1

-----------------------------------------------------------------------------
(* The environment.                                                        *)

Watch(p) == Deliver(p) /\ UNCHANGED <<clockVars, workerVars, boundVars>>

Timer(p) ==
    /\ now >= due[p]
    /\ TimerFire(p)
    /\ UNCHANGED <<clockVars, workerVars, boundVars>>

Tick ==
    /\ now < MaxTime
    /\ now' = now + 1
    /\ UNCHANGED <<kubeVars, due, workerVars, boundVars>>

Crash(p) ==
    /\ crashes < MaxCrashes
    /\ crashes' = crashes + 1
    /\ Relist(p)
    /\ Leave(p)
    /\ UNCHANGED <<clockVars, edits, faults, stale>>

UserEdit ==
    /\ ~Current.gone
    /\ edits < MaxEdits
    /\ edits' = edits + 1
    /\ \E s \in Specs :
          Write([Current EXCEPT !.suspend = s.suspend, !.valid = s.valid])
    /\ UNCHANGED <<cached, dirty, timer, clockVars, workerVars, crashes, faults,
                   stale>>

UserDelete ==
    /\ MayDelete
    /\ ~Current.gone
    /\ Write([Current EXCEPT !.gone = TRUE])
    /\ UNCHANGED <<cached, dirty, timer, clockVars, workerVars, boundVars>>

-----------------------------------------------------------------------------
(* What may go wrong with a status update of one process whose reads are   *)
(* current: a crash, a failed call, or an edit in each of its attempts.    *)
Mishaps == crashes + faults + edits \div MaxRetries

(* Nobody will look at the resource again.                                 *)
Asleep(p) ==
    /\ At(p, "idle") /\ ~dirty[p] /\ ~timer[p] /\ cached[p] = RV
    /\ ~Current.gone

(* An execution started at time t or later, or the user suspended, broke   *)
(* or deleted the resource.                                                *)
Served(t) ==
    Current.last >= t \/ Current.suspend \/ ~Current.valid \/ Current.gone
-----------------------------------------------------------------------------
(* The accounts of one process whose reads are current, from which the     *)
(* components build their inductive invariants.                            *)

(* Another write came between the Get and the Update of p.                 *)
Behind(p) == At(p, "put") /\ fresh[p] # RV /\ ~Current.gone

(* The edits that the update in hand has met; Spare(p) are the mishaps     *)
(* without them.                                                           *)
Met(p) == tries[p] + (IF Behind(p) THEN 1 ELSE 0)

Spare(p) == crashes + faults + (edits - Met(p)) \div MaxRetries

(* A resource that never ran has no next time, and a next time is at most  *)
(* one Period ahead.                                                       *)
PlanOK ==
    /\ Current.last = 0 => Current.next = 0
    /\ Current.next \div Period <= now \div Period + 1

Updating(p) == pc[p] \in {"get", "put"}

(* What a status update will write agrees with what is stored; a run       *)
(* begins when its time has come, a wait does not take a time back.        *)
HandOK(p) ==
    /\ Updating(p) /\ op[p] \in {"suspended", "invalid", "running"} =>
          obj[p].next = Current.next /\ obj[p].hist = Current.hist
    /\ Updating(p) /\ op[p] \in {"suspended", "invalid"} => obj[p].last = Current.last
    /\ Updating(p) /\ op[p] = "running" =>
          /\ obj[p].last = start[p] /\ start[p] # 0
          /\ Current.last = 0 \/ (Current.next # 0 /\ Current.next <= start[p])
    /\ Updating(p) /\ op[p] = "wait" =>
          /\ Current.last # 0
          /\ Current.next \div Period <= start[p] \div Period + 1

(* The times on the schedule up to the next one, the immediate run instead *)
(* of them when there is none.                                             *)
Slots == IF Current.next = 0 THEN 1 ELSE Current.next \div Period
=============================================================================
