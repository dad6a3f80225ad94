------------------------- MODULE GitCommitSchedule --------------------------
(***************************************************************************)
(* The scheduled path of GitCommitReconciler (handleScheduledGitCommit and *)
(* the three functions that publish its status, recordExecution,           *)
(* updateScheduleStatus and updateNextScheduledTime) in                    *)
(* src/controllers/gitcommit_controller.go.                                *)
(*                                                                         *)
(* Times are counted in the seconds of metav1.Time, scaled down; 0 stands  *)
(* for a nil time.  As in GitCommit, push k is the number k.               *)
(***************************************************************************)
EXTENDS ScheduledObject

CONSTANTS
    HasApi,         \* the spec has a REST API
    MaxCalls,       \* circuit breaker: 10 in the code
    CallsBefore     \* CallCount of a resource that was not scheduled before

ASSUME CommitScheduleAssumption ==
    /\ HasApi \in BOOLEAN
    /\ MaxCalls \in Nat \ {0}
    /\ CallsBefore \subseteq Nat

VARIABLES
    pushes,     \* commits on the remote
    apiCalls,   \* HTTP requests made
    runs        \* executions begun: accepted Running updates

worldVars == <<pushes, apiCalls, runs>>
vars == <<kubeVars, clockVars, workerVars, worldVars, boundVars>>

-----------------------------------------------------------------------------
Phases == {"", "Pending", "Running", "Committed", "Failed"}

(* The status updates, by what the code does after them.                   *)
StatusOps == {"suspended", "invalid", "running"}    \* updateScheduleStatus
NextOps == {"wait", "advance"}                      \* updateNextScheduledTime
RecordOps == {"recordCommitted", "recordFailed", "recordPending"}
Ops == StatusOps \cup NextOps \cup RecordOps

PhaseOf(o) ==
    CASE o \in {"suspended", "recordPending"} -> "Pending"
      [] o \in {"invalid", "recordFailed"} -> "Failed"
      [] o = "running" -> "Running"
      [] o = "recordCommitted" -> "Committed"

PCs == {"idle", "get", "put", "gate", "rest", "auth", "git"}

(* hist is ExecutionHistory, newest first; sync is LastSync.               *)
Records == [sha: Nat, phase: Phases]

NewObject(s, c) ==
    [suspend |-> s.suspend, valid |-> s.valid, gone |-> FALSE, phase |-> "",
     sha |-> 0, sync |-> 0, last |-> 0, next |-> 0, hist |-> <<>>, calls |-> c]

(* updateScheduleStatus: what the original has replaces what the fresh     *)
(* copy has.                                                               *)
MergeStatus(f, o, ph) ==
    [f EXCEPT !.phase = ph, !.sync = now,
              !.last  = IF o.last # 0 THEN o.last ELSE @,
              !.next  = IF o.next # 0 THEN o.next ELSE @,
              !.calls = IF o.calls > 0 THEN o.calls ELSE @,
              !.hist  = IF Len(o.hist) > 0 THEN o.hist ELSE @]

(* Mutants of MergeRecord: the next time is not written; the cut takes the *)
(* newest record; every record gets the last CommitSHA.                    *)
MergeRecordKeepsNext(f, o, ph, next) ==
    LET sha == IF ph = "Committed" THEN o.sha ELSE 0 IN
    [f EXCEPT !.phase = ph, !.sync = now, !.sha = sha, !.last = o.last,
              !.hist = Newest(<<[sha |-> sha, phase |-> ph]>> \o @, MaxHistory)]

MergeRecordCutsNewest(f, o, ph, next) ==
    LET sha == IF ph = "Committed" THEN o.sha ELSE 0
        h == <<[sha |-> sha, phase |-> ph]>> \o f.hist
    IN  [f EXCEPT !.phase = ph, !.sync = now, !.sha = sha, !.last = o.last,
                  !.next = IF next # 0 THEN next ELSE @,
                  !.hist = IF Len(h) > MaxHistory THEN Tail(h) ELSE h]

MergeRecordOldSha(f, o, ph, next) ==
    [f EXCEPT !.phase = ph, !.sync = now, !.sha = o.sha, !.last = o.last,
              !.next = IF next # 0 THEN next ELSE @,
              !.hist = Newest(<<[sha |-> o.sha, phase |-> ph]>> \o @, MaxHistory)]

(* recordExecution: a record in front of the history of the fresh copy;    *)
(* the REST statuses of the original are not copied.                       *)
MergeRecord(f, o, ph, next) ==
    LET sha == IF ph = "Committed" THEN o.sha ELSE 0 IN
    [f EXCEPT !.phase = ph, !.sync = now, !.sha = sha, !.last = o.last,
              !.next = IF next # 0 THEN next ELSE @,
              !.hist = Newest(<<[sha |-> sha, phase |-> ph]>> \o @, MaxHistory)]

(* What p's update writes over the copy f that it has read.  The success   *)
(* path has published the next time before the record.                     *)
Merge(p, f) ==
    CASE op[p] \in StatusOps -> MergeStatus(f, obj[p], PhaseOf(op[p]))
      [] op[p] \in NextOps   -> [f EXCEPT !.next = NextRun(start[p])]
      [] op[p] = "recordCommitted" ->
            MergeRecord(f, obj[p], "Committed", 0)
      [] op[p] \in {"recordFailed", "recordPending"} ->
            MergeRecord(f, obj[p], PhaseOf(op[p]), NextRun(start[p]))

-----------------------------------------------------------------------------
Init ==
    /\ \E s \in Specs, c \in CallsBefore : KubeInit(NewObject(s, c))
    /\ ScheduleInit
    /\ pushes = 0 /\ apiCalls = 0 /\ runs = 0

(* Mutant of UpdateFailed: the error is logged, not returned.              *)
UpdateDropped(p) == Leave(p) /\ NoRequeue

(* The update has failed for good.  The records of executions that did not *)
(* commit are written without a look at the error.                         *)
UpdateFailed(p) ==
    IF op[p] \in {"recordFailed", "recordPending"}
    THEN Leave(p) /\ RequeueIfAhead(p, NextRun(start[p]))
    ELSE ReturnError(p)

(* The update has stored o.                                                *)
UpdateDone(p, o) ==
    CASE op[p] = "running" ->
            /\ GoTo(p, "gate") /\ obj' = [obj EXCEPT ![p] = o]
            /\ NoRequeue /\ UNCHANGED <<start, fresh, op, tries>>
      [] op[p] = "advance" ->
            /\ Update(p, [obj[p] EXCEPT !.next = o.next], "recordCommitted")
            /\ NoRequeue /\ UNCHANGED start
      [] op[p] = "suspended" -> Leave(p) /\ RequeueAt(p, now + MinWait)
      [] op[p] = "invalid" -> ReturnError(p)
      [] op[p] \in {"wait", "recordCommitted"} ->
            Leave(p) /\ RequeueAt(p, WaitUntil(NextRun(start[p])))
      [] op[p] \in {"recordFailed", "recordPending"} ->
            Leave(p) /\ RequeueIfAhead(p, NextRun(start[p]))

-----------------------------------------------------------------------------
(* The calls of a status update.                                           *)

Written(p) == Merge(p, versions[fresh[p]])

CountRun(p) == runs' = IF op[p] = "running" THEN runs + 1 ELSE runs

PutOk(p) ==
    /\ At(p, "put")
    /\ Accepted(p)
    /\ Store(Written(p))
    /\ UpdateDone(p, Written(p))
    /\ CountRun(p)
    /\ UNCHANGED <<cached, dirty, now, pushes, apiCalls, boundVars>>

PutFailed(p) == Exhausted(p) /\ UpdateFailed(p) /\ UNCHANGED worldVars

PutFault(p) ==
    /\ At(p, "put")
    /\ Fault
    /\ \/ UNCHANGED <<versions, runs>>
       \/ Accepted(p) /\ Store(Written(p)) /\ CountRun(p)
    /\ UpdateFailed(p)
    /\ UNCHANGED <<cached, dirty, now, pushes, apiCalls, edits, crashes, stale>>

-----------------------------------------------------------------------------
(* The execution.                                                          *)

Working(p) ==
    UNCHANGED <<kubeVars, now, due, start, runs, boundVars>>

Move(p, l) == GoTo(p, l) /\ UNCHANGED <<obj, fresh, op, tries>>

Gate(p) ==
    /\ At(p, "gate")
    /\ IF ~HasApi THEN Move(p, "auth")
       ELSE IF obj[p].calls >= MaxCalls THEN Update(p, obj[p], "recordFailed")
       ELSE Move(p, "rest")
    /\ Working(p) /\ UNCHANGED <<pushes, apiCalls>>

Counted(p) == [obj[p] EXCEPT !.calls = @ + 1]

(* checkRestAPIConditions with one API: met, not met, an error after the   *)
(* request, an error before it.                                            *)
Rest(p) ==
    /\ At(p, "rest")
    /\ \/ /\ apiCalls' = apiCalls + 1
          /\ \/ /\ GoTo(p, "auth") /\ obj' = [obj EXCEPT ![p] = Counted(p)]
                /\ UNCHANGED <<fresh, op, tries>>
             \/ Update(p, Counted(p), "recordPending")
             \/ Update(p, Counted(p), "recordFailed")
       \/ Update(p, obj[p], "recordFailed") /\ UNCHANGED apiCalls
    /\ Working(p) /\ UNCHANGED pushes

Auth(p) ==
    /\ At(p, "auth")
    /\ Move(p, "git") \/ Update(p, obj[p], "recordFailed")
    /\ Working(p) /\ UNCHANGED <<pushes, apiCalls>>

(* performGitCommit.  After a push the next time is published first, the   *)
(* record second; sha is the commitSHA that is handed to recordExecution.  *)
GitPushed(p) ==
    /\ At(p, "git")
    /\ pushes' = pushes + 1
    /\ Update(p, [obj[p] EXCEPT !.sha = pushes + 1], "advance")
    /\ Working(p) /\ UNCHANGED apiCalls

GitFailed(p) ==
    /\ At(p, "git")
    /\ pushes' \in {pushes, pushes + 1}
    /\ Update(p, obj[p], "recordFailed")
    /\ Working(p) /\ UNCHANGED apiCalls

-----------------------------------------------------------------------------
WorldKept == UNCHANGED worldVars

Step(p) ==
    \/ (Reconcile(p) \/ GetOk(p) \/ PutConflict(p)) /\ WorldKept
    \/ PutOk(p) \/ PutFailed(p)
    \/ Gate(p) \/ Rest(p) \/ Auth(p) \/ GitPushed(p) \/ GitFailed(p)

Delivered(p) == Watch(p) /\ WorldKept
Elapsed(p) == Timer(p) /\ WorldKept
Ticked == Tick /\ WorldKept

Environment ==
    \/ \E p \in Procs : PutFault(p)
    \/ ((\E p \in Procs : Crash(p)) \/ UserEdit \/ UserDelete) /\ WorldKept

Next ==
    \/ \E p \in Procs : Step(p) \/ Delivered(p) \/ Elapsed(p)
    \/ Ticked
    \/ Environment

Spec == Init /\ [][Next]_vars

(* Workers, watch events and delays go on, and so does time.               *)
Fairness ==
    /\ \A p \in Procs :
          WF_vars(Step(p)) /\ WF_vars(Delivered(p)) /\ WF_vars(Elapsed(p))
    /\ WF_vars(Ticked)

FairSpec == Spec /\ Fairness

-----------------------------------------------------------------------------
Objects ==
    [suspend: BOOLEAN, valid: BOOLEAN, gone: BOOLEAN, phase: Phases, sha: Nat,
     sync: Nat, last: Nat, next: Nat, hist: Seq(Records), calls: Nat]

(* Every variable has a value that the program can give it.                *)
TypeOK ==
    /\ versions \in Seq(Objects) /\ RV >= 1
    /\ cached \in [Procs -> 1 .. RV]
    /\ dirty \in [Procs -> BOOLEAN]
    /\ timer \in [Procs -> BOOLEAN]
    /\ now \in 1 .. MaxTime
    /\ due \in [Procs -> Nat]
    /\ pc \in [Procs -> PCs]
    /\ obj \in [Procs -> Objects]
    /\ start \in [Procs -> 0 .. now]
    /\ fresh \in [Procs -> 1 .. RV]
    /\ op \in [Procs -> Ops]
    /\ tries \in [Procs -> 0 .. MaxRetries - 1]
    /\ pushes \in Nat /\ apiCalls \in Nat /\ runs \in Nat
    /\ edits \in 0 .. MaxEdits /\ crashes \in 0 .. MaxCrashes
    /\ faults \in 0 .. MaxFaults /\ stale \in 0 .. MaxStale

(* The history tells the truth, newest first, within its limit: a record   *)
(* is Committed exactly when it has a CommitSHA, that commit is on the     *)
(* remote, and an older record never names a newer commit.                 *)
HistoryIsHonest ==
    \A k \in 1 .. RV : LET h == versions[k].hist IN
        /\ Len(h) <= MaxHistory
        /\ \A i \in DOMAIN h :
              /\ h[i].sha <= pushes
              /\ (h[i].phase = "Committed") <=> (h[i].sha > 0)
        /\ \A i, j \in DOMAIN h :
              i < j /\ h[i].sha > 0 => h[j].sha < h[i].sha

(* The schedule is an upper bound: one immediate run, one for each time on *)
(* the cron line that has come, and one more for each mishap.              *)
RunsAccounted == runs <= 1 + now \div Period + Mishaps

(* Between reconciles, a run that is not in the history fell to a mishap   *)
(* (or the history is full, or the resource deleted).                      *)
RunsRecorded ==
    (\A p \in Procs : At(p, "idle")) =>
        \/ runs <= Len(Current.hist) + Mishaps
        \/ Len(Current.hist) = MaxHistory
        \/ Current.gone

(* "ExecutionHistory keeps track of the last N executions": a write keeps  *)
(* the history, or puts one record in front of it and drops the oldest     *)
(* beyond the limit; a write that reports a commit has its record in front.*)
(* So it is where reads are current; on a lagging cache                    *)
(* updateScheduleStatus writes an outdated history over the fresh one.     *)
HistoryKept ==
    [][LET h == Current.hist
           new == versions'[Len(versions')]
           g == new.hist
       IN  /\ g = h \/ (g # <<>> /\ Tail(g) = Newest(h, MaxHistory - 1))
           /\ new.phase = "Committed" /\ Current.phase # "Committed" =>
                 g # <<>> /\ g[1].sha = new.sha]_vars

(* What is left of it for any caches and any number of processes: a record *)
(* is lost to nothing but a status update, and then the history goes back  *)
(* to what an earlier version of the resource had.  recordExecution loses  *)
(* none, and nothing makes a record up.                                    *)
LossIsStale ==
    [][LET h == Current.hist
           g == versions'[Len(versions')].hist
       IN  \/ g = h
           \/ g # <<>> /\ Tail(g) = Newest(h, MaxHistory - 1)
           \/ \E p \in Procs, k \in 1 .. RV :
                 At(p, "put") /\ op[p] \in StatusOps /\ g = versions[k].hist]_vars

(* "NextScheduledTime is when the resource will be executed next": a time  *)
(* that is published is not replaced before it has come.                   *)
NextTimeKept ==
    [][LET next == versions'[Len(versions')].next
       IN  Current.next # 0 /\ next # Current.next => Current.next <= now]_vars

(* No lost wake-up: while the resource lives, every process will look at   *)
(* it again, although an execution that did not commit and ended after the *)
(* next time requeues nothing: the event of its Running update does, unless*)
(* a first mishap made that update a repetition within one second, which   *)
(* is no event, and a second one loses the record.                         *)
NeverAsleep == \A p \in Procs : Asleep(p) => Mishaps >= 2

(* A published time that comes is served: an execution starts at it or     *)
(* later, unless the user suspends, breaks or deletes the resource.  The   *)
(* clock stops at MaxTime, so the times of the last Period are left out.   *)
TimesAreServed ==
    \A t \in 2 .. MaxTime - Period : (Current.next = t) ~> Served(t)

-----------------------------------------------------------------------------
(* The inductive invariant: a history is sound wherever it is, in the      *)
(* store or in a worker's hands, and a worker that records a commit holds  *)
(* its CommitSHA.                                                          *)
HistoryOK(h, n) ==
    /\ Len(h) <= MaxHistory
    /\ \A i \in DOMAIN h :
          /\ h[i].sha <= n
          /\ (h[i].phase = "Committed") <=> (h[i].sha > 0)

StoreOK ==
    /\ versions \in Seq(Objects) /\ RV >= 1
    /\ cached \in [Procs -> 1 .. RV]
    /\ fresh \in [Procs -> 1 .. RV]
    /\ \A k \in 1 .. RV : HistoryOK(versions[k].hist, pushes)

Recording(p) == op[p] \in {"advance", "recordCommitted"}

LocalsOK ==
    /\ pc \in [Procs -> PCs]
    /\ obj \in [Procs -> Objects]
    /\ op \in [Procs -> Ops]
    /\ tries \in [Procs -> 0 .. MaxRetries - 1]
    /\ \A p \in Procs : HistoryOK(obj[p].hist, pushes)
    /\ \A p \in Procs : Recording(p) => obj[p].sha \in 1 .. pushes

ClockOK ==
    /\ now \in 1 .. MaxTime
    /\ due \in [Procs -> Nat]
    /\ start \in [Procs -> 0 .. now]
    /\ dirty \in [Procs -> BOOLEAN]
    /\ timer \in [Procs -> BOOLEAN]

CountersOK ==
    /\ pushes \in Nat /\ apiCalls \in Nat /\ runs \in Nat
    /\ edits \in 0 .. MaxEdits /\ crashes \in 0 .. MaxCrashes
    /\ faults \in 0 .. MaxFaults /\ stale \in 0 .. MaxStale

IInv == StoreOK /\ LocalsOK /\ ClockOK /\ CountersOK

(* The history that a status update has in hand is one the resource had.   *)
HandsKnown ==
    \A p \in Procs : pc[p] \in {"get", "put"} /\ op[p] \in StatusOps =>
        \E k \in 1 .. RV : obj[p].hist = versions[k].hist

(* With one process: histories are ordered, and the CommitSHA that is to   *)
(* be recorded is newer than every one that is recorded.                   *)
Ordered(h) ==
    \A i, j \in DOMAIN h : i < j /\ h[i].sha > 0 => h[j].sha < h[i].sha

Newer(h, n) == \A i \in DOMAIN h : h[i].sha < n

OrderOK ==
    /\ \A k \in 1 .. RV : Ordered(versions[k].hist)
    /\ \A p \in Procs :
          /\ Ordered(obj[p].hist)
          /\ Recording(p) => \A k \in 1 .. RV : Newer(versions[k].hist, obj[p].sha)

(* With one process whose reads are current: a run is counted against the  *)
(* slot it fills as soon as the next time is published, and against its    *)
(* record as soon as that is stored; until then it is open.                *)
Executing(p) ==
    \/ pc[p] \in {"gate", "rest", "auth", "git"}
    \/ Updating(p) /\ op[p] \in {"advance", "recordFailed", "recordPending"}

Unrecorded(p) == Executing(p) \/ (Updating(p) /\ op[p] = "recordCommitted")

OpenRun(b) == IF b THEN 1 ELSE 0

ExecutionOK(p) ==
    /\ Unrecorded(p) => obj[p].last # 0 /\ Current.last # 0
    /\ Executing(p) => Current.next <= start[p]

RunsOK(p) ==
    /\ Current.last = 0 => runs = 0
    /\ ~Executing(p) => runs <= Slots + Spare(p)
    /\ Executing(p) => runs <= Current.next \div Period + 1 + Spare(p)

RecordsOK(p) ==
    \/ Len(Current.hist) = MaxHistory
    \/ runs <= Len(Current.hist) + OpenRun(Unrecorded(p)) + Spare(p)

AccountOK ==
    \A p \in Procs :
        /\ Met(p) <= edits
        /\ RunsAccounted
        /\ Current.gone \/ (PlanOK /\ HandOK(p) /\ ExecutionOK(p) /\ RunsOK(p)
                              /\ RecordsOK(p))

(* The phase says Running without a run that goes on only after a mishap.  *)
(* A run begins with an event, or repeats one that a mishap has ended; so  *)
(* it takes a second mishap to fall asleep.                                *)
AwakeOK ==
    \A p \in Procs :
        /\ ~Unrecorded(p) /\ Current.phase = "Running" =>
              Current.gone \/ Spare(p) >= 1
        /\ Unrecorded(p) => Alert(p) \/ (Current.phase = "Running" /\ Spare(p) >= 1)
        /\ At(p, "idle") => Alert(p) \/ Mishaps >= 2

(* On a cron line: a time that is published is on the line, so the wait    *)
(* for it does not publish another.                                        *)
OnLine(t) == t = (t \div Period) * Period

LineOK ==
    \A p \in Procs :
        \/ Current.gone
        \/ /\ OnLine(Current.next)
           /\ Updating(p) /\ op[p] = "wait" => Current.next = 0
=============================================================================
