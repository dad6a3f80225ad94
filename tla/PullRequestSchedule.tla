------------------------ MODULE PullRequestSchedule -------------------------
(***************************************************************************)
(* The scheduled path of PullRequestReconciler (handleScheduledPullRequest,*)
(* recordPRExecution, updateScheduleStatus and updateNextScheduledTime) in *)
(* src/controllers/pullrequest_controller.go.  Unlike GitCommit, it writes *)
(* the record first and the next time second, whatever the outcome, and    *)
(* looks at the error of neither.                                          *)
(*                                                                         *)
(* The k-th pull request that GitHub opens is the number k.                *)
(***************************************************************************)
EXTENDS ScheduledObject

CONSTANTS
    HasRest,        \* the spec has REST APIs
    MaxCloses       \* bound: pull requests that the user closes

ASSUME PullRequestScheduleAssumption ==
    /\ HasRest \in BOOLEAN
    /\ MaxCloses \in Nat

VARIABLES
    ahead,      \* the head branch has a commit that the base branch has not
    prs,        \* pull requests opened
    prOpen,     \* the last of them is still open
    runs,       \* executions begun: accepted Running updates
    closes      \* what the bound counts

worldVars == <<ahead, prs, prOpen, runs, closes>>
vars == <<kubeVars, clockVars, workerVars, worldVars, boundVars>>

-----------------------------------------------------------------------------
Phases == {"", "Pending", "Running", "Created", "Failed"}

(* The status updates, by what the code does after them.                   *)
StatusOps == {"suspended", "invalid", "running"}    \* updateScheduleStatus
RecordOps == {"recordCreated", "recordFailed", "recordPending"}
NextOps == {"wait", "nextCreated", "nextOther"}     \* updateNextScheduledTime
Ops == StatusOps \cup RecordOps \cup NextOps

PhaseOf(o) ==
    CASE o \in {"suspended", "recordPending"} -> "Pending"
      [] o \in {"invalid", "recordFailed"} -> "Failed"
      [] o = "running" -> "Running"
      [] o = "recordCreated" -> "Created"

PCs == {"idle", "get", "put", "rest", "auth", "push", "open"}

(* hist is ExecutionHistory, newest first; sync is LastSync.  The statuses *)
(* of the REST APIs are not read back and are left out.                    *)
Records == [number: Nat, phase: Phases]

NewObject(s) ==
    [suspend |-> s.suspend, valid |-> s.valid, gone |-> FALSE, phase |-> "",
     number |-> 0, sync |-> 0, last |-> 0, next |-> 0, hist |-> <<>>]

(* updateScheduleStatus: what the original has replaces what the fresh     *)
(* copy has.                                                               *)
MergeStatus(f, o, ph) ==
    [f EXCEPT !.phase = ph, !.sync = now,
              !.last = IF o.last # 0 THEN o.last ELSE @,
              !.next = IF o.next # 0 THEN o.next ELSE @,
              !.hist = IF Len(o.hist) > 0 THEN o.hist ELSE @]

(* Mutant of MergeRecord: an execution that opens nothing is recorded with *)
(* the number of the last one.                                             *)
MergeRecordOldNumber(f, o, ph, n) ==
    LET number == IF n = 0 THEN f.number ELSE n IN
    [f EXCEPT !.phase = ph, !.sync = now, !.number = number, !.last = o.last,
              !.hist = Newest(<<[number |-> number, phase |-> ph]>> \o @, MaxHistory)]

(* recordPRExecution: a record in front of the history of the fresh copy.  *)
(* The number is replaced, by 0 if no pull request was opened.             *)
MergeRecord(f, o, ph, n) ==
    [f EXCEPT !.phase = ph, !.sync = now, !.number = n, !.last = o.last,
              !.hist = Newest(<<[number |-> n, phase |-> ph]>> \o @, MaxHistory)]

(* The number that createPullRequest has returned is kept in obj[p] until  *)
(* it is recorded.                                                         *)
Merge(p, f) ==
    CASE op[p] \in StatusOps -> MergeStatus(f, obj[p], PhaseOf(op[p]))
      [] op[p] \in NextOps   -> [f EXCEPT !.next = NextRun(start[p])]
      [] op[p] = "recordCreated" -> MergeRecord(f, obj[p], "Created", obj[p].number)
      [] op[p] \in {"recordFailed", "recordPending"} ->
            MergeRecord(f, obj[p], PhaseOf(op[p]), 0)

-----------------------------------------------------------------------------
Init ==
    /\ \E s \in Specs : KubeInit(NewObject(s))
    /\ ScheduleInit
    /\ ahead \in BOOLEAN
    /\ prs = 0 /\ prOpen = FALSE
    /\ runs = 0 /\ closes = 0

(* The end of an execution: after a pull request waitDuration is at least  *)
(* a minute, otherwise RequeueAfter is the time until the next run.        *)
EndExecution(p) ==
    /\ Leave(p)
    /\ IF op[p] = "nextCreated"
       THEN RequeueAt(p, WaitUntil(NextRun(start[p])))
       ELSE RequeueIfAhead(p, NextRun(start[p]))

NextOpAfter(o) == IF o = "recordCreated" THEN "nextCreated" ELSE "nextOther"

(* Mutant of PublishNext: the next time is not published.                  *)
PublishNextForgotten(p, o) ==
    Leave(p) /\ RequeueAt(p, WaitUntil(NextRun(start[p])))

(* The record is stored or lost: the next time is published.               *)
PublishNext(p, o) ==
    Update(p, o, NextOpAfter(op[p])) /\ NoRequeue /\ UNCHANGED start

(* Mutant of UpdateFailed: no error is looked at.                          *)
UpdateDropped(p) == Leave(p) /\ NoRequeue

(* The errors of recordPRExecution, and of updateNextScheduledTime after   *)
(* it, are not looked at.                                                  *)
UpdateFailed(p) ==
    CASE op[p] \in RecordOps -> PublishNext(p, obj[p])
      [] op[p] \in {"nextCreated", "nextOther"} -> EndExecution(p)
      [] op[p] \in StatusOps \cup {"wait"} -> ReturnError(p)

(* The update has stored o.                                                *)
UpdateDone(p, o) ==
    CASE op[p] = "running" ->
            /\ GoTo(p, "rest") /\ obj' = [obj EXCEPT ![p] = o]
            /\ NoRequeue /\ UNCHANGED <<start, fresh, op, tries>>
      [] op[p] \in RecordOps -> PublishNext(p, o)
      [] op[p] \in {"nextCreated", "nextOther"} -> EndExecution(p)
      [] op[p] = "wait" -> Leave(p) /\ RequeueAt(p, WaitUntil(NextRun(start[p])))
      [] op[p] = "suspended" -> Leave(p) /\ RequeueAt(p, now + MinWait)
      [] op[p] = "invalid" -> ReturnError(p)

-----------------------------------------------------------------------------
(* The calls of a status update.                                           *)

Written(p) == Merge(p, versions[fresh[p]])

CountRun(p) == runs' = IF op[p] = "running" THEN runs + 1 ELSE runs

RemoteKept == UNCHANGED <<ahead, prs, prOpen, closes>>

PutOk(p) ==
    /\ At(p, "put")
    /\ Accepted(p)
    /\ Store(Written(p))
    /\ UpdateDone(p, Written(p))
    /\ CountRun(p)
    /\ RemoteKept
    /\ UNCHANGED <<cached, dirty, now, boundVars>>

PutFailed(p) == Exhausted(p) /\ UpdateFailed(p) /\ UNCHANGED worldVars

PutFault(p) ==
    /\ At(p, "put")
    /\ Fault
    /\ \/ UNCHANGED <<versions, runs>>
       \/ Accepted(p) /\ Store(Written(p)) /\ CountRun(p)
    /\ UpdateFailed(p)
    /\ RemoteKept
    /\ UNCHANGED <<cached, dirty, now, edits, crashes, stale>>

-----------------------------------------------------------------------------
(* The execution.                                                          *)

Working(p) == UNCHANGED <<kubeVars, clockVars, start, runs, closes, boundVars>>

Move(p, l) == GoTo(p, l) /\ UNCHANGED <<obj, fresh, op, tries>>

(* checkRestAPIConditions: met, or there are none; not met; an error.      *)
Rest(p) ==
    /\ At(p, "rest")
    /\ \/ Move(p, "auth")
       \/ HasRest /\ \E u \in {"recordPending", "recordFailed"} : Update(p, obj[p], u)
    /\ Working(p) /\ UNCHANGED <<ahead, prs, prOpen>>

Auth(p) ==
    /\ At(p, "auth")
    /\ Move(p, "push") \/ Update(p, obj[p], "recordFailed")
    /\ Working(p) /\ UNCHANGED <<ahead, prs, prOpen>>

(* createPullRequest, up to the push.  One that is refused as not          *)
(* fast-forward is taken for success, whether the head branch has other    *)
(* commits or the default branch has moved since the clone.                *)
Push(p) ==
    /\ At(p, "push")
    /\ ahead' \in {ahead, TRUE}
    /\ Move(p, "open")
    /\ Working(p) /\ UNCHANGED <<prs, prOpen>>

(* A file, a resource, a recipient, the clone or the push fails, the last  *)
(* after the remote has taken it or before.                                *)
PushFailed(p) ==
    /\ At(p, "push")
    /\ ahead' \in {ahead, TRUE}
    /\ Update(p, obj[p], "recordFailed")
    /\ Working(p) /\ UNCHANGED <<prs, prOpen>>

(* GitHub opens a pull request if none is open for the head branch.        *)
GitHubOpens ==
    /\ ahead /\ ~prOpen
    /\ prOpen' = TRUE
    /\ prs' = prs + 1

Opened(p) ==
    /\ At(p, "open")
    /\ GitHubOpens
    /\ Update(p, [obj[p] EXCEPT !.number = prs + 1], "recordCreated")
    /\ Working(p) /\ UNCHANGED ahead

OpenFailed(p) ==
    /\ At(p, "open")
    /\ Update(p, obj[p], "recordFailed")
    /\ Working(p) /\ UNCHANGED <<ahead, prs, prOpen>>

(* GitHub opens the pull request but the answer is lost.                   *)
OpenLost(p) ==
    /\ At(p, "open")
    /\ Fault
    /\ GitHubOpens
    /\ Update(p, obj[p], "recordFailed")
    /\ UNCHANGED <<kubeVars, clockVars, start, ahead, runs, closes, edits, crashes,
                   stale>>

-----------------------------------------------------------------------------
(* The user merges or closes the pull request; the head branch may stay    *)
(* ahead of the base branch.                                               *)
UserCloses ==
    /\ prOpen /\ prOpen' = FALSE
    /\ closes < MaxCloses /\ closes' = closes + 1
    /\ ahead' \in BOOLEAN
    /\ UNCHANGED <<kubeVars, clockVars, workerVars, boundVars, prs, runs>>

WorldKept == UNCHANGED worldVars

Step(p) ==
    \/ (Reconcile(p) \/ GetOk(p) \/ PutConflict(p)) /\ WorldKept
    \/ PutOk(p) \/ PutFailed(p)
    \/ Rest(p) \/ Auth(p) \/ Push(p) \/ PushFailed(p) \/ Opened(p) \/ OpenFailed(p)

Delivered(p) == Watch(p) /\ WorldKept
Elapsed(p) == Timer(p) /\ WorldKept
Ticked == Tick /\ WorldKept

Environment ==
    \/ \E p \in Procs : PutFault(p) \/ OpenLost(p)
    \/ ((\E p \in Procs : Crash(p)) \/ UserEdit \/ UserDelete) /\ WorldKept
    \/ UserCloses

Next ==
    \/ \E p \in Procs : Step(p) \/ Delivered(p) \/ Elapsed(p)
    \/ Ticked
    \/ Environment

Spec == Init /\ [][Next]_vars

-----------------------------------------------------------------------------
Objects ==
    [suspend: BOOLEAN, valid: BOOLEAN, gone: BOOLEAN, phase: Phases, number: Nat,
     sync: Nat, last: Nat, next: Nat, hist: Seq(Records)]

(* Every variable has a value that the program can give it.                *)
TypeOK ==
    /\ versions \in Seq(Objects) /\ RV >= 1
    /\ cached \in [Procs -> 1 .. RV]
    /\ dirty \in [Procs -> BOOLEAN]
    /\ timer \in [Procs -> BOOLEAN]
    /\ now \in 1 .. MaxTime
    /\ due \in [Procs -> Nat]
    /\ pc \in [Procs -> PCs]
    /\ obj \in [Procs -> Objects]
    /\ start \in [Procs -> 0 .. now]
    /\ fresh \in [Procs -> 1 .. RV]
    /\ op \in [Procs -> Ops]
    /\ tries \in [Procs -> 0 .. MaxRetries - 1]
    /\ ahead \in BOOLEAN /\ prs \in Nat /\ prOpen \in BOOLEAN
    /\ runs \in Nat /\ closes \in 0 .. MaxCloses
    /\ edits \in 0 .. MaxEdits /\ crashes \in 0 .. MaxCrashes
    /\ faults \in 0 .. MaxFaults /\ stale \in 0 .. MaxStale

(* The history tells the truth, newest first, within its limit: a record   *)
(* has a number exactly when it is Created, the number is that of a pull   *)
(* request, and an older record names an older one.                        *)
HistoryIsHonest ==
    \A k \in 1 .. RV : LET h == versions[k].hist IN
        /\ Len(h) <= MaxHistory
        /\ \A i \in DOMAIN h :
              /\ h[i].number <= prs
              /\ (h[i].phase = "Created") <=> (h[i].number > 0)
        /\ \A i, j \in DOMAIN h :
              i < j /\ h[i].number > 0 => h[j].number < h[i].number

(* The pull request that is open is the user's to find: between reconciles *)
(* the history names it as long as it holds every execution, although      *)
(* later ones, which GitHub refuses, replace the number in the status;     *)
(* only a mishap loses it, since the error of recordPRExecution is not     *)
(* looked at.                                                              *)
OpenIsRecorded ==
    /\ \A p \in Procs : At(p, "idle")
    /\ prOpen /\ ~Current.gone
    /\ runs <= MaxHistory /\ Mishaps = 0
    => \E i \in DOMAIN Current.hist : Current.hist[i].number = prs

(* The schedule is an upper bound: one immediate run, one for each time on *)
(* the cron line that has come, and one more for each mishap: a next time  *)
(* that was not published leaves the slot open.                            *)
RunsAccounted == runs <= 1 + now \div Period + Mishaps

(* No lost wake-up, although both writes at the end of an execution may    *)
(* fail unnoticed and a result that is not positive requeues nothing.      *)
NeverAsleep == \A p \in Procs : Asleep(p) => crashes + faults >= 2

-----------------------------------------------------------------------------
(* The inductive invariant: a history is sound wherever it is, in the      *)
(* store or in a worker's hands, and a worker that records a pull request  *)
(* holds its number.                                                       *)
HistoryOK(h, n) ==
    /\ Len(h) <= MaxHistory
    /\ \A i \in DOMAIN h :
          /\ h[i].number <= n
          /\ (h[i].phase = "Created") <=> (h[i].number > 0)

StoreOK ==
    /\ versions \in Seq(Objects) /\ RV >= 1
    /\ cached \in [Procs -> 1 .. RV]
    /\ fresh \in [Procs -> 1 .. RV]
    /\ \A k \in 1 .. RV : HistoryOK(versions[k].hist, prs)

Recording(p) == op[p] = "recordCreated"

LocalsOK ==
    /\ pc \in [Procs -> PCs]
    /\ obj \in [Procs -> Objects]
    /\ op \in [Procs -> Ops]
    /\ tries \in [Procs -> 0 .. MaxRetries - 1]
    /\ \A p \in Procs : HistoryOK(obj[p].hist, prs)
    /\ \A p \in Procs : Recording(p) => obj[p].number \in 1 .. prs

ClockOK ==
    /\ now \in 1 .. MaxTime
    /\ due \in [Procs -> Nat]
    /\ start \in [Procs -> 0 .. now]
    /\ dirty \in [Procs -> BOOLEAN]
    /\ timer \in [Procs -> BOOLEAN]

CountersOK ==
    /\ ahead \in BOOLEAN /\ prs \in Nat /\ prOpen \in BOOLEAN
    /\ runs \in Nat /\ closes \in 0 .. MaxCloses
    /\ edits \in 0 .. MaxEdits /\ crashes \in 0 .. MaxCrashes
    /\ faults \in 0 .. MaxFaults /\ stale \in 0 .. MaxStale

IInv == StoreOK /\ LocalsOK /\ ClockOK /\ CountersOK

(* With one process: histories are ordered, and the number that is to be   *)
(* recorded is newer than every one that is recorded.                      *)
Ordered(h) ==
    \A i, j \in DOMAIN h : i < j /\ h[i].number > 0 => h[j].number < h[i].number

Newer(h, n) == \A i \in DOMAIN h : h[i].number < n

OrderOK ==
    /\ \A k \in 1 .. RV : Ordered(versions[k].hist)
    /\ \A p \in Procs :
          /\ Ordered(obj[p].hist)
          /\ Recording(p) =>
                \A k \in 1 .. RV : Newer(versions[k].hist, obj[p].number)

(* With one process whose reads are current: a run is counted against the  *)
(* slot it fills as soon as the next time is published, and has a record   *)
(* at most once; until then it is open.  The last pull request is recorded *)
(* or about to be.                                                         *)
Unrecorded(p) ==
    \/ pc[p] \in {"rest", "auth", "push", "open"}
    \/ Updating(p) /\ op[p] \in RecordOps

Executing(p) ==
    Unrecorded(p) \/ (Updating(p) /\ op[p] \in {"nextCreated", "nextOther"})

OpenRun(b) == IF b THEN 1 ELSE 0

ExecutionOK(p) ==
    Executing(p) => obj[p].last # 0 /\ Current.last # 0 /\ Current.next <= start[p]

RunsOK(p) ==
    /\ Current.last = 0 => runs = 0
    /\ ~Executing(p) => runs <= Slots + Spare(p)
    /\ Executing(p) => runs <= Current.next \div Period + 1 + Spare(p)

InHand(p) == Updating(p) /\ op[p] = "recordCreated" /\ obj[p].number = prs

Named(h, n) == \E i \in DOMAIN h : h[i].number = n

RecordsOK(p) ==
    /\ Len(Current.hist) + OpenRun(Unrecorded(p)) <= runs
    /\ prs = 0 => ~prOpen
    /\ runs <= MaxHistory /\ Mishaps = 0 /\ prs > 0 =>
          InHand(p) \/ Named(Current.hist, prs)

AccountOK ==
    \A p \in Procs :
        /\ Met(p) <= edits
        /\ RunsAccounted
        /\ Current.gone \/ (PlanOK /\ HandOK(p) /\ ExecutionOK(p) /\ RunsOK(p)
                              /\ RecordsOK(p))

(* For any number of processes, however old their caches: a resource that  *)
(* ever ran is never taken for one that did not, and only one that ran has *)
(* a next time.                                                            *)
HoldsOK(p) ==
    /\ Updating(p) /\ op[p] \in {"suspended", "invalid"} =>
          (obj[p].last = 0 => obj[p].next = 0)
    /\ (Updating(p) /\ op[p] = "running") \/ Unrecorded(p) => obj[p].last # 0
    /\ Executing(p) \/ (Updating(p) /\ op[p] = "wait") => Current.last # 0

PublishOK ==
    /\ \A k \in 1 .. RV :
          /\ versions[k].last = 0 => versions[k].next = 0
          /\ versions[k].last # 0 => Current.last # 0
    /\ \A p \in Procs : HoldsOK(p)

(* While nothing is under way that wakes a process, the resource is as it  *)
(* has read it; both writes that end a run are then events, so two failed  *)
(* calls take them.                                                        *)
QuietOK(p) ==
    ~Alert(p) =>
        /\ At(p, "put") => fresh[p] = RV
        /\ Executing(p) \/ (Updating(p) /\ op[p] = "running") => Current.next <= start[p]
        /\ Unrecorded(p) => Current.phase = "Running"
        /\ Updating(p) /\ op[p] \in {"nextCreated", "nextOther"} => crashes + faults >= 1
        /\ At(p, "idle") => crashes + faults >= 2

AwakeOK == \A p \in Procs : QuietOK(p)
=============================================================================
