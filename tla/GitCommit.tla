----------------------------- MODULE GitCommit ------------------------------
(***************************************************************************)
(* The one-shot path of GitCommitReconciler.Reconcile                      *)
(* (src/controllers/gitcommit_controller.go): TTL check, Running update,   *)
(* REST API conditions with their circuit breaker, authentication, clone + *)
(* commit + push, and the status update that records the outcome.          *)
(*                                                                         *)
(* One action is one step between two calls that leave the process.  The   *)
(* contents of the commit are abstract: the k-th push to the remote is     *)
(* the number k, and a status that carries CommitSHA = k says that push k  *)
(* was made (0: no CommitSHA).                                             *)
(***************************************************************************)
EXTENDS KubeObject

CONSTANTS
    MaxCalls,       \* circuit breaker: 10 in the code
    MaxRetries,     \* attempts of updateStatus: 3 in the code
    ApiCounts,      \* the numbers of REST APIs the spec may list
    HasTTL,         \* the spec sets ttlMinutes
    MayDelete,      \* the user may delete the object
    MaxEdits,       \* bound: edits of the spec by the user
    MaxCrashes,     \* bound: restarts of a manager process
    MaxFaults,      \* bound: failed calls to the API server
    MaxStale        \* bound: reconciles that begin on an outdated cache

ASSUME GitCommitAssumption ==
    /\ MaxCalls \in Nat \ {0}
    /\ MaxRetries \in Nat \ {0}
    /\ ApiCounts \subseteq Nat
    /\ HasTTL \in BOOLEAN
    /\ MayDelete \in BOOLEAN
    /\ MaxEdits \in Nat
    /\ MaxCrashes \in Nat
    /\ MaxFaults \in Nat
    /\ MaxStale \in Nat

VARIABLES
    pc,         \* pc[p]: the call that p's worker is about to make
    obj,        \* obj[p]: the *GitCommit the reconcile works on
    fresh,      \* fresh[p]: resourceVersion updateStatus has just read
    want,       \* want[p]: the phase updateStatus is writing
    tries,      \* tries[p]: conflicts this updateStatus has met
    api,        \* api[p]: the REST API that is called next
    allMet,     \* allMet[p]: allConditionsMet of checkRestAPIConditions
    expired,    \* now is past creationTimestamp + ttlMinutes
    pushes,     \* commits this resource has put on the remote
    apiCalls,   \* HTTP requests made for the REST APIs
    edits, crashes, faults, stale   \* what the bounds count

workerVars == <<pc, obj, fresh, want, tries, api, allMet>>
boundVars == <<edits, crashes, faults, stale>>
worldVars == <<expired, pushes, apiCalls>>
vars == <<kubeVars, workerVars, worldVars, boundVars>>

-----------------------------------------------------------------------------
Phases == {"", "Pending", "Running", "Committed", "Failed"}

(* What updateStatus is asked to write.  "Tripped" is the Failed of the    *)
(* circuit breaker, after which the reconcile does not requeue.            *)
Wants == {"Running", "Pending", "Committed", "Failed", "Tripped"}

PhaseOf(w) == IF w = "Tripped" THEN "Failed" ELSE w

PCs == {"idle", "delete", "get", "put", "gate", "rest", "auth", "git"}

(* calls is CallCount per entry of RestAPIStatuses, <<>> when it is nil.   *)
Objects == [gone: BOOLEAN, apis: Nat, phase: Phases, sha: Nat, calls: Seq(Nat)]

NewObject(n) ==
    [gone |-> FALSE, apis |-> n, phase |-> "", sha |-> 0, calls |-> <<>>]

(* Mutant of IsSettled: a Failed resource is tried again.                  *)
CommittedOnly(o) == o.phase = "Committed"

IsSettled(o) == o.phase \in {"Committed", "Failed"}

(* The circuit breaker of Reconcile: some API has used up its calls.       *)
Tripped(calls) == \E i \in DOMAIN calls : calls[i] >= MaxCalls

(* checkRestAPIConditions makes a zeroed status entry per API unless the   *)
(* slice already has the right length.                                     *)
StatusSlots(o) ==
    IF Len(o.calls) = o.apis THEN o.calls ELSE [i \in 1 .. o.apis |-> 0]

(* Mutants of Merge: REST statuses are not copied, or their counters are   *)
(* added up; CommitSHA is copied even when the original has none.          *)
MergeDropsStatuses(f, o, w) ==
    [f EXCEPT !.phase = PhaseOf(w), !.sha = IF o.sha # 0 THEN o.sha ELSE @]

MergeAddsCalls(f, o, w) ==
    [f EXCEPT !.phase = PhaseOf(w),
              !.calls = IF Len(f.calls) = Len(o.calls)
                        THEN [i \in DOMAIN o.calls |-> f.calls[i] + o.calls[i]]
                        ELSE o.calls,
              !.sha   = IF o.sha # 0 THEN o.sha ELSE @]

MergeErasesSha(f, o, w) ==
    [f EXCEPT !.phase = PhaseOf(w),
              !.calls = IF Len(o.calls) > 0 THEN o.calls ELSE @,
              !.sha   = o.sha]

(* updateStatus on the fresh copy: the phase is set whatever it was, REST  *)
(* statuses and CommitSHA are copied over only when the original has them. *)
Merge(f, o, w) ==
    [f EXCEPT !.phase = PhaseOf(w),
              !.calls = IF Len(o.calls) > 0 THEN o.calls ELSE @,
              !.sha   = IF o.sha # 0 THEN o.sha ELSE @]

-----------------------------------------------------------------------------
Init ==
    /\ \E n \in ApiCounts : KubeInit(NewObject(n))
    /\ pc = [p \in Procs |-> "idle"]
    /\ obj = [p \in Procs |-> versions[1]]
    /\ fresh = [p \in Procs |-> 1]
    /\ want = [p \in Procs |-> "Running"]
    /\ tries = [p \in Procs |-> 0]
    /\ api = [p \in Procs |-> 1]
    /\ allMet = [p \in Procs |-> TRUE]
    /\ expired = FALSE
    /\ pushes = 0
    /\ apiCalls = 0
    /\ edits = 0 /\ crashes = 0 /\ faults = 0 /\ stale = 0

At(p, l) == pc[p] = l
GoTo(p, l) == pc' = [pc EXCEPT ![p] = l]

(* The reconcile ends, or its process dies: the locals are dead, set them  *)
(* to a fixed value.                                                       *)
Leave(p) ==
    /\ GoTo(p, "idle")
    /\ obj' = [obj EXCEPT ![p] = versions[1]]
    /\ fresh' = [fresh EXCEPT ![p] = 1]
    /\ want' = [want EXCEPT ![p] = "Running"]
    /\ tries' = [tries EXCEPT ![p] = 0]
    /\ api' = [api EXCEPT ![p] = 1]
    /\ allMet' = [allMet EXCEPT ![p] = TRUE]

Return(p, again) == Leave(p) /\ Requeue(p, again)

(* Call updateStatus with object o and phase w.                            *)
UpdateStatus(p, o, w) ==
    /\ GoTo(p, "get")
    /\ obj' = [obj EXCEPT ![p] = o]
    /\ want' = [want EXCEPT ![p] = w]
    /\ tries' = [tries EXCEPT ![p] = 0]
    /\ UNCHANGED <<fresh, api, allMet>>

(* Mutant of UpdateFailed: a lost Running update is not requeued.          *)
RunningLost(p) == Return(p, want[p] \in {"Committed", "Failed", "Pending"})

(* updateStatus has returned an error.  A reconcile that was writing       *)
(* Running or Committed returns it, the others ignore it; only the circuit *)
(* breaker does not requeue.                                               *)
UpdateFailed(p) == Return(p, want[p] # "Tripped")

(* updateStatus has returned nil, with the written object in obj.          *)
UpdateDone(p, o) ==
    IF want[p] = "Running"
    THEN /\ GoTo(p, "gate")
         /\ obj' = [obj EXCEPT ![p] = o]
         /\ UNCHANGED <<fresh, want, tries, api, allMet, timer>>
    ELSE Return(p, want[p] \in {"Failed", "Pending"})

-----------------------------------------------------------------------------
(* Reconcile reads the object.                                             *)

Begin(p) == At(p, "idle") /\ dirty[p] /\ TakeKey(p)

(* NotFound: nothing to do.                                                *)
ReconcileGone(p) ==
    /\ Begin(p)
    /\ View(p).gone
    /\ UNCHANGED <<versions, cached, timer, workerVars, worldVars, boundVars>>

(* checkTTLExpired: the next call is Delete.                               *)
ReconcileExpired(p) ==
    /\ Begin(p)
    /\ ~View(p).gone
    /\ expired
    /\ GoTo(p, "delete")
    /\ UNCHANGED <<versions, cached, timer, obj, fresh, want, tries, api,
                   allMet, worldVars, boundVars>>

(* Mutant of ReconcileSettled: no requeue for the TTL.                     *)
SettledForgotten(p) ==
    /\ Begin(p)
    /\ ~View(p).gone /\ ~expired
    /\ IsSettled(View(p))
    /\ UNCHANGED <<versions, cached, timer, workerVars, worldVars, boundVars>>

(* Committed and Failed resources are only looked at again for the TTL.    *)
ReconcileSettled(p) ==
    /\ Begin(p)
    /\ ~View(p).gone /\ ~expired
    /\ IsSettled(View(p))
    /\ Requeue(p, TRUE)
    /\ UNCHANGED <<versions, cached, workerVars, worldVars, boundVars>>

(* Work begins, on a cache that may be outdated.                           *)
BeginWork(p) ==
    /\ Begin(p)
    /\ ~View(p).gone /\ ~expired
    /\ ~IsSettled(View(p))
    /\ Seen(p) = RV \/ stale < MaxStale
    /\ stale' = IF Seen(p) = RV THEN stale ELSE stale + 1
    /\ UNCHANGED <<versions, cached, timer, worldVars, edits, crashes, faults>>

Start(p) ==
    /\ BeginWork(p)
    /\ View(p).phase # "Running"
    /\ UpdateStatus(p, View(p), "Running")

(* The phase is Running already: no status update, on with the work.       *)
Resume(p) ==
    /\ BeginWork(p)
    /\ View(p).phase = "Running"
    /\ GoTo(p, "gate")
    /\ obj' = [obj EXCEPT ![p] = View(p)]
    /\ UNCHANGED <<fresh, want, tries, api, allMet>>

(* r.Delete of an expired resource, without a precondition on its version. *)
(* NotFound is an error too, and errors are returned.                      *)
Delete(p) ==
    /\ At(p, "delete")
    /\ \/ ~Current.gone /\ Write([Current EXCEPT !.gone = TRUE])
          /\ Return(p, FALSE)
       \/ Current.gone /\ Return(p, TRUE) /\ UNCHANGED versions
    /\ UNCHANGED <<cached, dirty, worldVars, boundVars>>

DeleteFault(p) ==
    /\ At(p, "delete")
    /\ faults < MaxFaults /\ faults' = faults + 1
    /\ \/ UNCHANGED versions
       \/ ~Current.gone /\ Write([Current EXCEPT !.gone = TRUE])
    /\ Return(p, TRUE)
    /\ UNCHANGED <<cached, dirty, worldVars, edits, crashes, stale>>

-----------------------------------------------------------------------------
(* updateStatus: up to MaxRetries times, Get a fresh copy (from the cache) *)
(* and Status().Update it with its resourceVersion.                        *)

StatusGet(p) ==
    /\ At(p, "get")
    /\ IF View(p).gone
       THEN UpdateFailed(p)
       ELSE /\ GoTo(p, "put")
            /\ fresh' = [fresh EXCEPT ![p] = Seen(p)]
            /\ UNCHANGED <<obj, want, tries, api, allMet, timer>>
    /\ UNCHANGED <<versions, cached, dirty, worldVars, boundVars>>

Written(p) == Merge(versions[fresh[p]], obj[p], want[p])

PutOk(p) ==
    /\ At(p, "put")
    /\ fresh[p] = RV
    /\ Write(Written(p))
    /\ UpdateDone(p, Written(p))
    /\ UNCHANGED <<cached, dirty, worldVars, boundVars>>

(* Mutant of RetriesLeft: one attempt too many.                            *)
RetriesLeftLate(p) == tries[p] < MaxRetries

RetriesLeft(p) == tries[p] + 1 < MaxRetries

(* Another write came first: read again, or give up with an error of its   *)
(* own (fmt.Errorf) after MaxRetries conflicts.                            *)
PutConflict(p) ==
    /\ At(p, "put")
    /\ fresh[p] # RV /\ ~Current.gone
    /\ IF RetriesLeft(p)
       THEN /\ GoTo(p, "get")
            /\ tries' = [tries EXCEPT ![p] = @ + 1]
            /\ UNCHANGED <<obj, fresh, want, api, allMet, timer>>
       ELSE UpdateFailed(p)
    /\ UNCHANGED <<versions, cached, dirty, worldVars, boundVars>>

PutNotFound(p) ==
    /\ At(p, "put")
    /\ Current.gone
    /\ UpdateFailed(p)
    /\ UNCHANGED <<versions, cached, dirty, worldVars, boundVars>>

(* The call fails otherwise, before or after the server has applied it.    *)
PutFault(p) ==
    /\ At(p, "put")
    /\ faults < MaxFaults /\ faults' = faults + 1
    /\ \/ UNCHANGED versions
       \/ fresh[p] = RV /\ ~Current.gone /\ Write(Written(p))
    /\ UpdateFailed(p)
    /\ UNCHANGED <<cached, dirty, worldVars, edits, crashes, stale>>

-----------------------------------------------------------------------------
(* The work itself: REST API conditions, authentication, git.              *)

(* With REST APIs, the circuit breaker comes first.                        *)
GateOpen(p) ==
    /\ At(p, "gate")
    /\ obj[p].apis = 0
    /\ GoTo(p, "auth")
    /\ UNCHANGED <<kubeVars, obj, fresh, want, tries, api, allMet, worldVars,
                   boundVars>>

GateTripped(p) ==
    /\ At(p, "gate")
    /\ obj[p].apis > 0 /\ Tripped(obj[p].calls)
    /\ UpdateStatus(p, obj[p], "Tripped")
    /\ UNCHANGED <<kubeVars, worldVars, boundVars>>

GateRest(p) ==
    /\ At(p, "gate")
    /\ obj[p].apis > 0 /\ ~Tripped(obj[p].calls)
    /\ GoTo(p, "rest")
    /\ obj' = [obj EXCEPT ![p].calls = StatusSlots(obj[p])]
    /\ api' = [api EXCEPT ![p] = 1]
    /\ allMet' = [allMet EXCEPT ![p] = TRUE]
    /\ UNCHANGED <<kubeVars, fresh, want, tries, worldVars, boundVars>>

(* checkRestAPIConditions goes on with the next API, or is done.           *)
NextApi(p, o, met) ==
    IF api[p] < o.apis
    THEN /\ api' = [api EXCEPT ![p] = @ + 1]
         /\ allMet' = [allMet EXCEPT ![p] = met]
         /\ obj' = [obj EXCEPT ![p] = o]
         /\ UNCHANGED <<pc, fresh, want, tries>>
    ELSE IF met
    THEN /\ GoTo(p, "auth")
         /\ obj' = [obj EXCEPT ![p] = o]
         /\ UNCHANGED <<fresh, want, tries, api, allMet>>
    ELSE UpdateStatus(p, o, "Pending")

(* The object after client.Do for the API that is called: CallCount++.     *)
Counted(p) == [obj[p] EXCEPT !.calls[api[p]] = @ + 1]

(* The circuit breaker of checkSingleRestAPICondition: no request, no      *)
(* error, condition not met.                                               *)
AtLimit(p) == obj[p].calls[api[p]] >= MaxCalls

(* An answer: the status code and the CEL condition decide.                *)
RestAnswer(p) ==
    /\ At(p, "rest")
    /\ \E met \in BOOLEAN :
        IF AtLimit(p)
        THEN NextApi(p, obj[p], FALSE) /\ UNCHANGED apiCalls
        ELSE /\ NextApi(p, Counted(p), allMet[p] /\ met)
             /\ apiCalls' = apiCalls + 1
    /\ UNCHANGED <<kubeVars, expired, pushes, boundVars>>

(* An error: of the request itself (counted), or before it was made (bad   *)
(* URL, no token: not counted).  It ends checkRestAPIConditions.           *)
RestError(p) ==
    /\ At(p, "rest")
    /\ ~AtLimit(p)
    /\ \/ UpdateStatus(p, Counted(p), "Failed") /\ apiCalls' = apiCalls + 1
       \/ UpdateStatus(p, obj[p], "Failed") /\ UNCHANGED apiCalls
    /\ UNCHANGED <<kubeVars, expired, pushes, boundVars>>

(* getAuthFromSecret: the secret is there with the key, or it is not.      *)
Auth(p) ==
    /\ At(p, "auth")
    /\ \/ /\ GoTo(p, "git")
          /\ UNCHANGED <<obj, fresh, want, tries, api, allMet>>
       \/ UpdateStatus(p, obj[p], "Failed")
    /\ UNCHANGED <<kubeVars, worldVars, boundVars>>

(* Mutant of GitPushed: CommitSHA is set after updateStatus.               *)
GitPushedNoSha(p) ==
    /\ At(p, "git")
    /\ pushes' = pushes + 1
    /\ UpdateStatus(p, obj[p], "Committed")
    /\ UNCHANGED <<kubeVars, expired, apiCalls, boundVars>>

(* Mutant of GitFailed: the error of performGitCommit is not looked at.    *)
GitFailedIgnored(p) ==
    /\ At(p, "git")
    /\ pushes' \in {pushes, pushes + 1}
    /\ UpdateStatus(p, obj[p], "Committed")
    /\ UNCHANGED <<kubeVars, expired, apiCalls, boundVars>>

(* performGitCommit: clone, write, commit, push.  The push may reach the   *)
(* remote although performGitCommit returns an error.                      *)
GitPushed(p) ==
    /\ At(p, "git")
    /\ pushes' = pushes + 1
    /\ UpdateStatus(p, [obj[p] EXCEPT !.sha = pushes + 1], "Committed")
    /\ UNCHANGED <<kubeVars, expired, apiCalls, boundVars>>

GitFailed(p) ==
    /\ At(p, "git")
    /\ pushes' \in {pushes, pushes + 1}
    /\ UpdateStatus(p, obj[p], "Failed")
    /\ UNCHANGED <<kubeVars, expired, apiCalls, boundVars>>

-----------------------------------------------------------------------------
(* The environment.                                                        *)

Watch(p) == Deliver(p) /\ UNCHANGED <<workerVars, worldVars, boundVars>>

Timer(p) == TimerFire(p) /\ UNCHANGED <<workerVars, worldVars, boundVars>>

(* The process dies at any point and is started again.                     *)
Crash(p) ==
    /\ crashes < MaxCrashes
    /\ crashes' = crashes + 1
    /\ Relist(p)
    /\ Leave(p)
    /\ UNCHANGED <<worldVars, edits, faults, stale>>

UserEdit ==
    /\ ~Current.gone
    /\ edits < MaxEdits
    /\ edits' = edits + 1
    /\ \E n \in ApiCounts : Write([Current EXCEPT !.apis = n])
    /\ UNCHANGED <<cached, dirty, timer, workerVars, worldVars, crashes, faults,
                   stale>>

UserDelete ==
    /\ MayDelete
    /\ ~Current.gone
    /\ Write([Current EXCEPT !.gone = TRUE])
    /\ UNCHANGED <<cached, dirty, timer, workerVars, worldVars, boundVars>>

TTLPasses ==
    /\ HasTTL
    /\ ~expired /\ expired' = TRUE
    /\ UNCHANGED <<kubeVars, workerVars, pushes, apiCalls, boundVars>>

-----------------------------------------------------------------------------
Step(p) ==
    \/ ReconcileGone(p) \/ ReconcileExpired(p) \/ ReconcileSettled(p)
    \/ Start(p) \/ Resume(p) \/ Delete(p)
    \/ StatusGet(p) \/ PutOk(p) \/ PutConflict(p) \/ PutNotFound(p)
    \/ GateOpen(p) \/ GateTripped(p) \/ GateRest(p)
    \/ RestAnswer(p) \/ RestError(p) \/ Auth(p)
    \/ GitPushed(p) \/ GitFailed(p)

System(p) == Step(p) \/ Watch(p) \/ Timer(p)

Environment ==
    \/ \E p \in Procs : PutFault(p) \/ DeleteFault(p) \/ Crash(p)
    \/ UserEdit \/ UserDelete \/ TTLPasses

Next == (\E p \in Procs : System(p)) \/ Environment

Spec == Init /\ [][Next]_vars

(* A worker that can take a step takes one, a watch event arrives, a delay *)
(* ends; users, crashes, faults and the TTL owe nothing.                   *)
Fairness ==
    \A p \in Procs : WF_vars(Step(p)) /\ WF_vars(Watch(p)) /\ WF_vars(Timer(p))

FairSpec == Spec /\ Fairness

-----------------------------------------------------------------------------
(* Every variable has a value that the program can give it.                *)
TypeOK ==
    /\ versions \in Seq(Objects) /\ RV >= 1
    /\ cached \in [Procs -> 1 .. RV]
    /\ dirty \in [Procs -> BOOLEAN]
    /\ timer \in [Procs -> BOOLEAN]
    /\ pc \in [Procs -> PCs]
    /\ obj \in [Procs -> Objects]
    /\ fresh \in [Procs -> 1 .. RV]
    /\ want \in [Procs -> Wants]
    /\ tries \in [Procs -> 0 .. MaxRetries - 1]
    /\ api \in [Procs -> Nat \ {0}]
    /\ allMet \in [Procs -> BOOLEAN]
    /\ expired \in BOOLEAN
    /\ pushes \in Nat /\ apiCalls \in Nat
    /\ edits \in 0 .. MaxEdits /\ crashes \in 0 .. MaxCrashes
    /\ faults \in 0 .. MaxFaults /\ stale \in 0 .. MaxStale

(* A status never claims a commit that is not on the remote: whatever      *)
(* worker wrote it, over whatever version, a CommitSHA names a push that   *)
(* was made, and a Committed phase comes with a CommitSHA (the status      *)
(* write of Reconcile after performGitCommit).                             *)
CommittedIsPushed ==
    \A k \in 1 .. RV :
        /\ versions[k].sha <= pushes
        /\ versions[k].phase = "Committed" => versions[k].sha > 0

(* The published CallCount never exceeds the breaker's limit, although     *)
(* several workers count on copies of their own and the two breakers       *)
(* (Reconcile and checkSingleRestAPICondition) look at different moments.  *)
BreakerBound ==
    \A k \in 1 .. RV : \A i \in DOMAIN versions[k].calls :
        versions[k].calls[i] <= MaxCalls

(* The counter never runs ahead of the requests: a CallCount that is       *)
(* published stands for requests that were made, even when a reconcile is  *)
(* repeated on an old copy of the status or ends in an error.              *)
NoOvercount ==
    \A k \in 1 .. RV : \A i \in DOMAIN versions[k].calls :
        versions[k].calls[i] <= apiCalls

(* While the APIs are called there is a status entry for each of them, so  *)
(* that &RestAPIStatuses[i] is never out of range, although an edit may    *)
(* change their number between the reconcile that stored the entries and   *)
(* this one.                                                               *)
SlotsFit ==
    \A p \in Procs : At(p, "rest") =>
        Len(obj[p].calls) = obj[p].apis /\ api[p] \in 1 .. obj[p].apis

(* The breaker inside checkSingleRestAPICondition can never fire: the one  *)
(* in Reconcile has looked at the same counters of the same copy before.   *)
InnerBreakerIdle == \A p \in Procs : At(p, "rest") => ~AtLimit(p)

(* A CommitSHA that is published is never taken back, by a worker that     *)
(* writes the outcome of an older or failed attempt.                       *)
ShaNeverErased ==
    [][Current.sha # 0 => versions'[Len(versions')].sha # 0]_vars

(* One process with an up-to-date view: the resource is pushed once, and   *)
(* once more at most for every crash, every failed call to the API server  *)
(* and every MaxRetries edits of the user that fall into one update.       *)
PushesAccounted == pushes <= 1 + crashes + faults + edits \div MaxRetries

(* The breaker bounds the traffic: with one process and an up-to-date view *)
(* each of the APIs gets at most MaxCalls requests, as many again for each *)
(* edit (which may change the number of APIs and so reset the counters),   *)
(* and one more for every reconcile whose count was lost (as above).       *)
RequestsBounded ==
    \E n \in ApiCounts :
        apiCalls <= n * (MaxCalls * (1 + edits)
                            + crashes + faults + edits \div MaxRetries)

(* The lifecycle that a user of the status may rely on.                    *)
Lifecycle ==
    INSTANCE GitCommitLifecycle
        WITH phase <- IF Current.gone THEN "Deleted" ELSE Current.phase

(* One process with an up-to-date view implements the lifecycle: Committed *)
(* and Failed are final, and a push is only made under a Running phase,    *)
(* whatever crashes, edits, conflicts and failed calls come in between.    *)
ImplementsLifecycle == Lifecycle!Spec

(* The one resource that nobody looks at again: the breaker ignores the    *)
(* error of its status write and returns an empty Result, so the resource  *)
(* stays Running with the limit reached.                                   *)
Stuck == faults > 0 /\ Current.phase = "Running" /\ Tripped(Current.calls)

(* Every resource settles: Committed, Failed or deleted, for good, or it   *)
(* is stuck at the breaker because the API server refused a call.          *)
Settles == <>[](IsSettled(Current) \/ Current.gone \/ Stuck)

(* What Settles rests on: no wake-up is lost.  A worker that has nothing in*)
(* hand will look at the resource again, or it is gone or stuck, for any   *)
(* number of processes on caches however old, although Committed and the   *)
(* breaker requeue nothing and most errors of a status write are ignored.  *)
NeverAsleep == \A p \in Procs : At(p, "idle") => Alert(p) \/ Stuck

(* A resource past its TTL is deleted, whatever phase it is in, with the   *)
(* same exception.                                                         *)
ExpiredIsDeleted == expired ~> (Current.gone \/ []Stuck)

-----------------------------------------------------------------------------
(* The inductive invariant: a copy of the object is sound wherever it is,  *)
(* in the store or in a worker's hands, for the pushes n and the requests  *)
(* c made so far.                                                          *)
Sound(o, n, c) ==
    /\ o.sha <= n
    /\ o.phase = "Committed" => o.sha > 0
    /\ \A i \in DOMAIN o.calls : o.calls[i] <= MaxCalls /\ o.calls[i] <= c

StoreOK ==
    /\ versions \in Seq(Objects) /\ RV >= 1
    /\ cached \in [Procs -> 1 .. RV]
    /\ fresh \in [Procs -> 1 .. RV]
    /\ \A k \in 1 .. RV : Sound(versions[k], pushes, apiCalls)

(* The APIs that are still to be called have calls left.                   *)
CallsLeft ==
    \A p \in Procs : At(p, "rest") =>
        \A i \in api[p] .. obj[p].apis : obj[p].calls[i] < MaxCalls

(* A worker that writes Committed holds the CommitSHA.                     *)
HoldsSha ==
    \A p \in Procs : pc[p] \in {"get", "put"} /\ want[p] = "Committed" =>
        obj[p].sha > 0

LocalsOK ==
    /\ pc \in [Procs -> PCs]
    /\ obj \in [Procs -> Objects]
    /\ want \in [Procs -> Wants]
    /\ tries \in [Procs -> 0 .. MaxRetries - 1]
    /\ api \in [Procs -> Nat \ {0}]
    /\ allMet \in [Procs -> BOOLEAN]
    /\ \A p \in Procs : Sound(obj[p], pushes, apiCalls)
    /\ SlotsFit /\ CallsLeft /\ HoldsSha

CountersOK ==
    /\ dirty \in [Procs -> BOOLEAN]
    /\ timer \in [Procs -> BOOLEAN]
    /\ expired \in BOOLEAN
    /\ pushes \in Nat /\ apiCalls \in Nat
    /\ edits \in 0 .. MaxEdits /\ crashes \in 0 .. MaxCrashes
    /\ faults \in 0 .. MaxFaults /\ stale \in 0 .. MaxStale

IInv == StoreOK /\ LocalsOK /\ CountersOK

(* With one process and an up-to-date view: the stored phase is the one    *)
(* that the worker's next status write is made for.                        *)
PhasesBefore(w) == IF w = "Running" THEN {"", "Pending"} ELSE {"Running"}

InStep ==
    \A p \in Procs :
        /\ pc[p] \in {"gate", "rest", "auth", "git"} =>
              Current.gone \/ Current.phase = "Running"
        /\ pc[p] \in {"get", "put"} =>
              Current.gone \/ Current.phase \in PhasesBefore(want[p])
        /\ pc[p] = "put" => ~versions[fresh[p]].gone

(* With one process and an up-to-date view, the accounts of the pushes:    *)
(* the edits that the update in hand has met, and the mishaps to spare:    *)
(* crashes, failed calls, and MaxRetries edits each of those left.         *)
Behind(p) == At(p, "put") /\ fresh[p] # RV /\ ~Current.gone

Met(p) == tries[p] + (IF Behind(p) THEN 1 ELSE 0)

Spare(p) == crashes + faults + (edits - Met(p)) \div MaxRetries

(* A push may still come without a further mishap.                         *)
Due(p) ==
    \/ pc[p] \in {"gate", "rest", "auth", "git"}
    \/ pc[p] \in {"get", "put"} /\ want[p] \notin {"Committed", "Failed"}
    \/ pc[p] \in {"idle", "delete"} /\ ~IsSettled(Current) /\ ~Current.gone

AccountOK(p) ==
    /\ Met(p) <= edits
    /\ pushes <= 1 + Spare(p)
    /\ Due(p) => pushes <= Spare(p)

(* With one process and an up-to-date view, the accounts of the requests:  *)
(* one execution asks each API at most once, and adds one to the counter   *)
(* of the first.  The counters start again only for another number of APIs,*)
(* which takes an edit.                                                    *)
Bit(b) == IF b THEN 1 ELSE 0

InHand(p) ==
    \/ pc[p] \in {"gate", "rest", "auth", "git"}
    \/ pc[p] \in {"get", "put"} /\ want[p] \in {"Pending", "Failed", "Committed"}

(* The APIs that the execution in hand, or the next one, counts for, and   *)
(* whether an edit has changed their number since they were counted.       *)
Asked(p) == IF InHand(p) THEN obj[p].apis ELSE Current.apis

Outdated(p) == Len(Current.calls) \notin {0, Asked(p)}

Resets(p) == Bit(Outdated(p)) + Bit(Asked(p) # Current.apis)

Count(o) == IF o.calls = <<>> THEN 0 ELSE o.calls[1]

(* Requests of the execution in hand.                                      *)
Made(p) ==
    IF ~InHand(p) \/ At(p, "gate") THEN 0
    ELSE IF At(p, "rest") THEN api[p] - 1 ELSE obj[p].apis

Executions(p) == MaxCalls * (edits - Resets(p)) + Count(Current) + Spare(p)

(* The counter of the first API before the execution in hand.              *)
FirstCount(p) == IF Outdated(p) THEN 0 ELSE Count(Current)

HandOK(p) ==
    /\ \/ At(p, "gate")
       \/ pc[p] \in {"get", "put"} /\ want[p] \in {"Running", "Tripped"}
       => obj[p].calls = Current.calls
    /\ At(p, "rest") =>
          /\ obj[p].calls[1] = FirstCount(p) + Bit(api[p] > 1)
          /\ FirstCount(p) < MaxCalls
    /\ pc[p] \in {"get", "put"} /\ want[p] = "Pending" =>
          /\ Len(obj[p].calls) = obj[p].apis /\ obj[p].apis > 0
          /\ obj[p].calls[1] = FirstCount(p) + 1

(* Requests may still be made, or are being made.                          *)
Open(p) == InHand(p) \/ (~IsSettled(Current) /\ ~Current.gone)

RequestsOK(n, p) ==
    /\ \A k \in 1 .. RV : versions[k].apis <= n
    /\ obj[p].apis <= n
    /\ HandOK(p)
    /\ apiCalls <= n * (MaxCalls * (1 + edits) + Spare(p))
    /\ Open(p) =>
          /\ Resets(p) <= edits
          /\ apiCalls <= n * Executions(p) + Made(p)

(* Some number of APIs that the spec has listed accounts for all requests. *)
RequestsAccounted == \E n \in ApiCounts : \A p \in Procs : RequestsOK(n, p)

(* For NeverAsleep, with IInv, for any number of processes: nothing is     *)
(* written over a deleted object; a put that will be refused leaves an     *)
(* event; and unless one is on its way, the breaker has looked at the      *)
(* counters that are stored.                                               *)
GoneIsLast == \A k \in 1 .. RV : versions[k].gone => k = RV

BeforeBreaker(p) ==
    At(p, "gate") \/ (pc[p] \in {"get", "put"} /\ want[p] = "Tripped")

SeesTheLimit(p) ==
    /\ obj[p] = Current /\ Current.phase = "Running"
    /\ ~At(p, "gate") => Tripped(Current.calls)

WatchOK(p) ==
    /\ At(p, "idle") => Alert(p) \/ Stuck
    /\ At(p, "put") =>
          /\ ~versions[fresh[p]].gone
          /\ fresh[p] = RV \/ Alert(p)
    /\ BeforeBreaker(p) => Alert(p) \/ SeesTheLimit(p)

AwakeOK == GoneIsLast /\ \A p \in Procs : WatchOK(p)
=============================================================================
