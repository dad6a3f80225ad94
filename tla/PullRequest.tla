---------------------------- MODULE PullRequest -----------------------------
(***************************************************************************)
(* The one-shot path of PullRequestReconciler.Reconcile                    *)
(* (src/controllers/pullrequest_controller.go): TTL check, REST API        *)
(* conditions, Running update, authentication, clone + commit + push,      *)
(* creation of the pull request, and the status update with its number.    *)
(*                                                                         *)
(* updateStatus puts the object that Reconcile has read, without a fresh   *)
(* copy and without a retry; a put that is accepted hands the new          *)
(* resourceVersion back.  No phase but Created and Failed stops Reconcile. *)
(*                                                                         *)
(* What is committed is abstract: the changes that generation g of the     *)
(* spec asks for are the number g, and 0 are changes of somebody else.     *)
(* RestAPIStatuses are left out: nothing in Reconcile reads them back.     *)
(***************************************************************************)
EXTENDS KubeObject

CONSTANTS
    RestChoices,    \* whether the spec lists REST APIs: {TRUE}, {FALSE} or both
    HasTTL,         \* the spec sets ttlMinutes
    MayDelete,      \* the user may delete the object
    MaxUnmet,       \* bound: REST checks whose conditions are not met
    MaxCloses,      \* bound: pull requests the user merges or closes
    MaxMishaps      \* bound: restarts of a manager process, calls that fail
                    \* before or after the server has executed them, and edits
                    \* of the spec by the user, together

ASSUME PullRequestAssumption ==
    /\ RestChoices \subseteq BOOLEAN
    /\ HasTTL \in BOOLEAN
    /\ MayDelete \in BOOLEAN
    /\ MaxUnmet \in Nat
    /\ MaxCloses \in Nat
    /\ MaxMishaps \in Nat

VARIABLES
    pc,         \* pc[p]: the call that p's worker is about to make
    obj,        \* obj[p]: the *PullRequest the reconcile works on
    rv,         \* rv[p]: the resourceVersion that object carries
    want,       \* want[p]: the phase updateStatus is writing
    branch,     \* what the head branch has on top of the base branch: {} or {g}
    prs,        \* prs[k]: the changes in the k-th pull request of this resource
    prOpen,     \* a pull request from the head branch is open
    expired,    \* now is past creationTimestamp + ttlMinutes
    attempts,   \* Running updates the API server has executed
    unmet, closes, mishaps      \* what the bounds count

workerVars == <<pc, obj, rv, want>>
remoteVars == <<branch, prs, prOpen>>
worldVars == <<remoteVars, expired, attempts>>
boundVars == <<unmet, closes, mishaps>>
vars == <<kubeVars, workerVars, worldVars, boundVars>>

-----------------------------------------------------------------------------
Phases == {"", "Pending", "Running", "Created", "Failed"}

Wants == Phases \ {""}

PCs == {"idle", "delete", "rest", "put", "auth", "push", "open"}

(* gen is the metadata.generation; number is PullRequestNumber, as the     *)
(* index in prs (0: none).                                                 *)
Objects ==
    [gone: BOOLEAN, gen: Nat, rest: BOOLEAN, phase: Phases, number: Nat]

NewObject(r) ==
    [gone |-> FALSE, gen |-> 1, rest |-> r, phase |-> "", number |-> 0]

(* Mutant of IsSettled: a Failed resource is tried again.                  *)
CreatedOnly(o) == o.phase = "Created"

IsSettled(o) == o.phase \in {"Created", "Failed"}

-----------------------------------------------------------------------------
(* At first the head branch may hold work of somebody else, with or        *)
(* without a pull request.                                                 *)
Init ==
    /\ \E r \in RestChoices : KubeInit(NewObject(r))
    /\ pc = [p \in Procs |-> "idle"]
    /\ obj = [p \in Procs |-> versions[1]]
    /\ rv = [p \in Procs |-> 1]
    /\ want = [p \in Procs |-> "Running"]
    /\ branch \in {{}, {0}}
    /\ prs = <<>>
    /\ prOpen \in BOOLEAN /\ (prOpen => branch # {})
    /\ expired = FALSE
    /\ attempts = 0
    /\ unmet = 0 /\ closes = 0 /\ mishaps = 0

At(p, l) == pc[p] = l
GoTo(p, l) == pc' = [pc EXCEPT ![p] = l]

(* The reconcile ends, or its process dies: the locals are dead, set them  *)
(* to a fixed value.                                                       *)
Leave(p) ==
    /\ GoTo(p, "idle")
    /\ obj' = [obj EXCEPT ![p] = versions[1]]
    /\ rv' = [rv EXCEPT ![p] = 1]
    /\ want' = [want EXCEPT ![p] = "Running"]

(* A crash, a failed call or an edit: what may interrupt an attempt.       *)
Mishap == mishaps < MaxMishaps /\ mishaps' = mishaps + 1

Return(p, again) == Leave(p) /\ Requeue(p, again)

(* Call updateStatus with phase w.                                         *)
UpdateStatus(p, w) ==
    /\ GoTo(p, "put")
    /\ want' = [want EXCEPT ![p] = w]

-----------------------------------------------------------------------------
(* Reconcile reads the object.                                             *)

Begin(p) == At(p, "idle") /\ dirty[p] /\ TakeKey(p)

(* NotFound: nothing to do.                                                *)
ReconcileGone(p) ==
    /\ Begin(p)
    /\ View(p).gone
    /\ UNCHANGED <<versions, cached, timer, workerVars, worldVars, boundVars>>

(* checkTTLExpired: the next call is Delete.                               *)
ReconcileExpired(p) ==
    /\ Begin(p)
    /\ ~View(p).gone /\ expired
    /\ GoTo(p, "delete")
    /\ UNCHANGED <<versions, cached, timer, obj, rv, want, worldVars, boundVars>>

(* Created and Failed resources are only looked at again for the TTL.      *)
ReconcileSettled(p) ==
    /\ Begin(p)
    /\ ~View(p).gone /\ ~expired /\ IsSettled(View(p))
    /\ Requeue(p, TRUE)
    /\ UNCHANGED <<versions, cached, workerVars, worldVars, boundVars>>

(* Work begins, whether the phase is Running already or not: with the REST *)
(* APIs if there are any, or with the Running update.                      *)
Start(p) ==
    /\ Begin(p)
    /\ ~View(p).gone /\ ~expired /\ ~IsSettled(View(p))
    /\ obj' = [obj EXCEPT ![p] = View(p)]
    /\ rv' = [rv EXCEPT ![p] = Seen(p)]
    /\ IF View(p).rest
       THEN GoTo(p, "rest") /\ UNCHANGED want
       ELSE UpdateStatus(p, "Running")
    /\ UNCHANGED <<versions, cached, timer, worldVars, boundVars>>

(* r.Delete of an expired resource, without a precondition on its version. *)
(* NotFound is an error too, and errors are returned.                      *)
Delete(p) ==
    /\ At(p, "delete")
    /\ \/ ~Current.gone /\ Write([Current EXCEPT !.gone = TRUE])
          /\ Return(p, FALSE)
       \/ Current.gone /\ Return(p, TRUE) /\ UNCHANGED versions
    /\ UNCHANGED <<cached, dirty, worldVars, boundVars>>

DeleteFault(p) ==
    /\ At(p, "delete")
    /\ Mishap
    /\ \/ UNCHANGED versions
       \/ ~Current.gone /\ Write([Current EXCEPT !.gone = TRUE])
    /\ Return(p, TRUE)
    /\ UNCHANGED <<cached, dirty, worldVars, unmet, closes>>

-----------------------------------------------------------------------------
(* checkRestAPIConditions: all conditions are met, one is not, or a        *)
(* request or its answer fails.  It works on the local copy only.          *)

RestMet(p) ==
    /\ At(p, "rest")
    /\ UpdateStatus(p, "Running")
    /\ UNCHANGED <<kubeVars, obj, rv, worldVars, boundVars>>

RestUnmet(p) ==
    /\ At(p, "rest")
    /\ unmet < MaxUnmet /\ unmet' = unmet + 1
    /\ UpdateStatus(p, "Pending")
    /\ UNCHANGED <<kubeVars, obj, rv, worldVars, closes, mishaps>>

RestError(p) ==
    /\ At(p, "rest")
    /\ UpdateStatus(p, "Failed")
    /\ UNCHANGED <<kubeVars, obj, rv, worldVars, boundVars>>

-----------------------------------------------------------------------------
(* updateStatus: one Status().Update of the object Reconcile works on.     *)

Written(p) == [obj[p] EXCEPT !.phase = want[p]]

(* Mutant of Accepted: updateStatus takes the resourceVersion from a fresh *)
(* copy.                                                                   *)
AcceptedAnyVersion(p) == ~Current.gone

Accepted(p) == rv[p] = RV /\ ~Current.gone

(* Mutant of Adopt: the put is made with a copy of the object, so that the *)
(* new resourceVersion is lost.                                            *)
AdoptNothing(p) == UNCHANGED rv

(* The client stores the new resourceVersion in the object.                *)
Adopt(p) == rv' = [rv EXCEPT ![p] = RV + 1]

(* A Running update has been executed by the API server.                   *)
CountAttempt(p) == attempts' = IF want[p] = "Running" THEN attempts + 1 ELSE attempts

(* After Running the work goes on; Created returns an empty Result; Failed *)
(* and Pending come back after five minutes.                               *)
UpdateDone(p) ==
    IF want[p] = "Running"
    THEN /\ GoTo(p, "auth")
         /\ obj' = [obj EXCEPT ![p] = Written(p)]
         /\ Adopt(p)
         /\ UNCHANGED <<want, timer>>
    ELSE Return(p, want[p] # "Created")

(* Mutants of UpdateFailed: the error of a put is not looked at, or is not *)
(* returned.                                                               *)
UpdateErrorIgnored(p) == UpdateDone(p)

UpdateErrorDropped(p) == Return(p, want[p] \in {"Pending", "Failed"})

(* The error is returned (Running, Created) or ignored (Pending, Failed):  *)
(* either way the key comes back.                                          *)
UpdateFailed(p) == Return(p, TRUE)

PutOk(p) ==
    /\ At(p, "put")
    /\ Accepted(p)
    /\ Write(Written(p))
    /\ CountAttempt(p)
    /\ UpdateDone(p)
    /\ UNCHANGED <<cached, dirty, remoteVars, expired, boundVars>>

(* A conflict, or NotFound.                                                *)
PutRefused(p) ==
    /\ At(p, "put")
    /\ ~Accepted(p)
    /\ UpdateFailed(p)
    /\ UNCHANGED <<versions, cached, dirty, worldVars, boundVars>>

(* The call fails otherwise, before or after the server has executed it.   *)
PutFault(p) ==
    /\ At(p, "put")
    /\ Mishap
    /\ \/ UNCHANGED <<versions, attempts>>
       \/ Accepted(p) /\ Write(Written(p)) /\ CountAttempt(p)
    /\ UpdateFailed(p)
    /\ UNCHANGED <<cached, dirty, remoteVars, expired, unmet, closes>>

-----------------------------------------------------------------------------
(* The work itself: authentication, git, GitHub.                           *)

(* getAuthFromSecret: the secret is there with the key, or it is not.      *)
Auth(p) ==
    /\ At(p, "auth")
    /\ \/ GoTo(p, "push") /\ UNCHANGED want
       \/ UpdateStatus(p, "Failed")
    /\ UNCHANGED <<kubeVars, obj, rv, worldVars, boundVars>>

(* createPullRequest clones the default branch, commits on a new local     *)
(* head branch and pushes.  The push is accepted when the head branch is   *)
(* not on the remote or has nothing of its own.                            *)
PushAccepted(p) ==
    /\ At(p, "push")
    /\ branch = {}
    /\ branch' = {obj[p].gen}
    /\ GoTo(p, "open")
    /\ UNCHANGED <<kubeVars, obj, rv, want, prs, prOpen, expired, attempts, boundVars>>

(* "non-fast-forward update", of the head branch or of the default branch, *)
(* which has moved since the clone: the head branch is taken as it is.     *)
PushRefused(p) ==
    /\ At(p, "push")
    /\ GoTo(p, "open")
    /\ UNCHANGED <<kubeVars, obj, rv, want, worldVars, boundVars>>

(* Any other error, up to and including the push, which may have arrived.  *)
PushFailed(p) ==
    /\ At(p, "push")
    /\ \/ UNCHANGED branch
       \/ branch = {} /\ branch' = {obj[p].gen}
    /\ UpdateStatus(p, "Failed")
    /\ UNCHANGED <<kubeVars, obj, rv, prs, prOpen, expired, attempts, boundVars>>

(* GitHub opens a pull request if none is open for the head branch.        *)
GitHubOpens ==
    /\ branch # {} /\ ~prOpen
    /\ prOpen' = TRUE
    /\ \E g \in branch : prs' = Append(prs, g)

Opened(p) ==
    /\ At(p, "open")
    /\ GitHubOpens
    /\ obj' = [obj EXCEPT ![p].number = Len(prs) + 1]
    /\ UpdateStatus(p, "Created")
    /\ UNCHANGED <<kubeVars, rv, branch, expired, attempts, boundVars>>

(* Mutant of OpenFailed: the error of createPullRequest is not looked at.  *)
OpenErrorIgnored(p) ==
    /\ At(p, "open")
    /\ UpdateStatus(p, "Created")
    /\ UNCHANGED <<kubeVars, obj, rv, worldVars, boundVars>>

(* No owner and name in the URL, or GitHub refuses: a pull request is open *)
(* for the branch, the branch was deleted, no permission, and so on.       *)
OpenFailed(p) ==
    /\ At(p, "open")
    /\ UpdateStatus(p, "Failed")
    /\ UNCHANGED <<kubeVars, obj, rv, worldVars, boundVars>>

(* GitHub opens the pull request and the answer is lost.                   *)
OpenLost(p) ==
    /\ At(p, "open")
    /\ Mishap
    /\ GitHubOpens
    /\ UpdateStatus(p, "Failed")
    /\ UNCHANGED <<kubeVars, obj, rv, branch, expired, attempts, unmet, closes>>

-----------------------------------------------------------------------------
(* The environment.                                                        *)

Watch(p) == Deliver(p) /\ UNCHANGED <<workerVars, worldVars, boundVars>>

Timer(p) == TimerFire(p) /\ UNCHANGED <<workerVars, worldVars, boundVars>>

(* The process dies at any point and is started again.                     *)
Crash(p) ==
    /\ Mishap
    /\ Relist(p)
    /\ Leave(p)
    /\ UNCHANGED <<worldVars, unmet, closes>>

UserEdit ==
    /\ ~Current.gone
    /\ Mishap
    /\ \E r \in RestChoices : Write([Current EXCEPT !.gen = @ + 1, !.rest = r])
    /\ UNCHANGED <<cached, dirty, timer, workerVars, worldVars, unmet, closes>>

UserDelete ==
    /\ MayDelete
    /\ ~Current.gone
    /\ Write([Current EXCEPT !.gone = TRUE])
    /\ UNCHANGED <<cached, dirty, timer, workerVars, worldVars, boundVars>>

(* The pull request is closed (the branch stays or is deleted) or merged   *)
(* (the base branch catches up).                                           *)
UserCloses ==
    /\ prOpen /\ prOpen' = FALSE
    /\ closes < MaxCloses /\ closes' = closes + 1
    /\ branch' \in {branch, {}}
    /\ UNCHANGED <<kubeVars, workerVars, prs, expired, attempts, unmet, mishaps>>

TTLPasses ==
    /\ HasTTL
    /\ ~expired /\ expired' = TRUE
    /\ UNCHANGED <<kubeVars, workerVars, remoteVars, attempts, boundVars>>

-----------------------------------------------------------------------------
Step(p) ==
    \/ ReconcileGone(p) \/ ReconcileExpired(p) \/ ReconcileSettled(p)
    \/ Start(p) \/ Delete(p)
    \/ RestMet(p) \/ RestUnmet(p) \/ RestError(p)
    \/ PutOk(p) \/ PutRefused(p)
    \/ Auth(p)
    \/ PushAccepted(p) \/ PushRefused(p) \/ PushFailed(p)
    \/ Opened(p) \/ OpenFailed(p)

System(p) == Step(p) \/ Watch(p) \/ Timer(p)

Environment ==
    \/ \E p \in Procs : PutFault(p) \/ DeleteFault(p) \/ OpenLost(p) \/ Crash(p)
    \/ UserEdit \/ UserDelete \/ UserCloses \/ TTLPasses

Next == (\E p \in Procs : System(p)) \/ Environment

Spec == Init /\ [][Next]_vars

(* As in GitCommit: a worker that can take a step takes one, a watch event *)
(* arrives, a delay ends.                                                  *)
Fairness ==
    \A p \in Procs : WF_vars(Step(p)) /\ WF_vars(Watch(p)) /\ WF_vars(Timer(p))

FairSpec == Spec /\ Fairness

-----------------------------------------------------------------------------
(* Every variable has a value that the program can give it.                *)
TypeOK ==
    /\ versions \in Seq(Objects) /\ RV >= 1
    /\ cached \in [Procs -> 1 .. RV]
    /\ dirty \in [Procs -> BOOLEAN]
    /\ timer \in [Procs -> BOOLEAN]
    /\ pc \in [Procs -> PCs]
    /\ obj \in [Procs -> Objects]
    /\ rv \in [Procs -> 1 .. RV]
    /\ want \in [Procs -> Wants]
    /\ branch \in SUBSET Nat
    /\ prs \in Seq(Nat)
    /\ prOpen \in BOOLEAN
    /\ expired \in BOOLEAN
    /\ attempts \in Nat
    /\ unmet \in 0 .. MaxUnmet /\ closes \in 0 .. MaxCloses
    /\ mishaps \in 0 .. MaxMishaps

(* A Created status names a pull request that GitHub has opened for this   *)
(* resource, whatever worker wrote it and whatever attempt came before.    *)
CreatedIsOpened ==
    \A k \in 1 .. RV :
        versions[k].phase = "Created" => versions[k].number \in DOMAIN prs

(* Created and Failed are final, and so is the number that is published    *)
(* with them, although Reconcile decides on a copy that may be outdated    *)
(* and has no fresh look at the phase before it writes: the                *)
(* resourceVersion of an unsettled copy goes with every write.             *)
FinalPhases ==
    [][IsSettled(Current) =>
            /\ Current'.phase = Current.phase
            /\ Current'.number = Current.number]_vars

(* One process: createPullRequest is tried once, and once more at most for *)
(* every crash, failed call and edit, however old the copies are that      *)
(* Reconcile reads from the cache.                                         *)
AttemptsAccounted == attempts <= 1 + mishaps

(* One process: a pull request that was opened is not lost.  The resource  *)
(* only ends up Failed, without the number, after a mishap (the next       *)
(* attempt is then refused by GitHub: a pull request is open already).     *)
NoneLost == prs # <<>> /\ Current.phase = "Failed" => mishaps > 0

(* Every resource settles for good or is deleted, provided its REST        *)
(* conditions are met in the end; and one past its TTL is deleted, whatever*)
(* phase it is in, although Reconcile returns an empty Result after Created*)
(* and relies on the event of its own status write.                        *)
Settles ==
    /\ <>[](IsSettled(Current) \/ Current.gone)
    /\ expired ~> Current.gone

(* What Settles rests on: no wake-up is lost.  A worker that has nothing in*)
(* hand will look at the resource again or it is gone, for any number of   *)
(* processes on caches however old, although Created requeues nothing and  *)
(* the errors of two of the status writes are ignored.                     *)
NeverAsleep == \A p \in Procs : At(p, "idle") => Alert(p)

-----------------------------------------------------------------------------
(* The inductive invariant, in three parts.                                *)
StoreOK ==
    /\ versions \in Seq(Objects) /\ RV >= 1
    /\ cached \in [Procs -> 1 .. RV]
    /\ CreatedIsOpened

(* The copy in a worker's hands is of a version that was not settled.      *)
UnsettledCopies ==
    \A p \in Procs : pc[p] \notin {"idle", "delete"} =>
        ~IsSettled(versions[rv[p]])

(* A worker that writes Created holds the number of a pull request.        *)
HoldsNumber ==
    \A p \in Procs : At(p, "put") /\ want[p] = "Created" =>
        obj[p].number \in DOMAIN prs

LocalsOK ==
    /\ pc \in [Procs -> PCs]
    /\ obj \in [Procs -> Objects]
    /\ rv \in [Procs -> 1 .. RV]
    /\ want \in [Procs -> Wants]
    /\ UnsettledCopies /\ HoldsNumber

WorldOK ==
    /\ dirty \in [Procs -> BOOLEAN]
    /\ timer \in [Procs -> BOOLEAN]
    /\ branch \in SUBSET Nat
    /\ prs \in Seq(Nat)
    /\ prOpen \in BOOLEAN
    /\ expired \in BOOLEAN
    /\ attempts \in Nat
    /\ unmet \in 0 .. MaxUnmet /\ closes \in 0 .. MaxCloses
    /\ mishaps \in 0 .. MaxMishaps

IInv == StoreOK /\ LocalsOK /\ WorldOK

(* For one process, with IInv: the attempts beyond one for each mishap.    *)
InAttempt(p) ==
    \/ pc[p] \in {"auth", "push", "open"}
    \/ At(p, "put") /\ want[p] \in {"Created", "Failed"}

(* The current version is settled, or the worker that has its              *)
(* resourceVersion is about to settle it.                                  *)
Covered ==
    \/ IsSettled(Current) \/ Current.gone
    \/ \E p \in Procs : InAttempt(p) /\ rv[p] = RV

OneAttemptEach ==
    /\ attempts <= 1 + mishaps
    /\ ~Covered => attempts <= mishaps

(* For one process, with IInv: where the number of a pull request is as    *)
(* long as there was no mishap.                                            *)
Carries(p) == At(p, "put") /\ want[p] = "Created"

AtWork(p) == pc[p] \in {"auth", "push", "open"} \/ Carries(p)

NumberIsKept ==
    mishaps = 0 =>
        /\ \A p \in Procs : AtWork(p) =>
               (rv[p] = RV \/ Current.gone) /\ ~IsSettled(Current)
        /\ prs # <<>> =>
               \/ Current.phase = "Created"
               \/ Current.gone /\ Current.phase # "Failed"
               \/ \E p \in Procs : Carries(p)

(* For NeverAsleep, with IInv: nothing is written over a deleted object.   *)
GoneIsLast == \A k \in 1 .. RV : versions[k].gone => k = RV

AwakeOK == GoneIsLast /\ NeverAsleep

-----------------------------------------------------------------------------
(* A statement of the documentation, which the code does not keep.         *)

(* "Handles existing branches by creating new ones": what a pull request   *)
(* of this resource proposes is never somebody else's work.                *)
OwnChanges == \A k \in DOMAIN prs : prs[k] # 0
=============================================================================
