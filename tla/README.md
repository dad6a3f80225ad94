# git-change-operator: TLA+ models and proofs

This directory holds TLA+ models of the controllers of git-change-operator,
the TLC configurations that check them and TLAPS proofs about them. The
operator watches custom resources in Kubernetes: a `GitCommit` asks for files
to be committed and pushed to a git repository, a `PullRequest` asks for a
GitHub pull request, and a `GitChangeOperator` describes a deployment of the
operator itself. Every definition is translated from the Go source;
`PROJECT.json` (under `map`) gives the lines each one stands for.

## 1. Inventory

| Component | State | Operations | Interacts with |
|---|---|---|---|
| GitCommit controller, one-shot (`controllers/gitcommit_controller.go` 43-158, 187-402, 569-756, 828-858) | status: phase, CommitSHA, RestAPIStatuses; the local copy of one reconcile | Reconcile, updateStatus, checkRestAPIConditions, performGitCommit, checkTTLExpired | API server (cached Get, Status().Update, Delete), REST APIs, git remote, secrets |
| GitCommit controller, scheduled (901-1217) | the same and LastScheduledTime, NextScheduledTime, ExecutionHistory | handleScheduledGitCommit, recordExecution, updateScheduleStatus, updateNextScheduledTime | the same, and the clock |
| PullRequest controller, one-shot (`controllers/pullrequest_controller.go`) | the same with the number and URL of the pull request | Reconcile, createPullRequest, updateStatus | the same, and the GitHub API |
| PullRequest controller, scheduled | the same with the times and the history | handleScheduledPullRequest, recordPRExecution, updateScheduleStatus, updateNextScheduledTime | the same, and the clock |
| GitChangeOperator controller (`controllers/gitchangeoperator_controller.go`) | the owned objects, finalizer, ObservedGeneration | Reconcile, reconcileX/deleteX per object, handleDeletion | API server, events of owned ServiceAccounts and Services, garbage collector |
| File content and encryption (`performGitCommit`, `processResourceRef`, `createPullRequest`, `pkg/encryption`) | the work tree of one clone, the branches of the remote | overwrite, append, resource references, age encryption, push | git, secrets |
| REST processing and CEL (`checkSingleRestAPICondition`, `processJSONResponse`, `buildFileContent`, `pkg/cel`) | the status entry of each API | condition, data expression, output format | REST APIs, the status, the files |
| Kubernetes: API server, informer cache, work queue | versions of the object; cache, queue and delayed adds per manager process | external (client-go, controller-runtime) | all controllers |
| Metrics, `main.go`, API types, generated code, Helm chart, docs | | not modelled, see 7 | |

**How they interact.** The controllers share nothing in memory. They meet in
the stored object and in its events: a controller's own status write is an
event that brings the object back to it, and several paths rely on that.
Reads come from the informer cache and may be outdated. Writes carry the
resourceVersion that was read and are refused when another write came first.
`main.go` leaves leader election off by default and the documentation sets
`replicaCount: 2`, so two processes may reconcile one object. Resources of
both kinds meet once more on the branches of a git repository.

**What is hard.** Decisions on outdated copies; a status update that merges an
older copy into a fresh one; crashes and lost answers between the push and the
status write; conflicts that use up the retries; results without a requeue; two
circuit breakers on one counter; a schedule whose published time moves; edits of
the spec between two reconciles, or in the middle of one; objects that others
change while no event tells of it; data of an earlier execution that stay in
the status; two executions on one branch. The list is in `PROJECT.json` under
`hazards`, each at its line with the properties that watch it.

**What makes each component correct.**
- One-shot GitCommit: a status never claims a commit that is not on the remote;
  CommitSHA is never taken back; pushes and REST requests are accounted for;
  Committed and Failed are final; every resource settles and an expired one is
  deleted.
- Scheduled GitCommit: no more executions than slots and mishaps; the history is
  honest, bounded and complete but for mishaps; a published time is kept and served.
- PullRequest: a Created status names a pull request that exists; attempts are
  accounted for; Created and Failed are final; the number of a pull request that
  was opened is not lost; what it proposes are the changes of the resource. On a
  schedule: the history names the pull request that is open.
- GitChangeOperator: a Ready status is about the spec it names, the owned objects
  converge to the spec, and nothing is made for a resource that is gone.
- File content: what is committed under a path is what the write mode and the
  encryption settings say, and a commit that was reported stays.
- REST data: a commit holds the answers of its own execution.

## 2. Modules

| Module | Models | Size of the idea |
|---|---|---|
| `KubeObject` | API server, informer cache and work queue for one object | every accepted write appends to `versions`; `cached[p]`, `dirty[p]`, `timer[p]` per process |
| `GitCommit` | the one-shot path of the GitCommit controller | one action per step between two calls that leave the process |
| `GitCommitLifecycle` | abstract specification: phase and remote only | four actions |
| `ScheduledObject` | what the two scheduled paths share: clock, schedule, status updates, requeue, users and crashes | EXTENDed by the next two |
| `GitCommitSchedule` | the scheduled path of the GitCommit controller | what its updates merge and its executions do |
| `PullRequestSchedule` | the scheduled path of the PullRequest controller | the same, with the head branch and GitHub |
| `PullRequest` | the one-shot path of the PullRequest controller | the style of `GitCommit`, with the head branch and GitHub |
| `GitChangeOperator` | its controller, the objects it owns, the garbage collector | one action for each call in the fixed order of Reconcile |
| `CommitContent` | what a commit holds and which branch takes it, for both controllers | executions of several resources on one repository |
| `RestData` | answers of REST APIs, the evaluator, the status entries, the files made of them | executions of one resource one after the other |
| `GitCommitProofs`, `PullRequestProofs`, `GitCommitScheduleProofs`, `PullRequestScheduleProofs`, `GitChangeOperatorProofs`, `CommitContentProofs`, `RestDataProofs` | TLAPS proofs, one module per module they are about | see 5 |
| `ScheduledObjectProofs` | lemmas about the store, the clock and the updates | what the proofs of the two schedules share |
| `MC...` | sets, symmetry and constraints for TLC | |

The modules compose along their interfaces. `GitCommit` and `PullRequest` take a
REST answer as met, not met or an error and a commit as a number; what answers
become is `RestData`, what a commit holds is `CommitContent`, where the number is
again the execution. `RestData` in turn leaves open whether a status is written.

### KubeObject
Code outside `src/`, modelled from the calls the controllers make. `Seen(p)` is
the version a `Get` returns: with `CacheLag` the cached one, otherwise the
current one (an ideal client, which separates what is owed to the cache from
what is owed to the controller). `Write` appends a version; a put is accepted
when the version read (`fresh[p]`) is the last (`RV`). `Deliver` moves the
cache on and enqueues the key: no predicate is installed, so a controller sees the
events of its own writes. A key that is being processed waits in `dirty`, as in
the work queue of client-go. `Relist` is a restart: queue and timers are lost.

### GitCommit
`pc[p]` names the call the worker is about to make:

| `pc` | code | actions |
|---|---|---|
| `idle` | Reconcile starts with `r.Get` (52) | `ReconcileGone`, `ReconcileExpired`, `ReconcileSettled`, `Start`, `Resume` |
| `delete` | `r.Delete` (78) | `Delete`, `DeleteFault` |
| `get`, `put` | the two calls of one attempt of updateStatus (363, 383) | `StatusGet`, `PutOk`, `PutConflict`, `PutNotFound`, `PutFault` |
| `gate` | the circuit breaker (109-119) | `GateOpen`, `GateTripped`, `GateRest` |
| `rest` | checkSingleRestAPICondition for API `api[p]` | `RestAnswer`, `RestError` |
| `auth` | getAuthFromSecret | `Auth` |
| `git` | performGitCommit | `GitPushed`, `GitFailed` |

`want[p]` is the phase updateStatus is writing and so tells where Reconcile goes
on; `"Tripped"` is the Failed of the breaker, the one write whose error is ignored
and whose Result is empty. `Merge` is what updateStatus does to the fresh copy.
The k-th push to the remote is the number k, and `sha = k` is the CommitSHA of it.
Abstracted: messages, LastSync, the REST answer itself (met, not met, error before
or after the request), the content of the commit. `Crash` may happen before any
step. A failed call to the API server may have been applied or not.
`ReconcileExpired` reads the clock as the flag `expired`, which becomes true once.

### GitCommitLifecycle
What a user who watches `status.phase` may rely on: Pending and Running
alternate, a push is only made under Running (or after the object was deleted
under a worker), Committed comes after a push, Committed and Failed are final.
`GitCommit` implements it (`ImplementsLifecycle`, with `phase` mapped to
`"Deleted"` once the object is gone) for one process whose reads are current.
It does not under a lagging cache: a worker that starts on an old copy with phase
Running goes on to git although the stored phase is final.

### ScheduledObject, GitCommitSchedule, PullRequestSchedule
`ScheduledObject` holds what handleScheduledGitCommit and handleScheduledPullRequest
have in common. `op[p]` says which status update the `get`/`put` loop is doing and so
what follows it (`StatusOps` updateScheduleStatus, `NextOps` updateNextScheduledTime,
`RecordOps` recordExecution or recordPRExecution). `NextRun` is `schedule.Next`: a
cron line runs at multiples of `Period`, `@every` runs `Period` after the time asked
about. `WaitUntil` is the requeue of at least a minute, `RequeueIfAhead` the
`RequeueAfter: time.Until(nextTime)` that does nothing when it is not positive.
A status update that changes nothing makes no version and no event (`Store`): in
the scaled clock several updates fall into one second. `runs` counts executions
begun, that is accepted Running updates.

`GitCommitSchedule` publishes the next time and then the record after a push, and
both at once after anything else. `PullRequestSchedule` writes the record first and
the next time second whatever the outcome, and looks at the error of neither: so
`UpdateFailed` goes on where the other returns.

### PullRequest
The state is that of `GitCommit` with one difference that decides everything:
updateStatus puts the object that Reconcile has read, with the resourceVersion of
that read (`rv[p]`), once. So there is no `get`, no `Merge` and no retry; an
accepted put gives the object its new version (`Adopt`), and a write can only
replace the version that the worker knows. REST conditions come before the
Running update and are one step with three outcomes; RestAPIStatuses are left
out, because nothing in this path reads them back. A Running phase does not stop
Reconcile. `gen` is the generation of the spec and stands for the changes it asks for.
The remote is `branch`, what the head branch has on top of the base branch (`{}`:
it is absent or contained in it, so a push is accepted unless the default branch has
moved since the clone; otherwise the push is refused; either way the code goes on), and GitHub is `prs` and `prOpen`: one open pull
request for a branch, a second one is refused. A user merges or closes it. Crashes,
failed calls and edits share one bound, `MaxMishaps`.

### GitChangeOperator
`pc[p]` walks the calls of Reconcile in `Order`: finalizer, Deployment,
ServiceAccount, Role, RoleBinding, Service, ServiceMonitor, Ingress, status. `Apply`
makes the call (`Effect` is what each helper does to `objs`), `ApplyRefused` is an
error the code knows about (no image, a kind that is not installed, a Deployment
that the cache does not show), `ApplyFault` any other. What a helper writes from the
spec whether the object is there or not is one value `v`. Apart from it are the replicas,
the subject of the RoleBinding, the owner, and the pull policy of the Deployment (`pull`),
which only its creation writes (`NewDeployment`). Two writes carry no resourceVersion: the
patch of the Deployment, computed against a cached copy (`dep[p]`), and the
ServiceAccount, which is replaced by one that has only its name and its owner. In the
other helpers an old copy means a refused write. `Watched` are the
kinds in SetupWithManager. Others may remove an object or scale the Deployment
(`drift` remembers), the resource may be deleted and created again with a new `uid`,
and the garbage collector takes what an earlier one owned. It does so in one step:
no helper looks at two objects.

### CommitContent
An execution clones (`Clone`), writes all files and commits (`Commit`), and pushes
(`PushOk`, `PushRefused`, `PushFault`). It writes one piece of text, its number, so
that the text of a file is the sequence of the executions it holds. A path is the
sequence of its parts, so that the suffix `.age` and the keys of a ConfigMap, of which
there are finitely many, are parts.
`Files` are the files of an entry with the path and the mode the two processResourceRef
give them, `WriteFile` what the two controllers do with one; `Readable` says that
age decrypts the output of one encryption and no concatenation of two. `Local` are
the branches of the clone, all of which are pushed; the remote accepts if none of its
branches would lose a commit. Others merge branches and delete them.

### RestData
One resource, its executions one after the other and its status entries, which
outlive them. `Begin` keeps the entries if their number fits the spec, `Answer`
with `ProcessResponse` is the pipeline of the evaluator (condition, data, format)
on a response that says what each expression makes of it, `NoRequest`, `NoAnswer`
and `CodeRefused` the ways in which an answer does not come, and `FileContent` is
buildFileContent, the outputs by the index of the entry they come from. An output is
the number of the call that gave it; `answered` and
`shown` remember, for the properties only, what the answers gave.

## 3. Runs

| Run | Question | Bounds |
|---|---|---|
| `single` | one process, current reads: pushes and requests accounted for, implements the lifecycle | 2 calls, 2 attempts, 1 or 2 APIs, deletion, two of edits, crashes and failed calls |
| `live` | lagging cache: a status names commits that were pushed and keeps them, breaker, Settles, ExpiredIsDeleted | 0 or 1 API, TTL, a crash and a failed call, a reconcile on an outdated copy |
| `schedule` | current reads, a REST API, one disturbance at any point: RunsRecorded, RunsAccounted, HistoryIsHonest, HistoryKept, NeverAsleep, NextTimeKept, TimesAreServed | 4 ticks (two slots), history of 2; one or two edits, a failed call, a crash, a deletion, or a counter at its limit |
| `pull_request` | one process on a lagging cache: AttemptsAccounted, NoneLost, CreatedIsOpened, FinalPhases, Settles (which includes deletion by TTL) | a crash, a failed call or an edit; with and without REST; one check not met, one pull request closed, deletion, TTL |
| `pr_schedule` | HistoryIsHonest, OpenIsRecorded, RunsAccounted, NeverAsleep of a scheduled pull request | 3 ticks, history of 2; a crash, a failed call, an edit, a deletion or a pull request closed |
| `operator` | ObservedIsApplied, QuietMeansApplied, NothingForTheGone, Converges, DeletionEnds | 3 specs, 2 names; two edits, touches or mishaps, or a deletion with a recreation and a mishap |
| `content` | KeepsPromise, ReportedStays, SealedStaysSealed | 4 specs, 2 workers (symmetric), 4 executions, 2 branches, 2 merges |
| `rest_data` | CommittedIsAnswered, StatusIsCurrent | 5 specs of one or two APIs, 6 calls, 2 edits, every response |
| `pr_branch` | violation: a head branch that is there before | no mishap |
| `operator_metrics` | violation: metrics switched off by an edit | 1 edit |
| `content_append` | violation: the append mode of a resource of a GitCommit | 2 executions |
| `schedule_history` | violation: HistoryKept on a cache that lags | 3 ticks, a reconcile on an outdated copy, no mishap |

**Why the bounds are enough.** The breaker's limit of 10 is 2: one counted call
leaves it closed, the second trips it. The attempts of an update are 2 in place of
3 or 5: one retry, one exhaustion; two edits exhaust them, and `PushesAccounted`,
`RequestsBounded` and `Mishaps` divide the edits by that number. Two REST APIs give a
first one, a last one and a change of their number in both directions. Mishaps happen
at any point. A slot every second tick lets a reconcile end before, on and after its
next slot. In `schedule` the immediate run and two slots make three records, so a
history of 2 is cut; in `pr_schedule` a slot that is executed again does.
What the constraints of the MC modules leave out keeps the runs within minutes:
- `TwoThings` of `single`: two edits, crashes and failed calls together;
- `OneDisturbance` of `schedule`: a counter at its limit, edits, a failed call, a crash or
  a deletion. Edits are done by the first slot, and two of them both leave the schedule on;
- `UntilServed` of `schedule`: once the first slot is served, a run with a failed call or a
  deletion ends with that slot, and only a resource nothing has happened to, whose
  executions have all committed, is followed to the end of the clock;
- `OneMishap` of `pr_schedule`: one of crash, failed call, edit, deletion and closing;
- `TwoThings` of `operator`: two of edits, touches and mishaps, of which only a
  mishap comes along with a deletion. No fair action changes what the constraints
  look at, so liveness is not cut short by them. The one exception is `UntilServed`: it
  looks at `Current.last` and at the clock, but cuts only behaviours in which the slot
  that `TimesAreServed` speaks of is served.

`NeverAsleep` says that a resource that nothing will wake has met two mishaps
(MaxRetries edits count as one, since they exhaust an update; for a scheduled pull
request only crashes and failed calls count). The runs have fewer, so
in them it says that nobody falls asleep, which its mutants break; that two are needed
in every instance is proved. What safety properties say of larger instances, of several
replicas and of longer runs is proved where 5 says so.
In `content`, four executions let two resources write one branch, each twice, with
a merge before, between or after; the specs between them use each strategy, mode and
both kinds, encrypted and not. In `rest_data` six calls are three executions of two
APIs, one before, one between and one after the two edits.

**Deadlock** is not checked, because every system here may really stop: a deleted
object, the clock at its bound, a breaker that requeues nothing, all executions done.
That nobody is left waiting is the matter of the liveness properties and of
`NeverAsleep` and `QuietMeansApplied`, which speak of the states in which nothing
will wake the controller.

**Fairness.** A worker that can take a step takes one (goroutines are
scheduled and every call has a timeout or an answer), a watch event arrives, a
delayed add ends, the clock goes on. Nothing is assumed of users, crashes,
failures, nor of the outcome of a call: the choice between an answer and an error
is inside a step. The resync of the informer, every ten hours, is not fair:
`Converges` and `DeletionEnds` hold without it.

## 4. Where the code disagrees with its comments and documents

Four runs exhibit them:

- `pr_branch`: when the head branch is on the remote already, the push is refused,
  the refusal is taken for success and the pull request proposes the work of
  somebody else (or, after an edit, an older state of the spec). The document on
  errors says of a push that is not fast-forward that the operator "automatically
  handles this by pulling latest changes before pushing" (`error-handling.md:94`):
  nothing is pulled.
- `operator_metrics`: the metrics Service is created as `<name>-metrics` and deleted
  as `<name>-metrics-service`, so metrics that are switched off leave it behind.
- `content_append`: processResourceRef of GitCommit returns files without a
  WriteMode, so `append` changes the path of a resource file but never appends.
- `schedule_history`: "ExecutionHistory keeps track of the last N executions", but
  updateScheduleStatus (1165) writes the history it read first over the fresh one, so a
  published record is lost when the cache was behind at the first read and caught up at
  the second. `schedule` checks `HistoryKept` for current reads. What holds on any cache
  is `LossIsStale`, which is proved: only a status update loses records, and what it writes
  instead is a history the resource had before. On a cache that lags through all attempts
  nothing is overwritten, but every attempt of a record conflicts and the record is lost.

Others were met while modelling; the models contain the behaviour, and no run is
spent on them:

- `errors.IsConflict` after updateStatus (`gitcommit_controller.go:99`) is never true,
  because updateStatus retries conflicts and reports exhaustion with a plain error.
  The back-off is dead code, and two replicas both go on to commit.
- "NextScheduledTime is when the resource will be executed next": under `@every` the
  waiting branch (949-953) replaces a time that has not come by a later one, so a
  resource that is touched more often than its period never runs. `NextTimeKept` is
  checked for a cron line.
- recordExecution (1105) drops the REST statuses of the execution, so CallCount stays
  what it was and the breaker of a scheduled resource never trips or, if it had
  tripped before, never closes.
- A breaker whose status write fails leaves the resource Running for good (`Stuck`).
- "When nil the controller leaves replicas unmanaged" (`gitchangeoperator_types.go:12`):
  a nil replicaCount is set to 1 (`gitchangeoperator_controller.go:176, 263`).
- "The manager always ensures it exists" (`gitchangeoperator_controller.go:61`): a
  Deployment, Role, RoleBinding, ServiceMonitor or Ingress that others remove comes
  back with the next reconcile, and none is due before an edit or a resync;
  `QuietMeansApplied` is stated with this exception.
- Without the kind ServiceMonitor in the cluster every reconcile fails at it, even
  with metrics switched off: no Ingress is made and the status is never Ready.
  `Converged` says so.
- "Changes to the CR spec are reconciled automatically" (`docs/reference/crd-spec.md:145`):
  the pull policy is written when the Deployment is created
  (`gitchangeoperator_controller.go:181-184, 228`) and not patched (261-267), so an edit of
  it never arrives although the status becomes Ready for its generation. `Applied` leaves
  it out; `ObservedIsApplied` says that it is the policy of some spec of the resource the
  Deployment was made for (`PullOfItsOwner`). interval and scrapeTimeout of the
  ServiceMonitor (`crd-spec.md:55-56`) are read by no helper (494-505); they are no field of
  the model, and the properties say nothing about them.
- A GitCommit does not pull before it pushes either (`error-handling.md:94`). It makes its
  branch from HEAD of the clone (194-230) and pushes once (345), so a second commit to a
  branch that is on the remote is refused, and the resource Failed, until the first is
  merged; so is any commit after which somebody else has moved a branch. `CommitContent`
  has this (`PushRefused`).
- The patch of the Deployment is computed against a cached copy: what others changed
  meanwhile may stay although the status becomes Ready (`drift` in `ObservedIsApplied`).
- An API whose ResponseParsing is removed by an edit keeps the output of the older
  spec in its entry, and a file made of it commits that output: `CommittedIsAnswered`
  asks for ResponseParsing. After an error of the API, ConditionMet stays what it
  was: `StatusIsCurrent` is about resources that have not failed.
- Two appends of a GitCommit to one encrypted file put two age outputs behind each
  other, which nothing decrypts; an append of a PullRequest to an encrypted file reads
  the plain path, so the encrypted text is lost. `content` has one encrypted append,
  by a spec that names the `.age` file itself.
- `main` and `master` stand for whatever branch HEAD names (187-228), although the
  documentation gives `main` as the name of a branch (`docs/reference/crd-spec.md:250`).
- parseRepository of PullRequest slices beyond the text for a repository path of fewer
  than four characters, and the reconcile panics (`pullrequest_controller.go:489`).

Two more behaviours are stated inside properties that hold. A crash or a lost answer
after a push makes the push again (`PushesAccounted`). A pull request whose Created
update failed is opened again, refused by GitHub, and the resource says Failed without
the number (`NoneLost`).

## 5. Proofs

All theorems are proved for every value of the constants under the named ASSUMEs of
the modules, which give the constants their types and the limits a value of at least
1. Those with a process count in the table need it as a hypothesis.

| Module | Theorem | States | Processes |
|---|---|---|---|
| `GitCommitProofs` | `Invariance` | `[]IInv` | any |
| | `TypeCorrect` | `[]TypeOK` | any |
| | `CommittedWasPushed` | `[]CommittedIsPushed` | any |
| | `BreakerHolds` | `[](BreakerBound /\ NoOvercount)` | any |
| | `InnerBreakerIsDead` | `[](SlotsFit /\ InnerBreakerIdle)` | any |
| | `ShaIsKept` | `ShaNeverErased` | any |
| | `NobodySleeps` | `[]NeverAsleep` | any |
| | `ImplementsTheLifecycle` | `ImplementsLifecycle` | one, current reads |
| | `PushesBounded` | `[]PushesAccounted` | one, current reads |
| | `RequestsAreBounded` | `[]RequestsBounded` | one, current reads |
| `GitCommitScheduleProofs` | `Invariance`, `TypeCorrect` | `[]IInv`, `[]TypeOK` | any |
| | `HistoryTellsTheTruth` | `[]HistoryIsHonest` | one |
| | `RunsAreAccounted` | `[]RunsAccounted` | one, current reads |
| | `RunsAreRecorded` | `[]RunsRecorded` | one, current reads |
| | `NobodySleeps` | `[]NeverAsleep` | one, current reads |
| | `RecordsAreKept` | `LossIsStale` | any |
| | `NextTimeIsKept` | `NextTimeKept` | one, current reads, a cron line |
| `PullRequestProofs` | `Invariance`, `TypeCorrect` | `[]IInv`, `[]TypeOK` | any |
| | `CreatedWasOpened` | `[]CreatedIsOpened` | any |
| | `SettledForGood` | `FinalPhases` | any |
| | `NobodySleeps` | `[]NeverAsleep` | any |
| | `AttemptsBounded` | `[]AttemptsAccounted` | one |
| | `PullRequestsNotLost` | `[]NoneLost` | one |
| `PullRequestScheduleProofs` | `Invariance`, `TypeCorrect` | `[]IInv`, `[]TypeOK` | any |
| | `HistoryTellsTheTruth` | `[]HistoryIsHonest` | one |
| | `RunsAreAccounted` | `[]RunsAccounted` | one, current reads |
| | `TheOpenOneIsNamed` | `[]OpenIsRecorded` | one, current reads |
| | `NobodySleeps` | `[]NeverAsleep` | any |
| `GitChangeOperatorProofs` | `TypeCorrect` | `[]TypeOK` | any |
| | `NothingIsMadeForTheGone` | `NothingForTheGone` | one |
| | `ObservedMeansApplied` | `[]ObservedIsApplied` | one |
| | `QuietIsApplied` | `[]QuietMeansApplied` | one |
| `CommitContentProofs` | `ReportedForGood` | `[]ReportedStays` | any number of workers |
| | `CommitsHoldTheirSpecs` | `[]BranchesGrown` | any number of workers |
| | `PromiseIsKept` | `[]KeepsPromise` | any number of workers; `PlainAppends` |
| | `SecretsStaySealed` | `[]SealedStaysSealed` | any number of workers; `NoSuffix` |
| `RestDataProofs` | `Invariance` | `[]Inv` | (no processes) |
| | `CommitsAreAnswered` | `[]CommittedIsAnswered` | |
| | `StatusTellsTheLast` | `[]StatusIsCurrent` | |

"One" is the hypothesis `OneProcess`: one manager reconciles, on a cache however old,
which is the chart with `replicaCount: 1` or any number of replicas under
`--leader-elect`. "Current reads" adds `CacheLag = FALSE` (`Ideal`, `OneCurrentProcess`),
the ideal client of the runs that check these properties. The accounts need it: on a
cache that lags a worker may start from an older phase or schedule and push or run again
without any mishap. Where a row says "any", replicas and caches are
arbitrary. `PlainAppends` and `NoSuffix` are conditions on the specs, explained below;
the four specs of `content` meet them, that of `content_append` does not meet the first.

**GitCommit.** The properties speak of the stored versions, while what is stored next
is in a worker's hands. `Sound` says of one copy that its CommitSHA names a push, that
Committed has one, and that its counters keep to the limit and to the requests made.
`IInv` says it of every version and every local copy; as pushes and requests only
grow, a copy that is sound stays sound, however old it is (`SoundGrows`), and merging
two sound copies gives a sound one (`MergeSound`). `HoldsSha` says that a worker
writing Committed holds a CommitSHA, `CallsLeft` that the APIs still to be called are
below the limit, which is why the second breaker never fires (`NoOvercount`, `SlotsFit`
and `InnerBreakerIdle` are proved and not run). `ShaIsKept` rests on what a put may
replace: the current version, whose CommitSHA the merge keeps (`PutKeepsSha`).

**No lost wake-up.** `NeverAsleep` of the two one-shot paths is what `Settles` rests on
without fairness, and is proved for any number of processes on any caches where `Settles`
is run for one: a worker with nothing in hand has the key in its queue, a delay
running or an event still to come, or the resource is gone (`Alert`), or for GitCommit
`Stuck`. It is proved and not run. An accepted write is an event for every process
(`AwakeWritten`), since a cache never is ahead of the store, and what is gone stays gone
(`GoneIsLast`). A refused or failed update comes back by itself, all but that of the
breaker; for it `WatchOK` says that a put which will be refused leaves an event, and that
without one on its way the breaker has looked at the very counters that are stored
(`SeesTheLimit`). So only a failed call can lose that wake-up, and it leaves the resource
Running at its limit.

**The refinement.** With one process and current reads the stored phase is the one the
worker's next status write is made for: `InStep` says that it is Running while the
worker is at the REST APIs, the secret or git, and one of `PhasesBefore(want[p])`
while it writes, or the resource is gone. Start establishes it because `Begin` looks at
the current phase, a conflict keeps it because users do not write phases, and every
failed update leaves. Then a put is `Begin` or `Conclude` of the lifecycle (Committed by
`HoldsSha` and `Sound`), a push is `Push`, and all else stutters.

**The account of the pushes.** Edits only cost a push when MaxRetries of them use up one
status update. `Met` counts those that the update in hand has met (its tries, and one
more when its put is bound to be refused, `Behind`), `Spare` is what mishaps are left:
crashes, failed calls and the other edits divided by MaxRetries. `AccountOK` says that
pushes never exceed `1 + Spare`, and not `Spare` while a push is still `Due`. A conflict
moves an edit from the rest to `Met`; an update that gives up returns MaxRetries of them.

**The account of the requests.** One execution asks each API at most once and adds one to
the counter of the first, so `apiCalls` is at most the number n of APIs times the
executions, plus those `Made` in the execution in hand. `Executions` of them are paid for
by MaxCalls for each edit that has not yet been used to start the counters again
(`Resets`, `Outdated`: that takes another number of APIs), by the published count, and by
`Spare` for the counts that mishaps lost. The breaker lets an execution begin only with
`FirstCount` below MaxCalls (`HandOK`), and a resource that has settled makes no further
request, so its account only has to stay within the bound itself. An edit may widen n
(`RequestsWidened`).

**The schedule.** `IInv` has `HistoryOK` of every version and every local copy, and a
worker that records a commit holds its CommitSHA (`Recording`). The order of a history
needs `OrderOK`: histories are ordered, and the commit that is to be recorded is newer
than every one in every version. That holds for one process only, since another one
could record a later commit first; it holds on caches however old.

**The records.** `RecordsAreKept` asks nothing of caches and processes. `HandsKnown` is its
invariant: the history in the hands of a worker that publishes a status is that of a
version, the one Reconcile has read (`WhoMoves`), and versions stay (`VersionsStay`). A put
is accepted only over the current version, so what it stores (`WrittenHistory`) has the
current history, the current history with a record in front (`RecordedTail`), or, for
updateScheduleStatus, the one in hand.

**The accounts of the schedules.** Both modules count a run against the slot it fills as
soon as the next time is published, and until then it is `Executing`: `RunsOK` is `runs
<= Slots + Spare`, or the published time's slot and one more. `ExecutionOK` is why that
is enough: a run begins at or after the time that is stored. `RecordsOK` does the same
with the records and `Unrecorded`. `HandOK` ties what an update is about to publish to
what is stored, and every put that is accepted `Publishes` what fits the accounts.
`LineOK` says for a cron line that a published time is on the line, so that the waiting
branch publishes only where no time is (`NextTimeKept`). For `NeverAsleep`, `AwakeOK`
says that a run either has an event on its way (`Alert`) or repeats one that a mishap has
ended, so that it takes a second mishap to fall asleep. In `PullRequestSchedule` this
holds for any number of processes: `PublishOK` says that no version, however old, makes a
resource that ran look as if it had not, and `QuietOK` that a worker for which nothing is
on its way has read the current version, so that both writes that end its run are events,
and two failed calls are needed to lose both. `OpenIsRecorded` follows from `RecordsOK`
there: without a mishap the last pull request is `InHand` or `Named` by the history.

**PullRequest.** `UnsettledCopies` is what makes phases final: the copy in a worker's
hands is of an unsettled version, and a put is only accepted on top of that very
version. With two replicas more attempts than mishaps are possible, since each may put
Running over the other's; with one, `OneAttemptEach` says that the one attempt too many
is under way on the current version or has settled it (`Covered`). `NumberIsKept` says
where the number of an opened pull request is while nothing has gone wrong.

**CommitContent, the branches.** `WorkersOK` types the workers: one that is about to push
holds the commit of its own execution. A push leaves its branch with the clone and
one commit, and the default branch as it was cloned (`PushedOK`), and an accepted push
or a merge by fast-forward takes no commit away (`PushedGrows`, `MergedOK`,
`OnRemoteStays`).

**CommitContent, the files.** What a commit holds is computed by folds: over the entries
of a spec (`FlattenSeq`), over their files (`TreeAfter`) and over the items of a file
(`Text`). The induction they need is `AllNumbers`: a set of numbers that has 0 and every
successor is `Nat`, since the least number outside it, which the well-founded order of the
numbers gives (`WFMin`), cannot exist. With it the recursive function of a fold exists
(`FoldExists`) and is a chain of typed values, one per file (`FlattenChain`, `TreeChain`,
`PromiseChain`). `Written` is one file: its target gets one more item, or what was there is
encrypted together with the new text. The inductive invariant `ContentOK` says that
every branch and every clone is `Grown`, that is each commit is `TreeAfter` of the one
before it, and that no text is newer than the executions begun (`Below`), a clone's older
than the execution in it. That is what makes the number of an execution its own text:
nothing of it is in the tree it starts from (`Fresh`).

- `SecretsStaySealed`: one file of a spec with encryption puts the new text into a sealed
  item, unless its path ends in `.age` (`WriteFileHidden`). `NoSuffix` says that no name
  and no key ends so by itself: a ConfigMap key that does would be written in the clear
  to a file that the spec does not name.
- `PromiseIsKept`: reading the tree after one file is one step of what is promised
  (`WriteFileReads`), along the files (`TreeAfterReads`) and the branch (`BranchClear`: what
  is appended to holds nothing sealed). `PlainAppends` leaves out what section 4 lists, where
  the code does not keep the promise: append to a field of a GitCommit (the run
  `content_append`), to a file that is encrypted, or to the encrypted form of another.

**GitChangeOperator.** For one process on a cache however old, in layers.
`GuardOK`: the resource whose copy is in hand is still there, because it was read with
its finalizer, which only this worker removes and not before it has read the deletion
(`HandsOK`); what it may read next is no different (`SightOK`). A resource that is
created again has another `uid`, and its copy is not taken for the old one.
`GenerationOK`: no version is newer than the current one, one generation has one spec,
and once the current generation is observed neither the copy in hand nor any version
that may still be read is of an older one (`NewestOK`, `GraspOK`). `ProgressOK`: the kinds whose calls come
before the present one are as the spec in hand says (`Fulfilled`), what others changed
apart, and `Clean`, what does not exist leaves nothing behind. With them the status write
is made for a spec that is applied. `PullOK` ties the pull policy of the Deployment to a
version of its owner. `CalmOK`: while nothing is on its way to the worker, it
works on the current version, and a ServiceAccount or Service that others removed is
still ahead of it.

**RestData.** `Agrees` is the entry of one API against its answer in this execution: the
name, ConditionMet, and the output but for one that an older spec has left. `WorkOK` says
it of all APIs that have answered, and that `allMet` looks at all of them. A file is then
the same function of the entries as `Expected` is of the answers.

## 6. Only model-checked

- Liveness under fairness (`Settles`, `ExpiredIsDeleted`, `TimesAreServed`, `Converges`,
  `DeletionEnds`): the prover does not reach fairness and ENABLED. That no wake-up is
  lost on the way is proved (`NobodySleeps`, `QuietIsApplied`).
- The four violations of section 4, which are counterexamples.
- `HistoryKept`, which needs current reads; what holds of it on any cache is proved
  (`RecordsAreKept`).

All other properties of the runs are theorems, those with hypotheses as the table says.

## 7. Not modelled

- Metrics: counters that are only written; nothing reads them.
- `main.go`: flag parsing and wiring; what it decides (a cached client, no leader
  election by default) is a constant of the models.
- API types and generated deep copies: the status types are the records of the models.
  The copies are what makes a worker's object its own, and each `obj[p]` is.
- Helm chart, manifests and documents, quoted where the code disagrees with them.
- Libraries behind the code: the cryptography of age, the CEL language (an expression
  yields a value or an error), the cron grammar (a valid or an invalid schedule), the
  git protocol (a push is accepted, refused, or accepted without an answer).
- How texts are put together: commit messages, pull request bodies, JSON that is
  indented or parsed again (outputFormat sees the data as JSON gives them back).
- Several custom resources of one controller at once: the controllers keep no state
  between keys, so resources only meet on the git remote, which `CommitContent` has.

## 8. Plan

1. The schedules on a cache that lags and with two replicas: which bounds on runs
   survive when outdated reads count as mishaps, checked first and then proved.
2. `GitChangeOperator` with two replicas (the default of the documentation without
   leader election): whether `NothingForTheGone` survives there, since another process may
   take the finalizer away, and what can still be said of objects left behind.
3. The one-shot PullRequest with several replicas. No account of the attempts exists there:
   two processes may put Running over each other's put for ever, each refused when it
   wants to settle the resource, so neither `AttemptsAccounted` nor `Settles` can hold.
   What can be said is how often one process may be refused for each put of another.
