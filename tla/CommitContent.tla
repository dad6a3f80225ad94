--------------------------- MODULE CommitContent ----------------------------
(***************************************************************************)
(* What a commit holds and which branch takes it: performGitCommit and     *)
(* processResourceRef (src/controllers/gitcommit_controller.go), the same  *)
(* part of createPullRequest (src/controllers/pullrequest_controller.go),  *)
(* and ShouldEncryptFile and GetEncryptedFilePath                          *)
(* (src/pkg/encryption/age.go).  Resources of both kinds work on one       *)
(* repository at the same time, each in a clone of its own.                *)
(*                                                                         *)
(* An execution writes one piece of text, its number, wherever the spec    *)
(* asks for text of a file, a Kubernetes resource or a REST API.  A path   *)
(* is the sequence of its parts: <<"a", "k">> is a/k, <<"a", ".age">> is   *)
(* a.age.  A branch is the sequence of its commits.                        *)
(***************************************************************************)
EXTENDS Naturals, Sequences, FiniteSets, SequencesExt

CONSTANTS
    Workers,        \* executions that may be under way at once
    Jobs,           \* the specs: a set of JobType
    DataKeys,       \* keys of a referenced ConfigMap
    Names,          \* parts of paths
    Branches,       \* branches of the remote
    Default,        \* the branch that HEAD of the remote names
    MaxRuns,        \* bound: executions
    MaxOthers       \* bound: what others do on the remote

Ext == ".age"

(* An entry of spec.files or spec.resourceRefs.  strategy is "file" for the*)
(* first, the strategy of the output for the others.                       *)
EntryType ==
    [strategy: {"file", "dump", "fields", "single-field"},
     path: Seq(Names \cup {Ext}),
     mode: {"overwrite", "append"},
     key: DataKeys, file: Names \cup {""}]      \* fieldRef

JobType ==
    [kind: {"GitCommit", "PullRequest"},
     branch: STRING,            \* spec.branch, spec.headBranch
     encrypt: BOOLEAN,
     entries: Seq(EntryType)]

ASSUME ContentAssumption ==
    /\ Jobs \subseteq JobType /\ Jobs # {}
    /\ \A j \in Jobs : \A i \in DOMAIN j.entries : Len(j.entries[i].path) > 0
    /\ IsFiniteSet(DataKeys)
    /\ Default \in Branches
    /\ MaxRuns \in Nat
    /\ MaxOthers \in Nat

VARIABLES
    remote,     \* remote[b]: the commits of branch b
    pc,         \* pc[w]: the step that w is about to make
    job,        \* job[w]: the spec of the resource that w executes
    run,        \* run[w]: the number of the execution
    clone,      \* clone[w]: the default branch as it was cloned
    commit,     \* commit[w]: the commit that was made in the clone
    runs,       \* executions begun
    reported,   \* executions of a GitCommit that ended without an error
    others      \* what the bound counts

vars == <<remote, pc, job, run, clone, commit, runs, reported, others>>

-----------------------------------------------------------------------------
(* Content.  An item of a file is plain text or the output of one          *)
(* encryption; the text in it is a sequence of pieces.                     *)

Item == [sealed: BOOLEAN, text: Seq(Nat)]

Plain(k) == <<[sealed |-> FALSE, text |-> <<k>>]>>

Text(c) == FlattenSeq([i \in DOMAIN c |-> c[i].text])

Seal(c) == <<[sealed |-> TRUE, text |-> Text(c)]>>

(* age decrypts a file that is the output of one encryption, nothing more. *)
Readable(c) == Len(c) = 1 \/ \A i \in DOMAIN c : ~c[i].sealed

ShouldEncryptFile(path, j) == j.encrypt /\ Last(path) # Ext

(* GetEncryptedFilePath for a file that is to be encrypted.                *)
Target(path, j) == IF ShouldEncryptFile(path, j) THEN Append(path, Ext) ELSE path

(* Mutant of Sealed: encryption is forgotten.                              *)
SealedNot(c, path, j) == c

Sealed(c, path, j) == IF ShouldEncryptFile(path, j) THEN Seal(c) ELSE c

-----------------------------------------------------------------------------
(* The files of an entry, in the order of their writing: the path, and the *)
(* mode in which it is written.                                            *)

WrittenTo(path, mode) == [path |-> path, mode |-> mode]

KeyFiles(path, mode) ==
    [i \in DOMAIN SetToSeq(DataKeys) |-> WrittenTo(Append(path, SetToSeq(DataKeys)[i]), mode)]

(* processResourceRef of GitCommit: the files get no WriteMode.            *)
CommitRefFiles(e) ==
    CASE e.strategy = "dump" -> <<WrittenTo(e.path, "")>>
      [] e.strategy = "fields" -> KeyFiles(e.path, "")
      [] e.strategy = "single-field" ->
            <<WrittenTo(IF e.mode = "append" THEN e.path
                        ELSE Append(e.path, IF e.file # "" THEN e.file ELSE e.key), "")>>

(* processResourceRef of PullRequest; the caller asks the strategy for the *)
(* mode.                                                                   *)
PullRequestRefFiles(e) ==
    CASE e.strategy = "dump" -> <<WrittenTo(Append(e.path, ".yaml"), e.mode)>>
      [] e.strategy = "fields" -> KeyFiles(e.path, e.mode)
      [] e.strategy = "single-field" ->
            <<WrittenTo(IF e.file # "" THEN Append(Front(e.path), e.file) ELSE e.path,
                        e.mode)>>

(* Mutant of Files: the mode of a file is not looked at.                   *)
FilesOverwritten(e, j) ==
    IF e.strategy = "file" THEN <<WrittenTo(e.path, "overwrite")>>
    ELSE IF j.kind = "GitCommit" THEN CommitRefFiles(e) ELSE PullRequestRefFiles(e)

Files(e, j) ==
    IF e.strategy = "file" THEN <<WrittenTo(e.path, e.mode)>>
    ELSE IF j.kind = "GitCommit" THEN CommitRefFiles(e) ELSE PullRequestRefFiles(e)

JobFiles(j) == FlattenSeq([i \in DOMAIN j.entries |-> Files(j.entries[i], j)])

(* The paths that some job reads or writes.                                *)
Paths ==
    UNION {UNION {{f.path, Append(f.path, Ext)} : f \in ToSet(JobFiles(j))} : j \in Jobs}

EmptyTree == [path \in Paths |-> <<>>]

(* A file of a GitCommit is encrypted by itself and then put behind what   *)
(* the target has; a file of a PullRequest is put behind what the plain    *)
(* path has and encrypted together with it.                                *)
WriteFile(t, f, j, k) ==
    LET target == Target(f.path, j)
        new == IF j.kind = "GitCommit"
               THEN (IF f.mode = "append" THEN t[target] ELSE <<>>)
                    \o Sealed(Plain(k), f.path, j)
               ELSE Sealed((IF f.mode = "append" THEN t[f.path] ELSE <<>>) \o Plain(k),
                           f.path, j)
    IN  [t EXCEPT ![target] = new]

(* The work tree after all entries.                                        *)
TreeAfter(t, j, k) ==
    FoldLeft(LAMBDA tree, f : WriteFile(tree, f, j, k), t, JobFiles(j))

-----------------------------------------------------------------------------
(* Branches.                                                               *)

Commits == [job: Jobs, run: Nat, tree: [Paths -> Seq(Item)]]

NoCommit == [job |-> CHOOSE j \in Jobs : TRUE, run |-> 0, tree |-> EmptyTree]

HeadTree(b) == IF b = <<>> THEN EmptyTree ELSE Last(b).tree

(* "", "main" and "master" of a GitCommit stand for the branch that was    *)
(* cloned; any other branch is created in the clone from its head.         *)
BranchOf(j) ==
    IF j.kind = "GitCommit" /\ j.branch \in {"", "main", "master"} THEN Default
    ELSE j.branch

ASSUME BranchAssumption == \A j \in Jobs : BranchOf(j) \in Branches

(* The branches of w's clone after the commit, all of which are pushed.    *)
Local(w) ==
    [b \in {Default, BranchOf(job[w])} |->
        IF b = BranchOf(job[w]) THEN Append(clone[w], commit[w]) ELSE clone[w]]

(* No branch of the remote would lose a commit.                            *)
Accepts(w) == \A b \in DOMAIN Local(w) : IsPrefix(remote[b], Local(w)[b])

Pushed(w) ==
    remote' = [b \in Branches |-> IF b \in DOMAIN Local(w) THEN Local(w)[b] ELSE remote[b]]

-----------------------------------------------------------------------------
Init ==
    /\ remote = [b \in Branches |-> <<>>]
    /\ pc = [w \in Workers |-> "idle"]
    /\ job = [w \in Workers |-> NoCommit.job]
    /\ run = [w \in Workers |-> 0]
    /\ clone = [w \in Workers |-> <<>>]
    /\ commit = [w \in Workers |-> NoCommit]
    /\ runs = 0
    /\ reported = {}
    /\ others = 0

At(w, c) == pc[w] = c

Clone(w) ==
    /\ At(w, "idle")
    /\ runs < MaxRuns /\ runs' = runs + 1
    /\ pc' = [pc EXCEPT ![w] = "write"]
    /\ \E j \in Jobs : job' = [job EXCEPT ![w] = j]
    /\ run' = [run EXCEPT ![w] = runs']
    /\ clone' = [clone EXCEPT ![w] = remote[Default]]
    /\ UNCHANGED <<remote, commit, reported, others>>

Return(w) ==
    /\ pc' = [pc EXCEPT ![w] = "idle"]
    /\ job' = [job EXCEPT ![w] = NoCommit.job]
    /\ run' = [run EXCEPT ![w] = 0]
    /\ clone' = [clone EXCEPT ![w] = <<>>]
    /\ commit' = [commit EXCEPT ![w] = NoCommit]

Made(w, t) == [job |-> job[w], run |-> run[w], tree |-> t]

Commit(w) ==
    /\ At(w, "write")
    /\ commit' = [commit EXCEPT ![w] =
          Made(w, TreeAfter(HeadTree(clone[w]), job[w], run[w]))]
    /\ pc' = [pc EXCEPT ![w] = "push"]
    /\ UNCHANGED <<remote, job, run, clone, runs, reported, others>>

(* A resource, a field, the output of a REST API or a recipient is missing:*)
(* the error ends the execution before the commit.                         *)
CommitFailed(w) ==
    /\ At(w, "write")
    /\ Return(w)
    /\ UNCHANGED <<remote, runs, reported, others>>

Report(w) ==
    reported' = IF job[w].kind = "GitCommit" THEN reported \cup {run[w]} ELSE reported

PushOk(w) ==
    /\ At(w, "push")
    /\ Accepts(w)
    /\ Pushed(w)
    /\ Report(w)
    /\ Return(w)
    /\ UNCHANGED <<runs, others>>

(* Mutant of PushRefused: the error of a refused push is not returned.     *)
PushRefusedSilently(w) ==
    /\ At(w, "push")
    /\ ~Accepts(w)
    /\ Report(w)
    /\ Return(w)
    /\ UNCHANGED <<remote, runs, others>>

PushRefused(w) ==
    /\ At(w, "push")
    /\ ~Accepts(w)
    /\ Return(w)
    /\ UNCHANGED <<remote, runs, reported, others>>

(* The push fails otherwise, before or after the remote has taken it.      *)
PushFault(w) ==
    /\ At(w, "push")
    /\ \/ UNCHANGED remote
       \/ Accepts(w) /\ Pushed(w)
    /\ Return(w)
    /\ UNCHANGED <<runs, reported, others>>

(* Somebody merges a branch into the default branch by fast-forward, and   *)
(* deletes it or not.                                                      *)
OthersMerge ==
    /\ others < MaxOthers /\ others' = others + 1
    /\ \E b \in Branches \ {Default} :
          /\ IsStrictPrefix(remote[Default], remote[b])
          /\ remote' \in {[remote EXCEPT ![Default] = remote[b]],
                          [remote EXCEPT ![Default] = remote[b], ![b] = <<>>]}
    /\ UNCHANGED <<pc, job, run, clone, commit, runs, reported>>

Next ==
    \/ \E w \in Workers :
          \/ Clone(w) \/ Commit(w) \/ CommitFailed(w)
          \/ PushOk(w) \/ PushRefused(w) \/ PushFault(w)
    \/ OthersMerge

Spec == Init /\ [][Next]_vars

-----------------------------------------------------------------------------
(* What a reader of a tree finds: the text of each file, or that it cannot *)
(* be read.                                                                *)
Unreadable == <<0>>

Reading(t) == [path \in Paths |-> IF Readable(t[path]) THEN Text(t[path]) ELSE Unreadable]

(* What the documentation promises of the write modes: overwrite replaces  *)
(* the text of a file, append puts the new text behind it.                 *)
PromisedFiles(j) ==
    FlattenSeq([i \in DOMAIN j.entries |->
        LET fs == Files(j.entries[i], j)
        IN  [n \in DOMAIN fs |-> [fs[n] EXCEPT !.mode = j.entries[i].mode]]])

Promised(r, j, k) ==
    FoldLeft(LAMBDA x, f : [x EXCEPT ![Target(f.path, j)] =
                                (IF f.mode = "append" THEN @ ELSE <<>>) \o <<k>>],
             r, PromisedFiles(j))

(* The specs for which the code keeps that promise: a file that is asked to*)
(* be appended to is written so, is not encrypted, and is not the encrypted*)
(* form of a file of a spec.                                               *)
PlainAppends ==
    \A j \in Jobs : \A m \in DOMAIN PromisedFiles(j) :
        LET f == JobFiles(j)[m] IN
        PromisedFiles(j)[m].mode = "append" =>
            /\ f.mode = "append"
            /\ ~ShouldEncryptFile(f.path, j)
            /\ \A i \in Jobs : \A n \in DOMAIN JobFiles(i) :
                  LET g == JobFiles(i)[n] IN
                  ShouldEncryptFile(g.path, i) => Target(g.path, i) # f.path

(* Every commit on a branch makes of the commit before it what the write   *)
(* modes of its spec promise, in all its files, and leaves the other files *)
(* alone, whoever pushed in between.                                       *)
KeepsPromise ==
    \A b \in Branches : \A i \in DOMAIN remote[b] :
        LET c == remote[b][i]
            before == HeadTree(SubSeq(remote[b], 1, i - 1))
        IN  Reading(c.tree) = Promised(Reading(before), c.job, c.run)

(* A commit that a GitCommit reports stays on the remote: no later push    *)
(* takes it away, and a push that was refused is not reported.             *)
ReportedStays ==
    \A k \in reported :
        \E b \in Branches : \E i \in DOMAIN remote[b] : remote[b][i].run = k

(* No part of a path and no key of a ConfigMap is taken for the name of a  *)
(* file that is encrypted already.                                         *)
NoSuffix == Ext \notin Names \cup DataKeys

(* The text of a spec with encryption is nowhere in the clear, except in a *)
(* file that the spec itself names as encrypted.                           *)
SealedStaysSealed ==
    \A b \in Branches : \A i \in DOMAIN remote[b] :
        LET c == remote[b][i] IN
        c.job.encrypt =>
            \A path \in Paths : \A n \in DOMAIN c.tree[path] :
                LET item == c.tree[path][n] IN
                c.run \in ToSet(item.text) /\ ~item.sealed
                => /\ Last(path) = Ext
                   /\ \E m \in DOMAIN c.job.entries : c.job.entries[m].path = path
=============================================================================

