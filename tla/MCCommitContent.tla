-------------------------- MODULE MCCommitContent ---------------------------
(***************************************************************************)
(* CommitContent for TLC.                                                  *)
(***************************************************************************)
EXTENDS CommitContent, TLC

CONSTANTS w1, w2

TwoWorkers == {w1, w2}

TwoBranches == {"main", "feature"}

Entry(strategy, path, mode) ==
    [strategy |-> strategy, path |-> path, mode |-> mode, key |-> "k", file |-> ""]

Job(kind, branch, encrypt, entries) ==
    [kind |-> kind, branch |-> branch, encrypt |-> encrypt, entries |-> entries]

(* A log that is appended to twice in one commit, and a field.             *)
Log ==
    Job("GitCommit", "main", FALSE,
        <<Entry("file", <<"a">>, "append"), Entry("file", <<"a">>, "append"),
          Entry("single-field", <<"b">>, "overwrite")>>)

(* Encrypted files, one of which is encrypted already.                     *)
Secrets ==
    Job("GitCommit", "feature", TRUE,
        <<Entry("file", <<"a">>, "overwrite"), Entry("dump", <<"b">>, "overwrite"),
          Entry("file", <<"c", ".age">>, "append")>>)

(* A pull request that adds to the log, by a file and by a resource.       *)
Proposal ==
    Job("PullRequest", "feature", FALSE,
        <<[Entry("single-field", <<"a">>, "append") EXCEPT !.file = "a"],
          Entry("fields", <<"b">>, "overwrite")>>)

(* A pull request with encrypted files.                                    *)
SecretProposal ==
    Job("PullRequest", "feature", TRUE,
        <<Entry("file", <<"a">>, "overwrite"), Entry("dump", <<"b">>, "overwrite")>>)

FourJobs == {Log, Secrets, Proposal, SecretProposal}

(* The example of the documentation: a field of a ConfigMap is appended.   *)
LogCollection ==
    Job("GitCommit", "main", FALSE, <<Entry("single-field", <<"a">>, "append")>>)

OnlyLogCollection == {LogCollection}

Symmetry == Permutations(TwoWorkers)
=============================================================================
