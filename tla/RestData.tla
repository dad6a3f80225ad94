------------------------------ MODULE RestData ------------------------------
(***************************************************************************)
(* The data of REST APIs from the answer to the commit:                    *)
(* checkRestAPIConditions, checkSingleRestAPICondition,                    *)
(* processJSONResponse and buildFileContent                                *)
(* (src/controllers/gitcommit_controller.go, repeated in                   *)
(* pullrequest_controller.go) and the evaluator of src/pkg/cel.  The       *)
(* output of an API is kept in the status of the resource, entry by entry, *)
(* and outlives the execution, while the user may edit the spec.           *)
(*                                                                         *)
(* Whether the status is written, and when, is the business of GitCommit,  *)
(* PullRequest and the schedules; here it is written at the end of an      *)
(* execution, or not (recordExecution does not write it).  The circuit     *)
(* breakers are left to GitCommit.                                         *)
(***************************************************************************)
EXTENDS Naturals, Sequences

CONSTANTS
    Names,          \* names of REST APIs
    Specs,          \* the specs the user may apply
    MaxCalls,       \* bound: requests
    MaxEdits        \* bound: edits by the user

(* ResponseParsing, if there is one: which of its expressions are set.     *)
ParsingType == [condition: BOOLEAN, data: BOOLEAN, format: BOOLEAN]
NoParsing == [none |-> TRUE]

ApiType == [name: Names, parsing: ParsingType \cup {NoParsing}]

(* A file that uses REST API data names an API, or "": all of them.        *)
SpecType ==
    [apis: Seq(ApiType), files: Seq(Names \cup {""}), scheduled: BOOLEAN]

ASSUME RestAssumption ==
    /\ "" \notin Names
    /\ Specs \subseteq SpecType
    /\ \A s \in Specs : Len(s.apis) > 0
    /\ MaxCalls \in Nat
    /\ MaxEdits \in Nat

VARIABLES
    spec,       \* the spec that is stored
    phase,      \* status.phase
    statuses,   \* status.restAPIStatuses
    pc,         \* the step the worker is about to make
    job,        \* the spec it works on
    local,      \* the statuses it works on
    api,        \* the API that is next
    allMet,     \* allConditionsMet
    answered,   \* what the answers of this execution gave, API by API
    shown,      \* what they gave when the statuses were written
    calls,      \* requests made
    commits,    \* commits made, with the answers they should hold
    edits       \* what the bound counts

workerVars == <<pc, job, local, api, allMet, answered>>
storedVars == <<phase, statuses, shown>>
vars == <<spec, storedVars, workerVars, calls, commits, edits>>

-----------------------------------------------------------------------------
(* The evaluator.  A response says what each expression makes of it: the   *)
(* condition is true, false or an error (the expression does not compile,  *)
(* or is not Boolean); the data and the format are a text, empty or not,   *)
(* or an error.                                                            *)

Responses ==
    [json: BOOLEAN, condition: {"true", "false", "error"},
     data: {"text", "", "error"}, format: {"text", "", "error"}]

(* An expression that is not set asks nothing of the response.             *)
EvaluateCondition(x, r) ==
    IF ~x.condition THEN "true" ELSE IF ~r.json THEN "error" ELSE r.condition

EvaluateDataExpression(x, r) ==
    IF ~x.data THEN "" ELSE IF ~r.json THEN "error" ELSE r.data

(* The format is made of the data, without a look at the response; without *)
(* a format the data itself is the output.                                 *)
EvaluateOutputFormat(x, data, r) == IF ~x.format THEN data ELSE r.format

(* ProcessResponse: "error", "unmet", or the output, empty or not.  The    *)
(* data are extracted only if the condition is met.                        *)
ProcessResponse(x, r) ==
    LET condition == EvaluateCondition(x, r)
        data == EvaluateDataExpression(x, r)
    IN  CASE condition = "error" -> "error"
          [] condition = "false" -> "unmet"
          [] condition = "true" /\ data = "error" -> "error"
          [] OTHER -> EvaluateOutputFormat(x, data, r)

-----------------------------------------------------------------------------
(* An output is the call that gave it; call 0 stands for no output.        *)
Empty == 0

StatusType == [name: Names \cup {""}, met: BOOLEAN, failed: BOOLEAN, output: Nat]

NewStatus == [name |-> "", met |-> FALSE, failed |-> FALSE, output |-> Empty]

NewStatuses(j) == [i \in DOMAIN j.apis |-> NewStatus]

Init ==
    /\ spec \in Specs
    /\ phase = "Pending"
    /\ statuses = <<>>
    /\ pc = "idle"
    /\ job = spec
    /\ local = <<>>
    /\ api = 1
    /\ allMet = TRUE
    /\ answered = <<>>
    /\ shown = <<>>
    /\ calls = 0
    /\ commits = <<>>
    /\ edits = 0

(* checkRestAPIConditions: the entries are kept if their number fits.      *)
Begin ==
    /\ pc = "idle"
    /\ spec.scheduled \/ phase = "Pending"
    /\ pc' = "call"
    /\ job' = spec
    /\ local' = IF Len(statuses) = Len(spec.apis) THEN statuses ELSE NewStatuses(spec)
    /\ api' = 1
    /\ allMet' = TRUE
    /\ answered' = <<>>
    /\ UNCHANGED <<spec, storedVars, calls, commits, edits>>

Api == job.apis[api]

(* The entry with the name of the API, and nothing else changed.           *)
Named == [local[api] EXCEPT !.name = Api.name]

(* The execution ends: the one-shot path writes phase and statuses.        *)
End(ph, sts) ==
    /\ pc' = "idle"
    /\ IF job.scheduled THEN UNCHANGED storedVars
       ELSE phase' = ph /\ statuses' = sts /\ shown' = answered
    /\ job' = spec /\ local' = <<>> /\ api' = 1 /\ allMet' = TRUE
    /\ answered' = <<>>

(* The next API, or what follows when all have answered.                   *)
GoOn(st, met, output) ==
    /\ local' = [local EXCEPT ![api] = st]
    /\ allMet' = (allMet /\ met)
    /\ answered' = Append(answered, [met |-> met, output |-> output])
    /\ api' = api + 1
    /\ pc' = IF api < Len(job.apis) THEN "call" ELSE "commit"
    /\ UNCHANGED <<job, storedVars>>

(* Mutant of Fail: an API that fails is passed over.                       *)
FailPassedOver(st) == GoOn(st, TRUE, Empty)

(* An error of one API ends the execution; ConditionMet and FormattedOutput*)
(* stay as they were.                                                      *)
Fail(st) == End("Failed", [local EXCEPT ![api] = st])

Call ==
    /\ pc = "call"
    /\ calls < MaxCalls /\ calls' = calls + 1
    /\ UNCHANGED <<spec, commits, edits>>

(* The request cannot be made: its secret is missing.                      *)
NoRequest ==
    /\ pc = "call"
    /\ Fail(Named)
    /\ UNCHANGED <<spec, calls, commits, edits>>

(* No answer, or its body cannot be read.                                  *)
NoAnswer == Call /\ Fail([Named EXCEPT !.failed = TRUE])

(* The status code is not an expected one.                                 *)
CodeRefused ==
    Call /\ GoOn([Named EXCEPT !.met = FALSE, !.failed = TRUE], FALSE, Empty)

(* Mutant of Unmet: ConditionMet is not reset.                             *)
UnmetNotReset(st) == GoOn([st EXCEPT !.failed = FALSE], FALSE, Empty)

(* The output of an earlier answer stays in the entry.                     *)
Unmet(st) == GoOn([st EXCEPT !.met = FALSE, !.failed = FALSE], FALSE, Empty)

Met(st) == GoOn([st EXCEPT !.met = TRUE, !.failed = FALSE], TRUE, Empty)

MetWith(st, output) ==
    GoOn([st EXCEPT !.met = TRUE, !.failed = FALSE, !.output = output], TRUE, output)

(* The status code is expected.  Without ResponseParsing that is enough,   *)
(* and the output of the entry is left alone.                              *)
Answer(r) ==
    /\ Call
    /\ IF Api.parsing = NoParsing THEN Met(Named)
       ELSE LET result == ProcessResponse(Api.parsing, r) IN
            CASE result = "error" -> Fail([Named EXCEPT !.failed = TRUE])
              [] result = "unmet" -> Unmet(Named)
              [] result = "" -> MetWith(Named, Empty)
              [] result = "text" -> MetWith(Named, calls')

Earliest(I) == {i \in I : \A j \in I : i <= j}

(* buildFileContent: the outputs that are joined, in the order of their    *)
(* entries; of the entries with the name of one API, the first.            *)
FileContent(f, sts) ==
    LET used == {i \in DOMAIN sts : /\ sts[i].output # Empty
                                    /\ IF f = "" THEN sts[i].met ELSE sts[i].name = f}
    IN  [i \in (IF f = "" THEN used ELSE Earliest(used)) |-> sts[i].output]

Skip ==
    /\ pc = "commit"
    /\ ~allMet
    /\ End("Pending", local)
    /\ UNCHANGED <<spec, calls, commits, edits>>

Contents == [i \in DOMAIN job.files |-> FileContent(job.files[i], local)]

(* performGitCommit and createPullRequest: a file without data is an error,*)
(* and so is much else.                                                    *)
Commit ==
    /\ pc = "commit"
    /\ allMet
    /\ \A i \in DOMAIN Contents : Contents[i] # <<>>
    /\ commits' = Append(commits,
          [job |-> job, contents |-> Contents, answered |-> answered])
    /\ End("Done", local)
    /\ UNCHANGED <<spec, calls, edits>>

CommitFailed ==
    /\ pc = "commit"
    /\ allMet
    /\ End("Failed", local)
    /\ UNCHANGED <<spec, calls, commits, edits>>

UserEdit ==
    /\ edits < MaxEdits /\ edits' = edits + 1
    /\ spec' \in Specs \ {spec}
    /\ UNCHANGED <<storedVars, workerVars, calls, commits>>

Next ==
    \/ Begin
    \/ NoRequest \/ NoAnswer \/ CodeRefused \/ \E r \in Responses : Answer(r)
    \/ Skip \/ Commit \/ CommitFailed
    \/ UserEdit

Spec == Init /\ [][Next]_vars

-----------------------------------------------------------------------------
(* What the answers of an execution give for a file: those of all its APIs *)
(* in their order, or that of the first API of the name with an output.    *)
Expected(f, c) ==
    LET used == {i \in DOMAIN c.answered : /\ c.answered[i].output # Empty
                                           /\ f \in {"", c.job.apis[i].name}}
    IN  [i \in (IF f = "" THEN used ELSE Earliest(used)) |-> c.answered[i].output]

Parsed(j) == \A i \in DOMAIN j.apis : j.apis[i].parsing # NoParsing

(* "the file will contain the API response data": a commit is made only    *)
(* when every API of the spec has answered in this execution and met its   *)
(* condition, and its files hold these answers and no older ones, however  *)
(* the APIs were renamed, reordered or replaced since, unless an API has   *)
(* no ResponseParsing: its entry keeps the output an older spec has left.  *)
CommittedIsAnswered ==
    \A k \in DOMAIN commits : LET c == commits[k] IN
        /\ Len(c.answered) = Len(c.job.apis)
        /\ \A i \in DOMAIN c.answered : c.answered[i].met
        /\ Parsed(c.job) =>
              \A n \in DOMAIN c.job.files : c.contents[n] = Expected(c.job.files[n], c)

(* "ConditionMet indicates if the CEL condition expression evaluated to    *)
(* true": of a resource that has not failed the status says so of the last *)
(* answer of each API, and an output that is shown as met is of that       *)
(* answer.  (An API that fails leaves ConditionMet as it was.)             *)
StatusIsCurrent ==
    phase \in {"Pending", "Done"} =>
        \A i \in DOMAIN statuses :
            /\ statuses[i].met = shown[i].met
            /\ statuses[i].met /\ statuses[i].output # Empty
               => shown[i].output \in {statuses[i].output, Empty}

-----------------------------------------------------------------------------
(* The inductive invariant.                                                *)

AnswerType == [met: BOOLEAN, output: Nat]

(* The entry st of API a is that of the answer ans, but for an output that *)
(* an older execution has left.                                            *)
Agrees(st, ans, a) ==
    /\ st.name = a.name
    /\ st.met = ans.met
    /\ ans.output \in {st.output, Empty}
    /\ ans.met /\ a.parsing # NoParsing => st.output = ans.output

(* The entries of the APIs that have answered agree with the answers, and  *)
(* allMet looks at all of them.                                            *)
WorkOK ==
    pc # "idle" =>
        /\ local \in Seq(StatusType) /\ Len(local) = Len(job.apis)
        /\ answered \in Seq(AnswerType) /\ Len(answered) + 1 = api
        /\ pc = "call" => api <= Len(job.apis)
        /\ pc = "commit" => api = Len(job.apis) + 1
        /\ \A i \in 1 .. Len(answered) :
              Agrees(local[i], answered[i], job.apis[i]) /\ (allMet => answered[i].met)

IInv ==
    /\ spec \in Specs /\ job \in Specs
    /\ pc \in {"idle", "call", "commit"}
    /\ statuses \in Seq(StatusType)
    /\ api \in Nat /\ calls \in Nat
    /\ allMet \in BOOLEAN
    /\ WorkOK
    /\ StatusIsCurrent /\ CommittedIsAnswered
=============================================================================
