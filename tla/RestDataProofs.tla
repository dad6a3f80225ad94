--------------------------- MODULE RestDataProofs ---------------------------
(***************************************************************************)
(* Theorems about RestData, for every value of its constants: any specs    *)
(* with any number of APIs and files, any names, any number of executions  *)
(* and edits.                                                              *)
(***************************************************************************)
EXTENDS RestData, TLAPS

(* The commits are over some set; nothing is asked of it.                  *)
Listed == \E S : commits \in Seq(S)

Inv == IInv /\ Listed

-----------------------------------------------------------------------------
(* Specs, entries and answers.                                             *)

LEMMA SeqElements ==
  ASSUME NEW S, NEW s \in Seq(S)
  PROVE  Len(s) \in Nat /\ DOMAIN s = 1 .. Len(s) /\ \A i \in 1 .. Len(s) : s[i] \in S
  OBVIOUS

LEMMA EntrySet ==
  ASSUME NEW S, NEW s \in Seq(S), NEW i \in 1 .. Len(s), NEW e \in S
  PROVE  [s EXCEPT ![i] = e] \in Seq(S)
  OBVIOUS

LEMMA SpecsType ==
  ASSUME NEW j \in Specs
  PROVE  /\ j.apis \in Seq(ApiType) /\ Len(j.apis) \in Nat \ {0}
         /\ j.files \in Seq(Names \cup {""})
         /\ DOMAIN j.apis = 1 .. Len(j.apis)
         /\ \A i \in 1 .. Len(j.apis) : /\ j.apis[i].name \in Names
                                        /\ j.apis[i].parsing \in ParsingType \cup {NoParsing}
  <1>1. j \in SpecType /\ Len(j.apis) > 0
    BY RestAssumption
  <1>2. j.apis \in Seq(ApiType) /\ j.files \in Seq(Names \cup {""})
    BY <1>1 DEF SpecType
  <1>3. /\ Len(j.apis) \in Nat /\ DOMAIN j.apis = 1 .. Len(j.apis)
        /\ \A i \in 1 .. Len(j.apis) : j.apis[i] \in ApiType
    BY <1>2, SeqElements
  <1>4. ASSUME NEW i \in 1 .. Len(j.apis)
        PROVE  j.apis[i].name \in Names /\ j.apis[i].parsing \in ParsingType \cup {NoParsing}
    BY <1>3 DEF ApiType
  <1>5. Len(j.apis) \in Nat \ {0}
    BY <1>1, <1>3
  <1> QED
    BY <1>2, <1>3, <1>4, <1>5, Zenon

LEMMA NewStatusesType ==
  ASSUME NEW j \in Specs
  PROVE  NewStatuses(j) \in Seq(StatusType) /\ Len(NewStatuses(j)) = Len(j.apis)
  <1>1. DOMAIN j.apis = 1 .. Len(j.apis) /\ Len(j.apis) \in Nat
    BY SpecsType
  <1>2. NewStatus \in StatusType
    BY DEF NewStatus, StatusType, Empty
  <1>3. NewStatuses(j) = [i \in 1 .. Len(j.apis) |-> NewStatus]
    BY <1>1 DEF NewStatuses
  <1> QED
    BY <1>1, <1>2, <1>3

(* The evaluator gives one of the four results that its caller tells apart.*)
LEMMA ProcessResponseType ==
  ASSUME NEW x \in ParsingType, NEW r \in Responses
  PROVE  ProcessResponse(x, r) \in {"error", "unmet", "", "text"}
  <1>1. EvaluateCondition(x, r) \in {"true", "false", "error"}
    BY DEF EvaluateCondition, Responses
  <1>2. EvaluateDataExpression(x, r) \in {"text", "", "error"}
    BY DEF EvaluateDataExpression, Responses
  <1>3. \A data \in {"text", ""} :
            EvaluateOutputFormat(x, data, r) \in {"text", "", "error"}
    BY DEF EvaluateOutputFormat, Responses
  <1> QED
    BY <1>1, <1>2, <1>3 DEF ProcessResponse

(* An answer that has been worked into the entry of the API that is next:  *)
(* Current answers.                                                        *)
LEMMA GoOnOK ==
  ASSUME IInv, pc = "call", NEW st \in StatusType, NEW met \in BOOLEAN,
         NEW output \in Nat, GoOn(st, met, output),
         Agrees(st, [met |-> met, output |-> output], Api)
  PROVE  WorkOK' /\ pc' \in {"call", "commit"} /\ api' \in Nat /\ allMet' \in BOOLEAN
         /\ UNCHANGED <<job, storedVars>>
  <1> DEFINE ans == [met |-> met, output |-> output]
  <1>1. /\ local \in Seq(StatusType) /\ Len(local) = Len(job.apis) /\ Len(job.apis) \in Nat
        /\ answered \in Seq(AnswerType) /\ Len(answered) + 1 = api /\ Len(answered) \in Nat
        /\ api \in 1 .. Len(job.apis) /\ allMet \in BOOLEAN /\ job \in Specs
        /\ \A i \in 1 .. Len(answered) :
              Agrees(local[i], answered[i], job.apis[i]) /\ (allMet => answered[i].met)
    <2>1. job \in Specs /\ allMet \in BOOLEAN /\ WorkOK /\ api \in Nat
      BY DEF IInv
    <2>2. Len(job.apis) \in Nat
      BY <2>1, SpecsType
    <2>3. /\ local \in Seq(StatusType) /\ Len(local) = Len(job.apis)
          /\ answered \in Seq(AnswerType) /\ Len(answered) + 1 = api
          /\ api <= Len(job.apis)
          /\ \A i \in 1 .. Len(answered) :
                Agrees(local[i], answered[i], job.apis[i]) /\ (allMet => answered[i].met)
      BY <2>1 DEF WorkOK
    <2>4. Len(answered) \in Nat
      BY <2>3, SeqElements
    <2>5. api \in 1 .. Len(job.apis)
      BY <2>1, <2>2, <2>3, <2>4
    <2> QED
      BY <2>1, <2>2, <2>3, <2>4, <2>5, Zenon
  <1>2. ans \in AnswerType /\ ans.met = met
    BY DEF AnswerType
  <1>3. /\ local' = [local EXCEPT ![api] = st] /\ answered' = Append(answered, ans)
        /\ api' = api + 1 /\ allMet' = (allMet /\ met) /\ UNCHANGED <<job, storedVars>>
        /\ pc' = IF api < Len(job.apis) THEN "call" ELSE "commit"
    BY DEF GoOn
  <1>4. Agrees(st, ans, job.apis[api])
    BY DEF Api
  <1> HIDE DEF ans
  <1>5. /\ local' \in Seq(StatusType) /\ Len(local') = Len(job.apis)
        /\ local'[api] = st
        /\ \A i \in 1 .. Len(answered) : local'[i] = local[i]
    BY <1>1, <1>3
  <1>6. /\ answered' \in Seq(AnswerType) /\ Len(answered') = api
        /\ answered'[api] = ans
        /\ \A i \in 1 .. Len(answered) : answered'[i] = answered[i]
    BY <1>1, <1>2, <1>3
  <1>7. ASSUME NEW i \in 1 .. Len(answered')
        PROVE  Agrees(local'[i], answered'[i], job.apis[i]) /\ (allMet' => answered'[i].met)
    <2>1. CASE i = api
      BY <1>2, <1>3, <1>4, <1>5, <1>6, <2>1
    <2>2. CASE i # api
      <3>1. i \in 1 .. Len(answered)
        BY <1>1, <1>6, <2>2
      <3> QED
        BY <1>1, <1>3, <1>5, <1>6, <3>1
    <2> QED
      BY <2>1, <2>2
  <1>8. /\ pc' \in {"call", "commit"} /\ api' \in Nat /\ allMet' \in BOOLEAN
        /\ pc' = "call" => api' <= Len(job'.apis)
        /\ pc' = "commit" => api' = Len(job'.apis) + 1
    BY <1>1, <1>3
  <1>9. Len(answered') + 1 = api'
    BY <1>1, <1>3, <1>6
  <1> QED
    BY <1>3, <1>5, <1>6, <1>7, <1>8, <1>9 DEF WorkOK

(* An execution that ends: of one that has not failed all entries agree    *)
(* with their answers.                                                     *)
LEMMA EndOK ==
  ASSUME IInv, NEW ph, NEW sts \in Seq(StatusType), End(ph, sts),
         ph \in {"Pending", "Done"} =>
             \A i \in 1 .. Len(sts) : \E a : Agrees(sts[i], answered[i], a)
  PROVE  /\ WorkOK' /\ pc' = "idle" /\ job' = spec /\ api' = 1 /\ allMet' = TRUE
         /\ statuses' \in Seq(StatusType) /\ StatusIsCurrent'
  <1>1. pc' = "idle" /\ job' = spec /\ api' = 1 /\ allMet' = TRUE
    BY DEF End
  <1>2. WorkOK'
    BY <1>1 DEF WorkOK
  <1>3. CASE UNCHANGED storedVars
    BY <1>1, <1>2, <1>3 DEF storedVars, IInv, StatusIsCurrent
  <1>4. CASE phase' = ph /\ statuses' = sts /\ shown' = answered
    <2>1. DOMAIN sts = 1 .. Len(sts)
      BY SeqElements
    <2>2. ASSUME ph \in {"Pending", "Done"}, NEW i \in DOMAIN sts
          PROVE  /\ sts[i].met = answered[i].met
                 /\ answered[i].output \in {sts[i].output, Empty}
      BY <2>1, <2>2 DEF Agrees
    <2>3. StatusIsCurrent'
      BY <1>4, <2>2 DEF StatusIsCurrent
    <2> QED
      BY <1>1, <1>2, <1>4, <2>3
  <1> QED
    BY <1>3, <1>4 DEF End

(* The entry of the API that is next, named.                               *)
LEMMA NamedType ==
  ASSUME IInv, pc = "call"
  PROVE  /\ Named \in StatusType /\ Named.name = Api.name
         /\ local \in Seq(StatusType) /\ api \in 1 .. Len(local) /\ job \in Specs
         /\ Api.name \in Names /\ Api.parsing \in ParsingType \cup {NoParsing}
  <1>1. /\ job \in Specs /\ local \in Seq(StatusType) /\ Len(local) = Len(job.apis)
        /\ answered \in Seq(AnswerType) /\ Len(answered) + 1 = api
        /\ api \in Nat /\ api <= Len(job.apis)
    BY DEF IInv, WorkOK
  <1>2. Len(answered) \in Nat /\ Len(local) \in Nat
    BY <1>1, SeqElements
  <1>3. api \in 1 .. Len(local)
    BY <1>1, <1>2
  <1>4. local[api] \in StatusType
    BY <1>1, <1>3, SeqElements
  <1>5. Api.name \in Names /\ Api.parsing \in ParsingType \cup {NoParsing}
    BY <1>1, <1>3, SpecsType DEF Api
  <1>6. Named \in StatusType /\ Named.name = Api.name
    BY <1>4, <1>5 DEF Named, StatusType
  <1> QED
    BY <1>1, <1>3, <1>5, <1>6, Zenon

(* The parts of the invariant that an execution leaves alone.              *)
LEMMA Rest ==
  ASSUME IInv, calls' \in Nat, UNCHANGED <<spec, commits>>, job' \in Specs,
         pc' \in {"idle", "call", "commit"}, api' \in Nat, allMet' \in BOOLEAN,
         WorkOK', statuses' \in Seq(StatusType), StatusIsCurrent'
  PROVE  IInv'
  <1>1. CommittedIsAnswered'
    BY DEF IInv, CommittedIsAnswered
  <1> QED
    BY <1>1 DEF IInv

LEMMA AfterGoOn ==
  ASSUME IInv, pc = "call", NEW st \in StatusType, NEW met \in BOOLEAN,
         NEW output \in Nat, GoOn(st, met, output),
         Agrees(st, [met |-> met, output |-> output], Api),
         calls' \in Nat, UNCHANGED <<spec, commits>>
  PROVE  IInv'
  <1>1. /\ WorkOK' /\ pc' \in {"call", "commit"} /\ api' \in Nat /\ allMet' \in BOOLEAN
        /\ UNCHANGED <<job, storedVars>>
    BY GoOnOK
  <1>2. statuses' \in Seq(StatusType) /\ StatusIsCurrent' /\ job' \in Specs
    BY <1>1 DEF IInv, StatusIsCurrent, storedVars
  <1> QED
    BY <1>1, <1>2, Rest

LEMMA AfterFail ==
  ASSUME IInv, pc = "call", NEW st \in StatusType, Fail(st),
         calls' \in Nat, UNCHANGED <<spec, commits>>
  PROVE  IInv'
  <1>1. local \in Seq(StatusType) /\ api \in 1 .. Len(local)
    BY NamedType
  <1> DEFINE sts == [local EXCEPT ![api] = st]
  <1>2. sts \in Seq(StatusType)
    BY <1>1, EntrySet
  <1>3. End("Failed", sts)
    BY DEF Fail
  <1> HIDE DEF sts
  <1>4. /\ WorkOK' /\ pc' = "idle" /\ job' = spec /\ api' = 1 /\ allMet' = TRUE
        /\ statuses' \in Seq(StatusType) /\ StatusIsCurrent'
    BY <1>2, <1>3, EndOK
  <1>5. job' \in Specs
    BY <1>4 DEF IInv
  <1> QED
    BY <1>4, <1>5, Rest

LEMMA CallSteps ==
  ASSUME IInv, NoRequest \/ NoAnswer \/ CodeRefused
  PROVE  IInv'
  <1>1. pc = "call" /\ UNCHANGED <<spec, commits>>
    BY DEF NoRequest, NoAnswer, CodeRefused, Call
  <1>2. calls' \in Nat
    <2>1. calls \in Nat
      BY DEF IInv
    <2>2. calls' = calls \/ calls' = calls + 1
      BY DEF NoRequest, NoAnswer, CodeRefused, Call
    <2> QED
      BY <2>1, <2>2
  <1>3. Named \in StatusType /\ Named.name = Api.name
    BY <1>1, NamedType
  <1>4. CASE NoRequest
    BY <1>1, <1>2, <1>3, <1>4, AfterFail DEF NoRequest
  <1>5. CASE NoAnswer
    <2>1. [Named EXCEPT !.failed = TRUE] \in StatusType
      BY <1>3 DEF StatusType
    <2> QED
      BY <1>1, <1>2, <1>5, <2>1, AfterFail DEF NoAnswer
  <1>6. CASE CodeRefused
    <2> DEFINE st == [Named EXCEPT !.met = FALSE, !.failed = TRUE]
    <2>1. st \in StatusType /\ st.name = Api.name /\ st.met = FALSE
      BY <1>3 DEF StatusType
    <2>2. GoOn(st, FALSE, Empty)
      BY <1>6 DEF CodeRefused
    <2> HIDE DEF st
    <2>3. Agrees(st, [met |-> FALSE, output |-> Empty], Api)
      BY <2>1 DEF Agrees
    <2>4. Empty \in Nat
      BY DEF Empty
    <2> QED
      BY <1>1, <1>2, <2>1, <2>2, <2>3, <2>4, AfterGoOn
  <1> QED
    BY <1>4, <1>5, <1>6

LEMMA AnswerStep ==
  ASSUME IInv, NEW r \in Responses, Answer(r)
  PROVE  IInv'
  <1>1. pc = "call" /\ UNCHANGED <<spec, commits>> /\ calls' \in Nat
    <2>1. Call
      BY DEF Answer
    <2>2. calls \in Nat
      BY DEF IInv
    <2> QED
      BY <2>1, <2>2 DEF Call
  <1>2. /\ Named \in StatusType /\ Named.name = Api.name
        /\ Api.parsing \in ParsingType \cup {NoParsing}
    BY <1>1, NamedType
  <1>3. Empty \in Nat
    BY DEF Empty
  <1>4. CASE Api.parsing = NoParsing
    <2> DEFINE st == [Named EXCEPT !.met = TRUE, !.failed = FALSE]
    <2>1. st \in StatusType /\ st.name = Api.name /\ st.met = TRUE
      BY <1>2 DEF StatusType
    <2>2. GoOn(st, TRUE, Empty)
      BY <1>4 DEF Answer, Met
    <2> HIDE DEF st
    <2>3. Agrees(st, [met |-> TRUE, output |-> Empty], Api)
      BY <1>4, <2>1 DEF Agrees
    <2> QED
      BY <1>1, <1>3, <2>1, <2>2, <2>3, AfterGoOn
  <1>5. CASE Api.parsing # NoParsing
    <2> DEFINE result == ProcessResponse(Api.parsing, r)
    <2>1. result \in {"error", "unmet", "", "text"}
      BY <1>2, <1>5, ProcessResponseType
    <2>2. CASE result = "error"
      <3>1. Fail([Named EXCEPT !.failed = TRUE])
        BY <1>5, <2>2 DEF Answer
      <3>2. [Named EXCEPT !.failed = TRUE] \in StatusType
        BY <1>2 DEF StatusType
      <3> QED
        BY <1>1, <3>1, <3>2, AfterFail
    <2>3. CASE result = "unmet"
      <3> DEFINE st == [Named EXCEPT !.met = FALSE, !.failed = FALSE]
      <3>1. st \in StatusType /\ st.name = Api.name /\ st.met = FALSE
        BY <1>2 DEF StatusType
      <3>2. GoOn(st, FALSE, Empty)
        BY <1>5, <2>3 DEF Answer, Unmet
      <3> HIDE DEF st
      <3>3. Agrees(st, [met |-> FALSE, output |-> Empty], Api)
        BY <3>1 DEF Agrees
      <3> QED
        BY <1>1, <1>3, <3>1, <3>2, <3>3, AfterGoOn
    <2>4. CASE result \in {"", "text"}
      <3>1. PICK output \in Nat : MetWith(Named, output)
        <4>1. CASE result = ""
          BY <1>3, <1>5, <4>1 DEF Answer
        <4>2. CASE result = "text"
          BY <1>1, <1>5, <4>2 DEF Answer
        <4> QED
          BY <2>4, <4>1, <4>2
      <3> DEFINE st == [Named EXCEPT !.met = TRUE, !.failed = FALSE, !.output = output]
      <3>2. /\ st \in StatusType /\ st.name = Api.name /\ st.met = TRUE
            /\ st.output = output
        BY <1>2 DEF StatusType
      <3>3. GoOn(st, TRUE, output)
        BY <3>1 DEF MetWith
      <3> HIDE DEF st
      <3>4. Agrees(st, [met |-> TRUE, output |-> output], Api)
        BY <3>2 DEF Agrees
      <3> QED
        BY <1>1, <3>2, <3>3, <3>4, AfterGoOn
    <2> QED
      BY <2>1, <2>2, <2>3, <2>4
  <1> QED
    BY <1>4, <1>5

LEMMA BeginStep ==
  ASSUME IInv, Begin
  PROVE  IInv'
  <1>1. /\ spec \in Specs /\ statuses \in Seq(StatusType) /\ calls \in Nat
        /\ pc' = "call" /\ job' = spec /\ api' = 1 /\ allMet' = TRUE /\ answered' = <<>>
        /\ UNCHANGED <<spec, storedVars, calls, commits>>
    BY DEF Begin, IInv
  <1>2. Len(spec.apis) \in Nat \ {0}
    BY <1>1, SpecsType
  <1>3. local' \in Seq(StatusType) /\ Len(local') = Len(spec.apis)
    BY <1>1, NewStatusesType DEF Begin
  <1>4. answered' \in Seq(AnswerType) /\ Len(answered') = 0
    BY <1>1
  <1>5. WorkOK'
    BY <1>1, <1>2, <1>3, <1>4 DEF WorkOK
  <1>6. statuses' \in Seq(StatusType) /\ StatusIsCurrent'
    BY <1>1 DEF IInv, StatusIsCurrent, storedVars
  <1> QED
    BY <1>1, <1>5, <1>6, Rest

-----------------------------------------------------------------------------
(* The end of an execution, and the commit.                                *)

LEMMA AllAnswered ==
  ASSUME IInv, pc = "commit"
  PROVE  /\ job \in Specs /\ local \in Seq(StatusType) /\ Len(local) = Len(job.apis)
         /\ Len(local) \in Nat /\ DOMAIN local = 1 .. Len(local)
         /\ answered \in Seq(AnswerType) /\ Len(answered) = Len(local)
         /\ DOMAIN answered = 1 .. Len(local)
         /\ \A i \in 1 .. Len(local) :
               Agrees(local[i], answered[i], job.apis[i]) /\ (allMet => answered[i].met)
  <1>1. /\ job \in Specs /\ local \in Seq(StatusType) /\ Len(local) = Len(job.apis)
        /\ answered \in Seq(AnswerType) /\ Len(answered) + 1 = Len(job.apis) + 1
        /\ \A i \in 1 .. Len(answered) :
               Agrees(local[i], answered[i], job.apis[i]) /\ (allMet => answered[i].met)
    BY DEF IInv, WorkOK
  <1>2. /\ Len(local) \in Nat /\ DOMAIN local = 1 .. Len(local)
        /\ Len(answered) \in Nat /\ DOMAIN answered = 1 .. Len(answered)
    BY <1>1, SeqElements
  <1>3. Len(answered) = Len(local)
    BY <1>1, <1>2
  <1> QED
    BY <1>1, <1>2, <1>3

LEMMA AfterEnd ==
  ASSUME IInv, pc = "commit", NEW ph, End(ph, local), UNCHANGED <<spec, calls>>
  PROVE  /\ WorkOK' /\ pc' = "idle" /\ job' = spec /\ api' = 1 /\ allMet' = TRUE
         /\ statuses' \in Seq(StatusType) /\ StatusIsCurrent'
         /\ spec' \in Specs /\ job' \in Specs /\ calls' \in Nat
  <1>1. /\ local \in Seq(StatusType)
        /\ \A i \in 1 .. Len(local) : \E a : Agrees(local[i], answered[i], a)
    BY AllAnswered
  <1>2. /\ WorkOK' /\ pc' = "idle" /\ job' = spec /\ api' = 1 /\ allMet' = TRUE
        /\ statuses' \in Seq(StatusType) /\ StatusIsCurrent'
    BY <1>1, EndOK
  <1> QED
    BY <1>2 DEF IInv

LEMMA EndSteps ==
  ASSUME IInv, Skip \/ CommitFailed
  PROVE  IInv'
  <1>1. PICK ph : End(ph, local)
    BY DEF Skip, CommitFailed
  <1>2. pc = "commit" /\ UNCHANGED <<spec, calls, commits>>
    BY DEF Skip, CommitFailed
  <1>3. /\ WorkOK' /\ pc' = "idle" /\ job' = spec /\ api' = 1 /\ allMet' = TRUE
        /\ statuses' \in Seq(StatusType) /\ StatusIsCurrent'
        /\ spec' \in Specs /\ job' \in Specs /\ calls' \in Nat
    BY <1>1, <1>2, AfterEnd
  <1> QED
    BY <1>2, <1>3, Rest

(* When all conditions are met, and every API has ResponseParsing, a file  *)
(* is made of the answers of this execution.                               *)
LEMMA ContentIsExpected ==
  ASSUME IInv, pc = "commit", allMet, Parsed(job), NEW f \in Names \cup {""}, NEW c,
         c.job = job, c.answered = answered
  PROVE  FileContent(f, local) = Expected(f, c)
  <1>1. /\ job \in Specs /\ DOMAIN local = 1 .. Len(local)
        /\ DOMAIN answered = 1 .. Len(local) /\ Len(local) = Len(job.apis)
        /\ \A i \in 1 .. Len(local) :
               Agrees(local[i], answered[i], job.apis[i]) /\ answered[i].met
    BY AllAnswered
  <1>2. DOMAIN job.apis = 1 .. Len(local)
    BY <1>1, SpecsType
  <1>3. ASSUME NEW i \in 1 .. Len(local)
        PROVE  /\ local[i].output = answered[i].output /\ local[i].met = TRUE
               /\ local[i].name = job.apis[i].name
    <2>1. job.apis[i].parsing # NoParsing
      BY <1>2 DEF Parsed
    <2>2. local[i].met = answered[i].met /\ local[i].met \in BOOLEAN
      BY <1>1, AllAnswered, SeqElements DEF Agrees, StatusType
    <2> QED
      BY <1>1, <2>1, <2>2 DEF Agrees
  <1> DEFINE used == {i \in DOMAIN local : /\ local[i].output # Empty
                                           /\ IF f = "" THEN local[i].met ELSE local[i].name = f}
             used2 == {i \in DOMAIN c.answered : /\ c.answered[i].output # Empty
                                                 /\ f \in {"", c.job.apis[i].name}}
             first == IF f = "" THEN used ELSE Earliest(used)
             first2 == IF f = "" THEN used2 ELSE Earliest(used2)
  <1>4. \A i \in 1 .. Len(local) :
            (IF f = "" THEN local[i].met ELSE local[i].name = f)
            <=> f \in {"", c.job.apis[i].name}
    BY <1>3
  <1>5. used = used2
    <2>1. used = {i \in 1 .. Len(local) : /\ local[i].output # Empty
                      /\ IF f = "" THEN local[i].met ELSE local[i].name = f}
      BY <1>1
    <2>2. used2 = {i \in 1 .. Len(local) : /\ answered[i].output # Empty
                                           /\ f \in {"", job.apis[i].name}}
      BY <1>1
    <2>3. c.job.apis = job.apis
      OBVIOUS
    <2> QED
      BY <1>3, <1>4, <2>1, <2>2
  <1>6. first = first2 /\ first \subseteq 1 .. Len(local)
    BY <1>1, <1>5 DEF Earliest
  <1>7. FileContent(f, local) = [i \in first |-> local[i].output]
    BY DEF FileContent
  <1>8. Expected(f, c) = [i \in first2 |-> c.answered[i].output]
    BY DEF Expected
  <1> HIDE DEF first, first2
  <1>9. [i \in first |-> local[i].output] = [i \in first |-> answered[i].output]
    BY <1>3, <1>6
  <1> QED
    BY <1>6, <1>7, <1>8, <1>9

LEMMA CommitStep ==
  ASSUME Inv, Commit
  PROVE  IInv'
  <1> DEFINE c == [job |-> job, contents |-> Contents, answered |-> answered]
  <1>1. IInv /\ pc = "commit" /\ allMet /\ UNCHANGED <<spec, calls>>
    BY DEF Inv, Commit
  <1>2. commits' = Append(commits, c) /\ End("Done", local)
    BY DEF Commit
  <1>3. /\ WorkOK' /\ pc' = "idle" /\ job' = spec /\ api' = 1 /\ allMet' = TRUE
        /\ statuses' \in Seq(StatusType) /\ StatusIsCurrent'
        /\ spec' \in Specs /\ job' \in Specs /\ calls' \in Nat
    BY <1>1, <1>2, AfterEnd
  <1>4. /\ Len(c.answered) = Len(c.job.apis)
        /\ \A i \in DOMAIN c.answered : c.answered[i].met
    BY <1>1, AllAnswered
  <1>5. ASSUME Parsed(c.job), NEW n \in DOMAIN c.job.files
        PROVE  c.contents[n] = Expected(c.job.files[n], c)
    <2>1. n \in DOMAIN job.files /\ Parsed(job)
      BY <1>5
    <2>2. job.files[n] \in Names \cup {""}
      <3>1. job.files \in Seq(Names \cup {""})
        BY <1>1, AllAnswered, SpecsType
      <3> QED
        BY <2>1, <3>1, SeqElements
    <2>3. c.contents[n] = FileContent(job.files[n], local)
      BY <2>1 DEF Contents
    <2>4. c.job = job /\ c.answered = answered
      OBVIOUS
    <2> HIDE DEF c
    <2> QED
      BY <1>1, <2>1, <2>2, <2>3, <2>4, ContentIsExpected
  <1> HIDE DEF c
  <1>6. PICK S : commits \in Seq(S)
    BY DEF Inv, Listed
  <1>7. CommittedIsAnswered'
    <2> SUFFICES ASSUME NEW k \in DOMAIN commits'
                 PROVE  /\ Len(commits'[k].answered) = Len(commits'[k].job.apis)
                        /\ \A i \in DOMAIN commits'[k].answered : commits'[k].answered[i].met
                        /\ Parsed(commits'[k].job) =>
                              \A n \in DOMAIN commits'[k].job.files :
                                  commits'[k].contents[n]
                                  = Expected(commits'[k].job.files[n], commits'[k])
      BY DEF CommittedIsAnswered
    <2>1. CASE k \in DOMAIN commits
      <3>1. commits'[k] = commits[k]
        BY <1>2, <1>6, <2>1
      <3>2. CommittedIsAnswered
        BY <1>1 DEF IInv
      <3> QED
        BY <2>1, <3>1, <3>2 DEF CommittedIsAnswered
    <2>2. CASE k \notin DOMAIN commits
      <3>1. commits'[k] = c
        BY <1>2, <1>6, <2>2
      <3> QED
        BY <1>4, <1>5, <3>1
    <2> QED
      BY <2>1, <2>2
  <1> QED
    BY <1>3, <1>7 DEF IInv

-----------------------------------------------------------------------------
LEMMA InitInv == Init => Inv
  <1> SUFFICES ASSUME Init PROVE Inv
    OBVIOUS
  <1>1. /\ spec \in Specs /\ job \in Specs /\ pc = "idle" /\ statuses = <<>>
        /\ api = 1 /\ calls = 0 /\ allMet = TRUE /\ commits = <<>>
    BY DEF Init
  <1>2. statuses \in Seq(StatusType) /\ DOMAIN statuses = {} /\ commits \in Seq({})
        /\ DOMAIN commits = {}
    BY <1>1
  <1>3. WorkOK /\ StatusIsCurrent /\ CommittedIsAnswered
    BY <1>1, <1>2 DEF WorkOK, StatusIsCurrent, CommittedIsAnswered
  <1> QED
    BY <1>1, <1>2, <1>3 DEF Inv, IInv, Listed

LEMMA EditStep ==
  ASSUME IInv, UserEdit
  PROVE  IInv'
  <1>1. spec' \in Specs /\ UNCHANGED <<storedVars, workerVars, calls, commits>>
    BY DEF UserEdit
  <1>2. WorkOK' /\ StatusIsCurrent' /\ CommittedIsAnswered'
    BY <1>1 DEF IInv, WorkOK, StatusIsCurrent, CommittedIsAnswered, storedVars, workerVars
  <1> QED
    BY <1>1, <1>2 DEF IInv, storedVars, workerVars

LEMMA ListedNext ==
  ASSUME Listed, [Next]_vars
  PROVE  Listed'
  <1>1. PICK S : commits \in Seq(S)
    BY DEF Listed
  <1>2. UNCHANGED commits \/ \E c : commits' = Append(commits, c)
    BY DEF Next, vars, Begin, NoRequest, NoAnswer, CodeRefused, Answer, Call, Skip, Commit,
           CommitFailed, UserEdit
  <1>3. CASE UNCHANGED commits
    BY <1>1, <1>3 DEF Listed
  <1>4. ASSUME NEW c, commits' = Append(commits, c) PROVE Listed'
    <2>1. commits \in Seq(S \cup {c})
      BY <1>1
    <2>2. commits' \in Seq(S \cup {c})
      BY <1>4, <2>1
    <2> QED
      BY <2>2 DEF Listed
  <1> QED
    BY <1>2, <1>3, <1>4

(* The inductive invariant holds of all reachable states.                  *)
THEOREM Invariance == Spec => []Inv
  <1>1. Inv /\ [Next]_vars => Inv'
    <2> SUFFICES ASSUME Inv, [Next]_vars PROVE Inv'
      OBVIOUS
    <2>1. IInv /\ Listed'
      BY ListedNext DEF Inv
    <2>2. CASE UNCHANGED vars
      <3>1. UNCHANGED <<spec, storedVars, workerVars, calls, commits>>
        BY <2>2 DEF vars
      <3>2. WorkOK' /\ StatusIsCurrent' /\ CommittedIsAnswered'
        BY <2>1, <3>1 DEF IInv, WorkOK, StatusIsCurrent, CommittedIsAnswered, storedVars,
                          workerVars
      <3>3. IInv'
        BY <2>1, <3>1, <3>2 DEF IInv, storedVars, workerVars
      <3> QED
        BY <2>1, <3>3 DEF Inv
    <2>3. CASE Next
      <3>1. IInv'
        BY <2>1, <2>3, BeginStep, CallSteps, AnswerStep, EndSteps, CommitStep, EditStep
           DEF Next
      <3> QED
        BY <2>1, <3>1 DEF Inv
    <2> QED
      BY <2>2, <2>3
  <1> QED
    BY <1>1, InitInv, PTL DEF Spec

(* A commit is made only when every API of the spec has answered in this   *)
(* execution and met its condition, and its files hold those answers in    *)
(* their order and no older ones (buildFileContent over entries that       *)
(* checkRestAPIConditions reuses by index), for any list of APIs however   *)
(* it is edited between and during executions.                             *)
THEOREM CommitsAreAnswered == Spec => []CommittedIsAnswered
  <1>1. Inv => CommittedIsAnswered
    BY DEF Inv, IInv
  <1> QED
    BY <1>1, Invariance, PTL

(* ConditionMet in the status of a resource that has not failed is that of *)
(* the last answer of each API (checkSingleRestAPICondition), whatever the *)
(* entry held before.                                                      *)
THEOREM StatusTellsTheLast == Spec => []StatusIsCurrent
  <1>1. Inv => StatusIsCurrent
    BY DEF Inv, IInv
  <1> QED
    BY <1>1, Invariance, PTL
=============================================================================
