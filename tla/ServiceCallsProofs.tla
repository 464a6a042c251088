------------------------- MODULE ServiceCallsProofs --------------------------
(***************************************************************************)
(* Proofs about one process that asks Razorpay and the language model in   *)
(* turn: what holds of each call alone holds of both, and no diagnosis is  *)
(* one that Runner does not draw from, whatever the model answers.         *)
(***************************************************************************)
EXTENDS ServiceCalls, RazorpayCallsProofs

\* Only a failure the table does not know is asked about, three times at most,
\* and whoever is not asking any more has an answer of the set.
DiagnosisInv ==
  /\ llm \in {"idle", "asking", "sleeping", "raised"}
  /\ count \in 0..MaxDiagnoses
  /\ question \in 0..2
  /\ llm = "sleeping" => question < 2
  /\ llm \in {"asking", "sleeping"} => failure.error_reason \notin DOMAIN Rules
  /\ llm # "idle" => diagnosis = NoDiagnosis /\ count > 0
  /\ llm = "idle" /\ count > 0 => diagnosis \in Diagnoses(failure)
  /\ count = 0 => diagnosis = NoDiagnosis

\* What is made of an answer is one of the diagnoses of the failure asked about.
LEMMA AnswerIsAllowed ==
  ASSUME failure.error_reason \notin DOMAIN Rules,
         NEW answer \in Answers, answer.confidence # "huge"
  PROVE  Used(answer) \in Diagnoses(failure)
<1>1. answer.confidence \in {"missing", "number", "word"}
  BY LlmCallsAssumption DEF Answer
<1>2. CASE answer.confidence = "word"
  BY <1>2 DEF Used, Diagnoses
<1>3. CASE answer.confidence \in {"missing", "number"}
  <2>1. Parsed(answer) \in LlmReplies
    BY <1>3, LlmCallsAssumption
  <2>2. Used(answer) = FromLlm(failure, Parsed(answer))
    BY <1>3 DEF Used
  <2> QED BY <2>1, <2>2 DEF Diagnoses
<1> QED BY <1>1, <1>2, <1>3

\* A diagnosis begins with the table, with no model to ask, or with a question.
LEMMA BeginKeeps == DiagnosisInv /\ Begin => DiagnosisInv'
<1> SUFFICES ASSUME DiagnosisInv, Begin PROVE DiagnosisInv'
  OBVIOUS
<1>1. /\ llm = "idle" /\ question' = 0 /\ count' \in 0..MaxDiagnoses /\ count' > 0
  BY LlmCallsAssumption DEF Begin, DiagnosisInv
<1>2. CASE /\ failure'.error_reason \in DOMAIN Rules /\ llm' = llm
           /\ diagnosis' = [cause |-> failure'.error_reason,
                            confidence |-> Rules[failure'.error_reason]]
  <2>1. diagnosis' \in Diagnoses(failure')
    BY <1>2 DEF Diagnoses
  <2> QED BY <1>1, <1>2, <2>1 DEF DiagnosisInv
<1>3. CASE failure'.error_reason \notin DOMAIN Rules /\ diagnosis' = Fallback /\ llm' = llm
  <2>1. diagnosis' \in Diagnoses(failure')
    BY <1>3 DEF Diagnoses
  <2> QED BY <1>1, <1>3, <2>1 DEF DiagnosisInv
<1>4. CASE /\ failure'.error_reason \notin DOMAIN Rules /\ diagnosis' = NoDiagnosis
           /\ llm' = "asking"
  BY <1>1, <1>4 DEF DiagnosisInv
<1> QED BY <1>2, <1>3, <1>4 DEF Begin

\* Asking again, giving up and using an answer.
LEMMA WorkKeeps == DiagnosisInv /\ Work => DiagnosisInv'
<1> SUFFICES ASSUME DiagnosisInv, Work PROVE DiagnosisInv'
  OBVIOUS
<1>1. CASE QuotaExceeded
  BY <1>1 DEF QuotaExceeded, DiagnosisInv
<1>2. CASE AskAgain
  BY <1>2 DEF AskAgain, DiagnosisInv
<1>3. CASE GiveUp
  <2>1. Fallback \in Diagnoses(failure)
    BY <1>3 DEF GiveUp, DiagnosisInv, Diagnoses
  <2> QED BY <1>3, <2>1 DEF GiveUp, DiagnosisInv
<1>4. ASSUME NEW answer \in Answers, Answered(answer) PROVE DiagnosisInv'
  <2>1. Used(answer) \in Diagnoses(failure)
    BY <1>4, AnswerIsAllowed DEF Answered, DiagnosisInv
  <2>2. /\ llm = "asking" /\ llm' = "idle" /\ diagnosis' = Used(answer)
        /\ UNCHANGED <<failure, question, count>>
    BY <1>4 DEF Answered
  <2> HIDE DEF Used
  <2> QED BY <2>1, <2>2 DEF DiagnosisInv
<1>5. ASSUME NEW answer \in Answers, Overflow(answer) PROVE DiagnosisInv'
  BY <1>5 DEF Overflow, DiagnosisInv
<1> QED BY <1>1, <1>2, <1>3, <1>4, <1>5 DEF Work

\* Neither client touches what the other works with.
THEOREM CallsInvariant == CallsSpec => [](LoopInv /\ DiagnosisInv)
<1>1. CallsInit => LoopInv /\ DiagnosisInv
  <2> SUFFICES ASSUME CallsInit PROVE LoopInv /\ DiagnosisInv
    OBVIOUS
  <2>1. /\ at = "idle" /\ write = FALSE /\ attempt = 0 /\ applied = 0
        /\ outcome = "none" /\ calls = 0
    BY DEF CallsInit, Init
  <2>2. attempt \in 0..ReadRetries /\ calls \in 0..MaxCalls
    BY <2>1, RetriesAssumption
  <2>3. write \in BOOLEAN
    BY <2>1
  <2>4. LoopInv
    BY <2>1, <2>2, <2>3 DEF LoopInv, TypeOK
  <2>5. DiagnosisInv
    BY LlmCallsAssumption DEF CallsInit, LlmInit, DiagnosisInv
  <2> QED BY <2>4, <2>5
<1>2. LoopInv /\ DiagnosisInv /\ [CallsNext]_callVars => LoopInv' /\ DiagnosisInv'
  <2> SUFFICES ASSUME LoopInv, DiagnosisInv, [CallsNext]_callVars PROVE LoopInv' /\ DiagnosisInv'
    OBVIOUS
  <2>1. UNCHANGED vars => LoopInv'
    BY DEF vars, LoopInv, TypeOK, Attempts, Retry
  <2>2. UNCHANGED llmVars => DiagnosisInv'
    BY DEF llmVars, DiagnosisInv, Diagnoses
  <2>3. Next => LoopInv'
    BY <2>1, CallKeeps, TryKeeps, SleepKeeps DEF Next, Rest
  <2>5. LlmNext => DiagnosisInv'
    BY <2>2, BeginKeeps, WorkKeeps DEF LlmNext, LlmRest
  <2> QED BY <2>1, <2>2, <2>3, <2>5 DEF CallsNext, callVars
<1> QED BY <1>1, <1>2, PTL DEF CallsSpec

\* The retry loop keeps its promises in a process that diagnoses between its calls.
THEOREM CallsStaySafe == CallsSpec => [](TypeOK /\ WritesApplyOnce /\ LoopRaisesInside)
<1>1. LoopInv => TypeOK /\ WritesApplyOnce /\ LoopRaisesInside
  BY DEF LoopInv, WritesApplyOnce, LoopRaisesInside
<1> QED BY <1>1, CallsInvariant, PTL

\* The caller gets a diagnosis of the set that Runner draws from, for every
\* answer of the model and every sequence of quota errors.
THEOREM DiagnosesStayAllowed == CallsSpec => []DiagnosesAreAllowed
<1>1. DiagnosisInv => DiagnosesAreAllowed
  BY DEF DiagnosisInv, DiagnosesAreAllowed
<1> QED BY <1>1, CallsInvariant, PTL
=============================================================================
