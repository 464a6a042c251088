------------------------------ MODULE LlmCalls -------------------------------
(***************************************************************************)
(* One diagnosis at a time in full (src/payrecover/diagnosis.py): the rule *)
(* table, up to three questions to the language model, and what is made of *)
(* its answer.  Runner takes a diagnosis as one member of Diagnoses; this  *)
(* is how it comes about.                                                  *)
(***************************************************************************)
EXTENDS Diagnosing

CONSTANTS Failures,     \* failures to diagnose
          Answers,      \* JSON objects the model may answer with
          MaxDiagnoses  \* bound

\* confidence is missing, a number (in percent), no number at all, or an integer
\* beyond the range of a float.
Answer == [cause : STRING, confidence : {"missing", "number", "word", "huge"}, percent : Int]

\* What Diagnosing takes for the reply: a missing cause or confidence has its default.
Parsed(answer) ==
  [cause |-> IF answer.cause = "" THEN "ambiguous" ELSE answer.cause,
   confidence |-> IF answer.confidence = "number" THEN answer.percent ELSE 45]

ASSUME LlmCallsAssumption ==
  /\ Failures \subseteq Failure
  /\ Answers \subseteq Answer
  /\ {Parsed(a) : a \in {b \in Answers : b.confidence \in {"missing", "number"}}}
       \subseteq LlmReplies
  /\ MaxDiagnoses \in Nat

VARIABLES llm,        \* between diagnoses, asking, asleep, or ended by an exception
          failure,    \* the one being diagnosed
          question,
          diagnosis,  \* the last one returned
          count

llmVars == <<llm, failure, question, diagnosis, count>>

NoDiagnosis == [cause |-> "none", confidence |-> 0]

LlmInit ==
  /\ llm = "idle" /\ failure \in Failures /\ question = 0
  /\ diagnosis = NoDiagnosis /\ count = 0

\* A known reason, or no API key, needs no question.
Begin ==
  /\ llm = "idle" /\ count < MaxDiagnoses
  /\ failure' \in Failures /\ count' = count + 1 /\ question' = 0
  /\ LET reason == failure'.error_reason
     IN \/ /\ reason \in DOMAIN Rules
           /\ diagnosis' = [cause |-> reason, confidence |-> Rules[reason]]
           /\ UNCHANGED llm
        \/ reason \notin DOMAIN Rules /\ diagnosis' = Fallback /\ UNCHANGED llm
        \/ reason \notin DOMAIN Rules /\ diagnosis' = NoDiagnosis /\ llm' = "asking"

\* 429: sleep and ask again, twice.
QuotaExceeded ==
  /\ llm = "asking" /\ question < 2
  /\ llm' = "sleeping"
  /\ UNCHANGED <<failure, question, diagnosis, count>>

\* Mutant: the quota error is retried as often as it comes.
AskForever ==
  /\ llm = "sleeping"
  /\ llm' = "asking"
  /\ UNCHANGED <<failure, question, diagnosis, count>>

AskAgain ==
  /\ llm = "sleeping"
  /\ llm' = "asking" /\ question' = question + 1
  /\ UNCHANGED <<failure, diagnosis, count>>

\* Any other error, the third 429, an empty text or one without a JSON object.
GiveUp ==
  /\ llm = "asking"
  /\ llm' = "idle" /\ diagnosis' = Fallback
  /\ UNCHANGED <<failure, question, count>>

\* Mutant: the cause is taken before it is sanitised.
UsedUnsanitised(answer) ==
  [cause |-> Parsed(answer).cause, confidence |-> Clamp(Parsed(answer).confidence)]

\* A confidence that is no number makes the answer unusable.
Used(answer) ==
  IF answer.confidence = "word" THEN Fallback ELSE FromLlm(failure, Parsed(answer))

Answered(answer) ==
  /\ llm = "asking" /\ answer.confidence # "huge"
  /\ llm' = "idle" /\ diagnosis' = Used(answer)
  /\ UNCHANGED <<failure, question, count>>

\* float() of such an integer raises OverflowError, which nobody catches.
Overflow(answer) ==
  /\ llm = "asking" /\ answer.confidence = "huge"
  /\ llm' = "raised"
  /\ UNCHANGED <<failure, question, diagnosis, count>>

Work ==
  \/ QuotaExceeded \/ AskAgain \/ GiveUp
  \/ \E answer \in Answers : Answered(answer) \/ Overflow(answer)

LlmRest == (llm = "raised" \/ (llm = "idle" /\ count = MaxDiagnoses)) /\ UNCHANGED llmVars

LlmNext == Begin \/ Work \/ LlmRest

-----------------------------------------------------------------------------
\* Whatever the model answers and however often it has to be asked, the caller
\* gets a diagnosis of the set that Runner draws from: the model cannot mint a
\* wait, nor a cause or a confidence out of range.
DiagnosesAreAllowed == diagnosis = NoDiagnosis \/ diagnosis \in Diagnoses(failure)

\* One diagnosis asks three times at most, and then answers.
QuestionsEnd == llm = "asking" ~> llm \in {"idle", "raised"}
=============================================================================
