----------------------------- MODULE Diagnosing -----------------------------
(***************************************************************************)
(* Failure diagnosis (src/payrecover/diagnosis.py): a table for the        *)
(* unambiguous reasons, a language model for the rest, a fixed fallback    *)
(* when the model is absent, fails, or answers out of shape.               *)
(***************************************************************************)
EXTENDS Models

CONSTANT LlmReplies   \* the parsed answers the language model may give

ASSUME LlmAssumption ==
  LlmReplies \subseteq [cause : STRING, confidence : Int]

\* Confidence of the rule for each unambiguous error_reason; its cause is the reason.
Rules ==
  [international_transaction_not_allowed |-> 95, insufficient_funds |-> 90,
   bank_downtime |-> 88, issuer_unavailable |-> 88, invalid_otp |-> 90,
   incorrect_pin |-> 90]

AllowedCauses == DOMAIN Rules \cup {"ambiguous"}

WaitCauses == {"bank_downtime", "issuer_unavailable"}

\* Mutant: the model may name any cause of the list, a transient one included.
SanitizeToList(failure, cause) == IF cause \in AllowedCauses THEN cause ELSE "ambiguous"

\* The model may not name a cause outside the list, nor a transient one the
\* failure itself does not name.
SanitizeCause(failure, cause) ==
  IF cause \notin AllowedCauses THEN "ambiguous"
  ELSE IF cause \in WaitCauses /\ failure.error_reason # cause THEN "ambiguous"
  ELSE cause

Clamp(n) == IF n < 0 THEN 0 ELSE IF n > 100 THEN 100 ELSE n

Fallback == [cause |-> "ambiguous", confidence |-> 45]

FromLlm(failure, reply) ==
  [cause |-> SanitizeCause(failure, reply.cause), confidence |-> Clamp(reply.confidence)]

\* Every diagnosis one call may return: a table hit is certain, otherwise any
\* reply of the model or, since each call may fail, the fallback.
Diagnoses(failure) ==
  IF failure.error_reason \in DOMAIN Rules
  THEN {[cause |-> failure.error_reason, confidence |-> Rules[failure.error_reason]]}
  ELSE {FromLlm(failure, reply) : reply \in LlmReplies} \cup {Fallback}
=============================================================================
