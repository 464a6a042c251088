------------------------------- MODULE MCCalls -------------------------------
(***************************************************************************)
(* A small instance of ServiceCalls for TLC: every exception of the SDK,   *)
(* and every kind of answer of the model for a failure the table knows,    *)
(* one it does not, and one with no reason.                                *)
(***************************************************************************)
EXTENDS ServiceCalls

MCFailures == {[amount_paise |-> 10000, error_reason |-> r] : r \in {"bank_downtime", "other", ""}}

AllAnswers ==
  [cause : {"", "made_up", "bank_downtime", "invalid_otp", "ambiguous"},
   confidence : {"missing", "number", "word", "huge"}, percent : {-5, 59, 140}]

MCReplies == {[cause |-> c, confidence |-> n] :
                c \in {"made_up", "bank_downtime", "invalid_otp", "ambiguous"},
                n \in {-5, 45, 59, 140}}
=============================================================================
