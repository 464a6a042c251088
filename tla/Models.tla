------------------------------- MODULE Models -------------------------------
(***************************************************************************)
(* The records the program passes around (src/payrecover/models.py): what  *)
(* a case, an action, its result, a customer's answer and an               *)
(* audit event are.  Fields no step of the program reads back (currency,   *)
(* error texts, timestamps, wait_until) are left out.                      *)
(***************************************************************************)
EXTENDS Integers

CaseStatus == {"detected", "diagnosed", "waiting", "escalated", "stopped",
               "recovered", "exhausted"}

\* The statuses no later run may leave.
Terminal == {"recovered", "stopped", "escalated", "exhausted"}

ActionType == {"issue_link", "remind", "wait", "escalate", "stop"}

Outcome == {"recovered", "escalated", "stopped_by_policy", "exhausted", "waiting"}

AuditEventType == {"case_detected", "diagnosis_completed", "policy_verdict",
                   "action_attempted", "action_result", "customer_response",
                   "case_terminal"}

(***************************************************************************)
(* A payment link id is None, the empty string, an id minted by a dry run, *)
(* or an id given by Razorpay.  Policy tests "is None"; the executor and   *)
(* the customer test truthiness, under which "" counts as no link.         *)
(***************************************************************************)
NoLink == "none"
BlankLink == "blank"
DryLink == "plink_dry"
LiveLink == "plink"
LinkId == {NoLink, BlankLink, DryLink, LiveLink}

HasLink(id) == id \notin {NoLink, BlankLink}

\* Python's "a or b" on two link ids.
OrElse(a, b) == IF HasLink(a) THEN a ELSE b

\* error_reason: the reasons the rules know, none given, or any other text.
Reason == {"international_transaction_not_allowed", "insufficient_funds",
           "bank_downtime", "issuer_unavailable", "invalid_otp", "incorrect_pin",
           "", "other"}

Failure == [amount_paise : Nat, error_reason : Reason]

Case == [case_id : Nat, failure : Failure, status : CaseStatus,
         link_count : Nat, reminder_count : Nat, opted_out : BOOLEAN,
         wait_completed : BOOLEAN, active_payment_link_id : LinkId]

\* A case as the detector and the seeder create it: every counter at its default.
NewCase(id, failure) ==
  [case_id |-> id, failure |-> failure, status |-> "detected",
   link_count |-> 0, reminder_count |-> 0, opted_out |-> FALSE,
   wait_completed |-> FALSE, active_payment_link_id |-> NoLink]

Cause == (Reason \ {"", "other"}) \cup {"ambiguous"}

NoAmount == -1

Rationale == {"kill_switch", "opt_out", "already_terminal", "high_amount",
              "ambiguous", "low_confidence", "transient_rail", "issue_link",
              "remind", "exhausted"}

ActionRequest == [case_id : Nat, action_type : ActionType, rationale : Rationale,
                  amount_paise : Nat \cup {NoAmount}, payment_link_id : LinkId]

\* "razorpay" stands for each class of RazorpayClientError.
ErrorType == {"none", "kill_switch", "amount_mismatch", "no_link", "razorpay"}

ActionResult == [ok : BOOLEAN, payment_link_id : LinkId, error_type : ErrorType]

AnswerKind == {"paid", "ignored", "opted_out"}

Profile == {"pays_on_first_link", "pays_after_reminder", "pays_if_fast",
            "pays_after_wait", "never_pays", "opts_out", "high_value"}

\* pay_on_reminder is 0 where the source holds None.
GroundTruth == [profile : Profile, pay_on_reminder : Nat]

(***************************************************************************)
(* An audit row.  "by" is the command that wrote it and "step" its turn of *)
(* the loop: together they are the correlation id, a fresh uuid per turn;  *)
(* step 0 is a row with none.  "what" and "link" keep of the payload what  *)
(* the properties read.                                                    *)
(***************************************************************************)
Payload == Cause \cup Rationale \cup ActionType \cup ErrorType \cup AnswerKind \cup Outcome

AuditEvent == [case_id : Nat, event_type : AuditEventType, by : Nat,
               step : Nat, what : Payload, link : LinkId]
=============================================================================
