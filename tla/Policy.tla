------------------------------- MODULE Policy -------------------------------
(***************************************************************************)
(* The policy engine (src/payrecover/policy.py): caps and the first-match  *)
(* precedence that turns a case and a diagnosis into the next action.      *)
(***************************************************************************)
EXTENDS Models

CONSTANTS MAX_LINKS,              \* payment links per case
          MAX_REMINDERS,          \* reminders per case
          ESCALATE_AMOUNT_PAISE   \* a human takes over strictly above this

ASSUME CapsAssumption ==
  /\ MAX_LINKS \in Nat \ {0}
  /\ MAX_REMINDERS \in Nat
  /\ ESCALATE_AMOUNT_PAISE \in Nat

\* Confidence in percent, so that 0.6 is 60.
MIN_CONFIDENCE == 60

TransientCauses == {"bank_downtime", "issuer_unavailable"}

FromPolicy(case, type, rationale, amount, link) ==
  [case_id |-> case.case_id, action_type |-> type, rationale |-> rationale,
   amount_paise |-> amount, payment_link_id |-> link]

Verdict(case, type, rationale) ==
  FromPolicy(case, type, rationale, NoAmount, NoLink)

\* Mutant: the threshold moves far above the amounts on which a human must decide.
HighAmountAtDoubleThreshold(case) ==
  case.failure.amount_paise > 2 * ESCALATE_AMOUNT_PAISE

\* Mutant: an amount at the threshold is taken for one above it.
HighAmountFromThreshold(case) ==
  case.failure.amount_paise >= ESCALATE_AMOUNT_PAISE

HighAmount(case) == case.failure.amount_paise > ESCALATE_AMOUNT_PAISE

\* Mutant: the wait rule forgets that the wait has been served.
WaitsAgain(case, diagnosis) == diagnosis.cause \in TransientCauses

\* Mutant: the link comes first and the wait after it.
WaitsAfterLink(case, diagnosis) ==
  diagnosis.cause \in TransientCauses /\ ~case.wait_completed /\ case.link_count > 0

MustWait(case, diagnosis) ==
  diagnosis.cause \in TransientCauses /\ ~case.wait_completed

MayIssue(case) ==
  case.active_payment_link_id = NoLink /\ case.link_count < MAX_LINKS

\* Mutant: the last reminder is never sent.
MayRemindOneFewer(case) ==
  case.active_payment_link_id # NoLink /\ case.reminder_count + 1 < MAX_REMINDERS

\* Mutant: one reminder beyond the cap.
MayRemindOneMore(case) ==
  case.active_payment_link_id # NoLink /\ case.reminder_count <= MAX_REMINDERS

MayRemind(case) ==
  case.active_payment_link_id # NoLink /\ case.reminder_count < MAX_REMINDERS

\* The rungs below the three stops.
Ladder(case, diagnosis) ==
  IF HighAmount(case) THEN Verdict(case, "escalate", "high_amount")
  ELSE IF diagnosis.cause = "ambiguous" THEN Verdict(case, "escalate", "ambiguous")
  ELSE IF diagnosis.confidence < MIN_CONFIDENCE
       THEN Verdict(case, "escalate", "low_confidence")
  ELSE IF MustWait(case, diagnosis) THEN Verdict(case, "wait", "transient_rail")
  ELSE IF MayIssue(case)
       THEN FromPolicy(case, "issue_link", "issue_link",
                       case.failure.amount_paise, NoLink)
  ELSE IF MayRemind(case)
       THEN FromPolicy(case, "remind", "remind", NoAmount,
                       case.active_payment_link_id)
  ELSE Verdict(case, "stop", "exhausted")

\* Mutant: nothing stops a customer who opted out from being worked on.
DecideIgnoringOptOut(case, diagnosis, kill_switch) ==
  IF kill_switch THEN Verdict(case, "stop", "kill_switch")
  ELSE Ladder(case, diagnosis)

Decide(case, diagnosis, kill_switch) ==
  IF kill_switch THEN Verdict(case, "stop", "kill_switch")
  ELSE IF case.opted_out THEN Verdict(case, "stop", "opt_out")
  ELSE IF case.status \in Terminal THEN Verdict(case, "stop", "already_terminal")
  ELSE Ladder(case, diagnosis)
=============================================================================
