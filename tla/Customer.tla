------------------------------ MODULE Customer ------------------------------
(***************************************************************************)
(* The simulated customer (src/payrecover/simulator/customer.py): what a   *)
(* hidden profile answers to one executed action.                          *)
(***************************************************************************)
EXTENDS Models

Contact == {"issue_link", "remind", "wait"}

\* The reminder that makes a pays_after_reminder customer pay: 1 when unset.
PayOn(truth) == IF truth.pay_on_reminder = 0 THEN 1 ELSE truth.pay_on_reminder

Pays(case, action, truth) ==
  \/ truth.profile = "pays_on_first_link" /\ action.action_type = "issue_link"
  \/ /\ truth.profile = "pays_after_reminder"
     /\ action.action_type = "remind"
     /\ case.reminder_count >= PayOn(truth)
  \/ /\ truth.profile = "pays_if_fast"
     /\ action.action_type = "issue_link"
     /\ ~case.wait_completed
  \/ /\ truth.profile = "pays_after_wait"
     /\ action.action_type = "issue_link"
     /\ case.wait_completed

Respond(case, action, truth) ==
  LET link == OrElse(action.payment_link_id, case.active_payment_link_id)
      Answer(kind, id) == [kind |-> kind, payment_link_id |-> id]
  IN IF case.opted_out \/ action.action_type \notin Contact
     THEN Answer("ignored", NoLink)
     ELSE IF truth.profile = "opts_out" THEN Answer("opted_out", link)
     ELSE IF Pays(case, action, truth) THEN Answer("paid", link)
     ELSE Answer("ignored", link)
=============================================================================
