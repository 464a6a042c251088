------------------------------- MODULE Actions ------------------------------
(***************************************************************************)
(* The executor (src/payrecover/actions.py): what each action does to the  *)
(* in-memory case and what it reports.  Where the executor calls Razorpay, *)
(* these operators take the reply: ok is FALSE for any RazorpayClientError.*)
(***************************************************************************)
EXTENDS Models

Reply == [ok : BOOLEAN, id : LinkId]

Ok(link) == [ok |-> TRUE, payment_link_id |-> link, error_type |-> "none"]

Failed(link, error) == [ok |-> FALSE, payment_link_id |-> link, error_type |-> error]

\* What a step of the executor hands back: the case it would save, and the result.
Executed(case, result) == [case |-> case, result |-> result]

Amount(action, case) ==
  IF action.amount_paise = NoAmount THEN case.failure.amount_paise
  ELSE action.amount_paise

RemindedLink(action, case) == OrElse(action.payment_link_id, case.active_payment_link_id)

\* The write the action asks of Razorpay when the run is not dry.
Calls(action, case) ==
  IF /\ action.action_type = "issue_link"
     /\ Amount(action, case) = case.failure.amount_paise
     /\ ~HasLink(case.active_payment_link_id)
  THEN "create"
  ELSE IF action.action_type = "remind" /\ HasLink(RemindedLink(action, case))
  THEN "notify"
  ELSE "none"

\* Mutant: the counter of links is not advanced with the id.
Linked0(case, id) ==
  [case EXCEPT !.active_payment_link_id = id, !.status = "diagnosed"]

Linked(case, id) ==
  [case EXCEPT !.link_count = @ + 1, !.active_payment_link_id = id,
               !.status = "diagnosed"]

IssueLink(action, case, reply) ==
  IF Amount(action, case) # case.failure.amount_paise
  THEN Executed(case, Failed(NoLink, "amount_mismatch"))
  ELSE IF HasLink(case.active_payment_link_id)
  THEN Executed(case, Ok(case.active_payment_link_id))
  ELSE IF ~reply.ok THEN Executed(case, Failed(NoLink, "razorpay"))
  ELSE Executed(Linked(case, reply.id), Ok(reply.id))

Remind(action, case, reply) ==
  LET link == RemindedLink(action, case)
  IN IF ~HasLink(link) THEN Executed(case, Failed(NoLink, "no_link"))
     ELSE IF ~reply.ok THEN Executed(case, Failed(link, "razorpay"))
     ELSE Executed([case EXCEPT !.reminder_count = @ + 1], Ok(link))

\* Mutant: the case waits, and nothing remembers that it did.
WaitUnrecorded(case) == Executed([case EXCEPT !.status = "waiting"], Ok(NoLink))

Wait(case) ==
  Executed([case EXCEPT !.status = "waiting", !.wait_completed = TRUE], Ok(NoLink))

Escalate(case) == Executed([case EXCEPT !.status = "escalated"], Ok(NoLink))

\* Mutant: every stop is taken for the end of the ladder.
StopAsExhausted(action, case) ==
  Executed([case EXCEPT !.status = "exhausted"], Ok(NoLink))

Stop(action, case) ==
  Executed([case EXCEPT !.status = IF action.rationale = "exhausted"
                                   THEN "exhausted" ELSE "stopped"],
           Ok(NoLink))

Dispatch(action, case, reply) ==
  CASE action.action_type = "issue_link" -> IssueLink(action, case, reply)
    [] action.action_type = "remind" -> Remind(action, case, reply)
    [] action.action_type = "wait" -> Wait(case)
    [] action.action_type = "escalate" -> Escalate(case)
    [] action.action_type = "stop" -> Stop(action, case)
=============================================================================
