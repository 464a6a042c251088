---------------------------- MODULE RunnerProofs ----------------------------
(***************************************************************************)
(* Proofs that the inductive invariant of RunnerInductive holds of every   *)
(* instance of the `run` command, and the properties it implies.           *)
(***************************************************************************)
EXTENDS RunnerInductive, TLAPS

-----------------------------------------------------------------------------
(* The operators of a turn: types, and what they keep of a case.            *)

USE DEF NoLink, BlankLink, DryLink, LiveLink

\* Policy always issues a well-formed action.
LEMMA FromPolicyType ==
  ASSUME NEW case \in Case, NEW type \in ActionType, NEW rationale \in Rationale,
         NEW amount \in Nat \cup {NoAmount}, NEW link \in LinkId
  PROVE  FromPolicy(case, type, rationale, amount, link) \in ActionRequest
BY DEF FromPolicy, ActionRequest, Case

\* A verdict that carries neither amount nor link is well formed.
LEMMA VerdictType ==
  ASSUME NEW case \in Case, NEW type \in ActionType, NEW rationale \in Rationale
  PROVE  Verdict(case, type, rationale) \in ActionRequest
BY FromPolicyType DEF Verdict, LinkId

\* Whatever the diagnosis and the switch, policy hands out a well-formed action.
LEMMA DecideType ==
  ASSUME NEW case \in Case, NEW d, NEW k
  PROVE  Decide(case, d, k) \in ActionRequest
<1>1. \A type \in ActionType, rationale \in Rationale :
        Verdict(case, type, rationale) \in ActionRequest
  BY VerdictType
<1>2. case.failure.amount_paise \in Nat /\ case.active_payment_link_id \in LinkId
  BY DEF Case, Failure
<1>3. FromPolicy(case, "issue_link", "issue_link", case.failure.amount_paise, NoLink)
        \in ActionRequest
  BY <1>2, FromPolicyType DEF ActionType, Rationale, LinkId
<1>4. FromPolicy(case, "remind", "remind", NoAmount, case.active_payment_link_id)
        \in ActionRequest
  BY <1>2, FromPolicyType DEF ActionType, Rationale
<1> QED BY <1>1, <1>3, <1>4 DEF Decide, Ladder, ActionType, Rationale

\* A diagnosis names a known cause, and a transient one only when the failure
\* names it itself.
LEMMA DiagnosesFacts ==
  ASSUME NEW f \in Failure, NEW d \in Diagnoses(f)
  PROVE  /\ d.cause \in Cause
         /\ d.cause \in TransientCauses => f.error_reason = d.cause
<1>0. DOMAIN Rules \subseteq Cause
  BY DEF Rules, Cause, Reason
<1>1. CASE f.error_reason \in DOMAIN Rules
  <2>1. d = [cause |-> f.error_reason, confidence |-> Rules[f.error_reason]]
    BY <1>1 DEF Diagnoses
  <2> QED BY <1>0, <1>1, <2>1
<1>2. CASE d = Fallback
  BY <1>2 DEF Fallback, TransientCauses, Cause
<1>3. CASE \E reply \in LlmReplies : d = FromLlm(f, reply)
  <2>1. PICK reply \in LlmReplies : d = FromLlm(f, reply)
    BY <1>3
  <2>2. d.cause = SanitizeCause(f, reply.cause)
    BY <2>1 DEF FromLlm
  <2> QED BY <2>2
          DEF SanitizeCause, WaitCauses, TransientCauses, AllowedCauses, Cause, Reason, Rules
<1> QED BY <1>1, <1>2, <1>3 DEF Diagnoses

\* What policy can decide on an open case while the kill switch is off.
LEMMA DecideCases ==
  ASSUME NEW case, case.opted_out \in BOOLEAN, Open(case), NEW d,
         NEW k \in BOOLEAN, ~k
  PROVE  LET a == Decide(case, d, k)
         IN \/ case.opted_out /\ a = Verdict(case, "stop", "opt_out")
            \/ /\ ~case.opted_out
               /\ \E r \in Grounds(case) : a = Verdict(case, "escalate", r)
            \/ /\ ~case.opted_out /\ ~HighAmount(case) /\ MustWait(case, d)
               /\ a = Verdict(case, "wait", "transient_rail")
            \/ /\ ~case.opted_out /\ ~HighAmount(case) /\ MayIssue(case)
               /\ a = FromPolicy(case, "issue_link", "issue_link",
                                 case.failure.amount_paise, NoLink)
            \/ /\ ~case.opted_out /\ ~HighAmount(case) /\ MayRemind(case)
               /\ a = FromPolicy(case, "remind", "remind", NoAmount,
                                 case.active_payment_link_id)
            \/ /\ ~case.opted_out /\ ~MayIssue(case) /\ ~MayRemind(case)
               /\ a = Verdict(case, "stop", "exhausted")
BY DEF Decide, Ladder, Grounds, HighAmount, Open

\* Policy lets Razorpay be called only for an amount the agent may handle, and a
\* link be made only where none is held.
LEMMA DecideLicense ==
  ASSUME NEW case \in Case, Open(case), NEW d, NEW k \in BOOLEAN, ~k,
         NEW a, a = Decide(case, d, k)
  PROVE  /\ a.action_type \in {"issue_link", "remind"} => ~HighAmount(case)
         /\ a.action_type = "issue_link" => case.active_payment_link_id = NoLink
<1>1. case.opted_out \in BOOLEAN
  BY DEF Case
<1> QED BY <1>1, DecideCases DEF Verdict, FromPolicy, MayIssue

\* What each way of updating a case writes, and what it leaves alone.
LEMMA StatusUpdate ==
  ASSUME NEW case \in Case, NEW s \in CaseStatus
  PROVE  LET new == [case EXCEPT !.status = s]
         IN /\ new \in Case /\ new.status = s
            /\ new.case_id = case.case_id /\ new.failure = case.failure
            /\ new.link_count = case.link_count /\ new.reminder_count = case.reminder_count
            /\ new.opted_out = case.opted_out /\ new.wait_completed = case.wait_completed
            /\ new.active_payment_link_id = case.active_payment_link_id
BY DEF Case

\* Serving a wait sets its flag and leaves the counters alone.
LEMMA WaitUpdate ==
  ASSUME NEW case \in Case
  PROVE  LET new == [case EXCEPT !.status = "waiting", !.wait_completed = TRUE]
         IN /\ new \in Case /\ new.status = "waiting" /\ new.wait_completed = TRUE
            /\ new.case_id = case.case_id /\ new.failure = case.failure
            /\ new.link_count = case.link_count /\ new.reminder_count = case.reminder_count
            /\ new.opted_out = case.opted_out
            /\ new.active_payment_link_id = case.active_payment_link_id
<1>1. "waiting" \in CaseStatus
  BY DEF CaseStatus
<1> QED BY <1>1 DEF Case

\* A link advances its counter with its id, and reopens the case as diagnosed.
LEMMA LinkUpdate ==
  ASSUME NEW case \in Case, NEW id \in LinkId
  PROVE  LET new == Linked(case, id)
         IN /\ new \in Case /\ new.status = "diagnosed"
            /\ new.link_count = case.link_count + 1 /\ new.active_payment_link_id = id
            /\ new.case_id = case.case_id /\ new.failure = case.failure
            /\ new.reminder_count = case.reminder_count
            /\ new.opted_out = case.opted_out /\ new.wait_completed = case.wait_completed
<1>1. case.link_count + 1 \in Nat /\ "diagnosed" \in CaseStatus
  BY DEF Case, CaseStatus
<1> QED BY <1>1 DEF Case, Linked

\* A reminder moves one counter and nothing else.
LEMMA ReminderUpdate ==
  ASSUME NEW case \in Case
  PROVE  LET new == [case EXCEPT !.reminder_count = @ + 1]
         IN /\ new \in Case /\ new.reminder_count = case.reminder_count + 1
            /\ new.case_id = case.case_id /\ new.failure = case.failure
            /\ new.status = case.status /\ new.link_count = case.link_count
            /\ new.opted_out = case.opted_out /\ new.wait_completed = case.wait_completed
            /\ new.active_payment_link_id = case.active_payment_link_id
<1>1. case.reminder_count + 1 \in Nat
  BY DEF Case
<1> QED BY <1>1 DEF Case

\* An opt-out sets one flag and nothing else.
LEMMA OptOutUpdate ==
  ASSUME NEW case \in Case
  PROVE  LET new == [case EXCEPT !.opted_out = TRUE]
         IN /\ new \in Case /\ new.opted_out = TRUE
            /\ new.case_id = case.case_id /\ new.failure = case.failure
            /\ new.status = case.status /\ new.link_count = case.link_count
            /\ new.reminder_count = case.reminder_count
            /\ new.wait_completed = case.wait_completed
            /\ new.active_payment_link_id = case.active_payment_link_id
BY DEF Case

\* Results are well formed, and say whether the action succeeded.
LEMMA ResultType ==
  /\ \A link \in LinkId : Ok(link) \in ActionResult /\ Ok(link).ok
  /\ \A link \in LinkId, error \in ErrorType :
       Failed(link, error) \in ActionResult /\ ~Failed(link, error).ok
BY DEF Ok, Failed, ActionResult, ErrorType

\* The executor, given policy's own decision on an open, well-shaped case, keeps
\* its shape, id and failure; if it reports success and the case stays open, the
\* case has moved one rung; if it reports failure, the case is still open.
LEMMA DispatchFacts ==
  ASSUME NEW case \in Case, Shape(case), Open(case),
         NEW d \in Diagnoses(case.failure),
         NEW reply \in Reply, reply.ok => reply.id # NoLink,
         NEW k \in BOOLEAN, ~k, NEW a, a = Decide(case, d, k),
         NEW done, done = Dispatch(a, case, reply)
  PROVE  /\ done.case \in Case /\ done.result \in ActionResult
         /\ done.case.case_id = case.case_id /\ done.case.failure = case.failure
         /\ Shape(done.case)
         /\ done.result.ok /\ Open(done.case) => Progress(done.case) = Progress(case) + 1
         /\ ~done.result.ok \/ a.action_type \in Contact => Open(done.case)
<1>1. /\ case.link_count \in Nat /\ case.reminder_count \in Nat
      /\ case.active_payment_link_id \in LinkId /\ case.failure \in Failure
      /\ case.failure.amount_paise \in Nat
      /\ case.opted_out \in BOOLEAN /\ case.wait_completed \in BOOLEAN
      /\ case.status \in CaseStatus /\ case.case_id \in Nat
  BY DEF Case, Failure
<1>2. MAX_LINKS \in Nat /\ MAX_LINKS > 0 /\ MAX_REMINDERS \in Nat
  BY CapsAssumption
<1>3. reply.ok \in BOOLEAN /\ reply.id \in LinkId
  BY DEF Reply
<1>4. NoLink \in LinkId /\ "none" \in LinkId
  BY DEF LinkId
<1>5. /\ \A s \in {"stopped", "escalated", "exhausted"} : s \in CaseStatus /\ s \in Terminal
      /\ \A s \in {"waiting", "diagnosed"} : s \notin Terminal
  BY DEF CaseStatus, Terminal
<1> DEFINE Goal == /\ done.case \in Case /\ done.result \in ActionResult
                   /\ done.case.case_id = case.case_id
                   /\ done.case.failure = case.failure
                   /\ Shape(done.case)
                   /\ done.result.ok /\ Open(done.case) =>
                        Progress(done.case) = Progress(case) + 1
                   /\ ~done.result.ok \/ a.action_type \in Contact => Open(done.case)
<1>6. ASSUME case.opted_out, a = Verdict(case, "stop", "opt_out") PROVE Goal
  <2> DEFINE new == [case EXCEPT !.status = "stopped"]
  <2>1. done.case = new /\ done.result = Ok(NoLink)
    BY <1>6 DEF Dispatch, Verdict, FromPolicy, Stop, Executed
  <2>2. a.action_type \notin Contact
    BY <1>6 DEF Verdict, FromPolicy, Contact
  <2>3. /\ new \in Case /\ new.status = "stopped"
        /\ new.case_id = case.case_id /\ new.failure = case.failure
        /\ new.link_count = case.link_count /\ new.reminder_count = case.reminder_count
        /\ new.opted_out = case.opted_out /\ new.wait_completed = case.wait_completed
        /\ new.active_payment_link_id = case.active_payment_link_id
    BY <1>5, StatusUpdate
  <2> HIDE DEF new
  <2>4. Shape(new) /\ ~Open(new)
    BY <1>5, <1>6, <2>3 DEF Shape, HighAmount, Open
  <2> QED BY <1>4, <2>1, <2>2, <2>3, <2>4, ResultType DEF Contact
<1>7. ASSUME ~case.opted_out,
             NEW r \in Grounds(case),
             a = Verdict(case, "escalate", r)
      PROVE  Goal
  <2> DEFINE new == [case EXCEPT !.status = "escalated"]
  <2>1. done.case = new /\ done.result = Ok(NoLink)
    BY <1>7 DEF Dispatch, Verdict, FromPolicy, Escalate, Executed
  <2>2. a.action_type \notin Contact
    BY <1>7 DEF Verdict, FromPolicy, Contact
  <2>3. /\ new \in Case /\ new.status = "escalated"
        /\ new.case_id = case.case_id /\ new.failure = case.failure
        /\ new.link_count = case.link_count /\ new.reminder_count = case.reminder_count
        /\ new.opted_out = case.opted_out /\ new.wait_completed = case.wait_completed
        /\ new.active_payment_link_id = case.active_payment_link_id
    BY <1>5, StatusUpdate
  <2> HIDE DEF new
  <2>4. Shape(new) /\ ~Open(new)
    BY <1>5, <1>7, <2>3 DEF Shape, HighAmount, Open
  <2> QED BY <1>4, <2>1, <2>2, <2>3, <2>4, ResultType DEF Contact
<1>8. ASSUME ~case.opted_out, ~HighAmount(case), MustWait(case, d),
             a = Verdict(case, "wait", "transient_rail")
      PROVE  Goal
  <2> DEFINE new == [case EXCEPT !.status = "waiting", !.wait_completed = TRUE]
  <2>1. done.case = new /\ done.result = Ok(NoLink)
    BY <1>8 DEF Dispatch, Verdict, FromPolicy, Wait, Executed
  <2>2. a.action_type = "wait"
    BY <1>8 DEF Verdict, FromPolicy
  <2>3. /\ new \in Case /\ new.status = "waiting" /\ new.wait_completed = TRUE
        /\ new.case_id = case.case_id /\ new.failure = case.failure
        /\ new.link_count = case.link_count /\ new.reminder_count = case.reminder_count
        /\ new.opted_out = case.opted_out
        /\ new.active_payment_link_id = case.active_payment_link_id
    BY WaitUpdate
  <2> HIDE DEF new
  <2>4. ~case.wait_completed /\ case.failure.error_reason \in TransientCauses
    BY <1>1, <1>8, DiagnosesFacts DEF MustWait
  <2>5. Shape(new) /\ Open(new)
    BY <1>5, <1>8, <2>3, <2>4 DEF Shape, HighAmount, Open
  <2>6. Progress(new) = Progress(case) + 1
    BY <1>1, <2>3, <2>4 DEF Progress
  <2> QED BY <1>4, <2>1, <2>2, <2>3, <2>5, <2>6, ResultType
<1>9. ASSUME ~case.opted_out, ~HighAmount(case), MayIssue(case),
             a = FromPolicy(case, "issue_link", "issue_link",
                            case.failure.amount_paise, NoLink)
      PROVE  Goal
  <2>1. /\ case.active_payment_link_id = NoLink /\ case.link_count = 0
        /\ case.reminder_count = 0
    BY <1>1, <1>9 DEF MayIssue, Shape, HasLink
  <2>2. a.action_type = "issue_link"
    BY <1>9 DEF FromPolicy
  <2>3. done = IF reply.ok THEN Executed(Linked(case, reply.id), Ok(reply.id))
               ELSE Executed(case, Failed(NoLink, "razorpay"))
    BY <1>1, <1>3, <1>9, <2>1 DEF Dispatch, FromPolicy, IssueLink, Amount, HasLink, NoAmount
  <2>4. CASE ~reply.ok
    <3>1. done.case = case /\ done.result = Failed(NoLink, "razorpay")
      BY <2>3, <2>4 DEF Executed
    <3> QED BY <1>4, <1>9, <3>1, ResultType DEF ErrorType
  <2>5. CASE reply.ok
    <3>1. done.case = Linked(case, reply.id) /\ done.result = Ok(reply.id)
      BY <2>3, <2>5 DEF Executed
    <3>2. Open(done.case)
      BY <1>3, <1>5, <3>1, LinkUpdate DEF Open
    <3>4. Shape(done.case)
      BY <1>1, <1>2, <1>3, <1>9, <2>1, <2>5, <3>1, LinkUpdate DEF Shape, HighAmount
    <3>5. Progress(done.case) = Progress(case) + 1
      BY <1>1, <1>3, <3>1, LinkUpdate DEF Progress
    <3> QED BY <1>3, <1>9, <3>1, <3>2, <3>4, <3>5, LinkUpdate, ResultType
  <2> QED BY <1>3, <2>4, <2>5
<1>10. ASSUME ~case.opted_out, ~HighAmount(case), MayRemind(case),
              a = FromPolicy(case, "remind", "remind", NoAmount,
                             case.active_payment_link_id)
       PROVE  Goal
  <2>1. a.action_type = "remind" /\ a.payment_link_id = case.active_payment_link_id
    BY <1>10 DEF FromPolicy
  <2>2. RemindedLink(a, case) = case.active_payment_link_id
    BY <2>1 DEF RemindedLink, OrElse
  <2>3. done = Remind(a, case, reply)
    BY <2>1 DEF Dispatch
  <2>4. CASE done = Executed(case, Failed(NoLink, "no_link"))
             \/ done = Executed(case, Failed(case.active_payment_link_id, "razorpay"))
    <3>1. done.case = case /\ done.result \in ActionResult /\ ~done.result.ok
      BY <1>1, <1>4, <2>4, ResultType DEF Executed, ErrorType
    <3> QED BY <1>10, <3>1
  <2>5. CASE /\ HasLink(case.active_payment_link_id)
             /\ done = Executed([case EXCEPT !.reminder_count = @ + 1],
                                Ok(case.active_payment_link_id))
    <3> DEFINE new == [case EXCEPT !.reminder_count = @ + 1]
    <3>1. done.case = new /\ done.result = Ok(case.active_payment_link_id)
      BY <2>5 DEF Executed
    <3>2. /\ new \in Case /\ new.reminder_count = case.reminder_count + 1
          /\ new.case_id = case.case_id /\ new.failure = case.failure
          /\ new.status = case.status /\ new.link_count = case.link_count
          /\ new.opted_out = case.opted_out /\ new.wait_completed = case.wait_completed
          /\ new.active_payment_link_id = case.active_payment_link_id
      BY ReminderUpdate
    <3> HIDE DEF new
    <3>3. case.status # "exhausted" /\ case.reminder_count < MAX_REMINDERS
      BY <1>10 DEF Open, Terminal, MayRemind
    <3>4. Shape(new) /\ Open(new)
      BY <1>1, <1>2, <1>10, <2>5, <3>2, <3>3 DEF Shape, HighAmount, Open
    <3>5. Progress(new) = Progress(case) + 1
      BY <1>1, <3>2 DEF Progress
    <3> QED BY <1>1, <1>10, <3>1, <3>2, <3>4, <3>5, ResultType
  <2> QED BY <1>3, <2>2, <2>3, <2>4, <2>5 DEF Remind
<1>11. ASSUME ~case.opted_out, ~MayIssue(case), ~MayRemind(case),
              a = Verdict(case, "stop", "exhausted")
       PROVE  Goal
  <2> DEFINE new == [case EXCEPT !.status = "exhausted"]
  <2>1. done.case = new /\ done.result = Ok(NoLink)
    BY <1>11 DEF Dispatch, Verdict, FromPolicy, Stop, Executed
  <2>2. a.action_type \notin Contact
    BY <1>11 DEF Verdict, FromPolicy, Contact
  <2>3. /\ new \in Case /\ new.status = "exhausted"
        /\ new.case_id = case.case_id /\ new.failure = case.failure
        /\ new.link_count = case.link_count /\ new.reminder_count = case.reminder_count
        /\ new.opted_out = case.opted_out /\ new.wait_completed = case.wait_completed
        /\ new.active_payment_link_id = case.active_payment_link_id
    BY <1>5, StatusUpdate
  <2> HIDE DEF new
  <2>9. case.reminder_count = MAX_REMINDERS
    BY <1>1, <1>2, <1>11 DEF MayIssue, MayRemind, Shape
  <2>4. Shape(new) /\ ~Open(new)
    BY <2>9, <1>5, <1>11, <2>3 DEF Shape, HighAmount, Open
  <2> QED BY <1>4, <2>1, <2>2, <2>3, <2>4, ResultType DEF Contact
<1> HIDE DEF Goal
<1>12. Goal
  BY <1>1, <1>6, <1>7, <1>8, <1>9, <1>10, <1>11, DecideCases
<1> QED BY <1>12 DEF Goal

\* The customer's answer leaves the caps alone, keeps the shape and never
\* reopens a case.
LEMMA AnswerFacts ==
  ASSUME NEW case \in Case, Shape(case), NEW a \in ActionRequest, NEW truth,
         a.action_type \in Contact => Open(case),
         NEW answer, answer = Respond(case, a, truth),
         NEW new, new = Answered(case, answer)
  PROVE  /\ answer.kind \in AnswerKind /\ answer.payment_link_id \in LinkId
         /\ new \in Case /\ new.case_id = case.case_id /\ new.failure = case.failure
         /\ Shape(new)
         /\ Open(new) => Open(case)
         /\ Progress(new) = Progress(case)
<1>1. /\ case.active_payment_link_id \in LinkId /\ a.payment_link_id \in LinkId
      /\ case.opted_out \in BOOLEAN /\ NoLink \in LinkId
  BY DEF Case, ActionRequest, LinkId
<1>2. answer.kind \in AnswerKind /\ answer.payment_link_id \in LinkId
  BY <1>1 DEF Respond, OrElse, AnswerKind
<1>3. answer.kind # "ignored" => ~case.opted_out /\ Open(case)
  BY <1>1 DEF Respond
<1>4. CASE new = [case EXCEPT !.opted_out = TRUE] /\ answer.kind # "ignored"
  <2>1. /\ new \in Case /\ new.opted_out = TRUE
        /\ new.case_id = case.case_id /\ new.failure = case.failure
        /\ new.status = case.status /\ new.link_count = case.link_count
        /\ new.reminder_count = case.reminder_count
        /\ new.wait_completed = case.wait_completed
        /\ new.active_payment_link_id = case.active_payment_link_id
    BY <1>4, OptOutUpdate
  <2> QED BY <1>2, <1>3, <1>4, <2>1 DEF Shape, HighAmount, Open, Terminal, Progress
<1>5. CASE new = [case EXCEPT !.status = "recovered"] /\ answer.kind # "ignored"
  <2>1. "recovered" \in CaseStatus
    BY DEF CaseStatus
  <2>2. /\ new \in Case /\ new.status = "recovered"
        /\ new.case_id = case.case_id /\ new.failure = case.failure
        /\ new.link_count = case.link_count /\ new.reminder_count = case.reminder_count
        /\ new.opted_out = case.opted_out /\ new.wait_completed = case.wait_completed
        /\ new.active_payment_link_id = case.active_payment_link_id
    BY <1>5, <2>1, StatusUpdate
  <2> QED BY <1>2, <1>3, <1>5, <2>2 DEF Shape, HighAmount, Open, Terminal, Progress
<1>6. CASE new = case
  BY <1>2, <1>6
<1> QED BY <1>4, <1>5, <1>6 DEF Answered

-----------------------------------------------------------------------------
(* What a step of one process leaves alone.                                 *)

LocalKept(q) ==
  /\ pc'[q] = pc[q] /\ job'[q] = job[q] /\ snap'[q] = snap[q] /\ cur'[q] = cur[q]
  /\ step'[q] = step[q] /\ action'[q] = action[q] /\ result'[q] = result[q]

\* A process that does not move keeps its part of the invariant, whatever rows
\* the others write.
LEMMA OthersKeep ==
  ASSUME NEW F, NEW q \in Procs, SnapOK(F, q), CurOK(F, q), TurnOK(q), LocalKept(q)
  PROVE  SnapOK(F, q)' /\ CurOK(F, q)' /\ TurnOK(q)'
<1>1. SnapOK(F, q)'
  BY DEF SnapOK, LocalKept
<1>2. CurOK(F, q)'
  BY DEF CurOK, Opened, LocalKept
<1>3. TurnOK(q)'
  BY DEF TurnOK, Climbed, Opened, LocalKept
<1> QED BY <1>1, <1>2, <1>3

\* Writing a copy of a case keeps the rows copies.
LEMMA UpsertKeeps ==
  ASSUME NEW F, cases \in [Cases -> Case \cup {NoCase}], RowsInv(F),
         NEW case \in Case, case.case_id \in Cases, CopyOf(F, case.case_id, case),
         Upsert(case)
  PROVE  cases' \in [Cases -> Case \cup {NoCase}] /\ RowsInv(F)'
<1>1. cases' \in [Cases -> Case \cup {NoCase}]
  BY DEF Upsert
<1>2. \A c \in Cases : cases'[c] = IF c = case.case_id THEN case ELSE cases[c]
  BY DEF Upsert
<1>3. RowsInv(F)'
  BY <1>2 DEF RowsInv, Rows
<1> QED BY <1>1, <1>3

\* A step that asks nothing of Razorpay keeps what it has done for each failure.
LEMMA ServiceKept ==
  ASSUME NEW F, ServiceInv(F), UNCHANGED razorpayVars
  PROVE  ServiceInv(F)'
BY DEF ServiceInv, razorpayVars

\* Selected cases stay rows of the snapshot as long as none is added.
LEMMA SelectedKept ==
  ASSUME Selected, UNCHANGED snap, \A q \in Procs : todo'[q] \subseteq todo[q]
  PROVE  Selected'
BY DEF Selected

\* An audit row written by a typed process is typed.
LEMMA AppendType ==
  ASSUME audit \subseteq AuditEvent, NEW c \in Nat, NEW type \in AuditEventType,
         NEW by \in Nat, NEW turn \in Nat, NEW what \in Payload, NEW link \in LinkId,
         Append(Event(c, type, by, turn, what, link))
  PROVE  audit' \subseteq AuditEvent
BY DEF Append, Event, AuditEvent

-----------------------------------------------------------------------------
(* The steps of one process.                                                *)

\* One process's step keeps the invariant if it keeps the rows, their failures
\* and its own part.
LEMMA Assemble ==
  ASSUME NEW F, Held(F), NEW p \in Procs, TypeOK', Selected', RowsInv(F)',
         UNCHANGED razorpayVars \/ ServiceInv(F)',
         SnapOK(F, p)' /\ CurOK(F, p)' /\ TurnOK(p)',
         \A q \in Procs \ {p} : LocalKept(q)
  PROVE  Held(F)'
<1>1. \A q \in Procs \ {p} : SnapOK(F, q)' /\ CurOK(F, q)' /\ TurnOK(q)'
  BY OthersKeep DEF Held
<1>2. ServiceInv(F)'
  BY ServiceKept DEF Held
<1> QED BY <1>1, <1>2 DEF Held

\* A step that writes no row keeps the rows.
LEMMA RowsKept ==
  ASSUME NEW F, RowsInv(F), UNCHANGED cases
  PROVE  RowsInv(F)'
BY DEF RowsInv, Rows

\* A step that only moves the process on, writes to the trail, drops a selected
\* case or counts a crash.
LEMMA LocalMove ==
  ASSUME NEW F, Held(F), NEW p \in Procs, NEW to \in PC, pc' = [pc EXCEPT ![p] = to],
         UNCHANGED <<cases, truths, razorpayVars, job, snap, cur, step, action, result, runs>>,
         todo' \in [Procs -> SUBSET Cases], \A q \in Procs : todo'[q] \subseteq todo[q],
         audit' \subseteq AuditEvent,
         crashes' \in 0..MaxCrashes,
         CurOK(F, p)', TurnOK(p)'
  PROVE  Held(F)'
<1>1. TypeOK'
  BY DEF Held, TypeOK, StoreTypeOK, RazorpayTypeOK, razorpayVars
<1>2. RowsInv(F)'
  BY RowsKept DEF Held, razorpayVars
<1>3. SnapOK(F, p)'
  BY DEF Held, SnapOK
<1>4. \A q \in Procs \ {p} : LocalKept(q)
  BY DEF LocalKept, Held, TypeOK
<1>5. Selected'
  BY SelectedKept DEF Held
<1> QED BY <1>1, <1>2, <1>3, <1>4, <1>5, Assemble

\* The types of what a process reads of itself.
LEMMA LocalTypes ==
  ASSUME NEW F, Held(F), NEW p \in Procs
  PROVE  /\ pc \in [Procs -> PC] /\ pc[p] \in PC
         /\ cur[p] \in Case /\ cur[p].case_id \in Nat
         /\ cur[p].active_payment_link_id \in LinkId /\ NoLink \in LinkId
         /\ cur[p].opted_out \in BOOLEAN /\ cur[p].status \in CaseStatus
         /\ cur[p].failure \in Failure
         /\ cur[p].link_count \in Nat /\ cur[p].reminder_count \in Nat
         /\ Progress(cur[p]) \in Nat
         /\ job[p].by \in Nat /\ job[p].kill \in BOOLEAN
         /\ step[p] \in Nat /\ step[p] <= MaxSteps /\ MaxSteps \in Nat
         /\ action[p] \in ActionRequest /\ action[p].payment_link_id \in LinkId
         /\ action[p].rationale \in Rationale /\ action[p].action_type \in ActionType
         /\ result[p] \in ActionResult /\ result[p].payment_link_id \in LinkId
         /\ result[p].error_type \in ErrorType /\ result[p].ok \in BOOLEAN
         /\ audit \subseteq AuditEvent /\ cases \in [Cases -> Case \cup {NoCase}]
         /\ crashes \in 0..MaxCrashes /\ todo \in [Procs -> SUBSET Cases]
         /\ SnapOK(F, p) /\ CurOK(F, p) /\ TurnOK(p)
<1>1. /\ pc \in [Procs -> PC] /\ cur[p] \in Case
      /\ job[p] \in [mode : {"dry", "live", "inject"}, kill : BOOLEAN, by : Nat]
      /\ step[p] \in 0..MaxSteps /\ MaxSteps \in Nat
      /\ action[p] \in ActionRequest /\ result[p] \in ActionResult
      /\ audit \subseteq AuditEvent /\ cases \in [Cases -> Case \cup {NoCase}]
      /\ crashes \in 0..MaxCrashes /\ todo \in [Procs -> SUBSET Cases]
      /\ SnapOK(F, p) /\ CurOK(F, p) /\ TurnOK(p)
  BY RunnerAssumption DEF Held, TypeOK, StoreTypeOK
<1>2. /\ cur[p].case_id \in Nat /\ cur[p].active_payment_link_id \in LinkId
      /\ cur[p].opted_out \in BOOLEAN /\ cur[p].status \in CaseStatus
      /\ cur[p].failure \in Failure
      /\ cur[p].link_count \in Nat /\ cur[p].reminder_count \in Nat
  BY <1>1 DEF Case
<1>3. Progress(cur[p]) \in Nat
  BY <1>2 DEF Progress
<1>4. /\ action[p].payment_link_id \in LinkId /\ action[p].rationale \in Rationale
      /\ action[p].action_type \in ActionType
  BY <1>1 DEF ActionRequest
<1>5. /\ result[p].payment_link_id \in LinkId /\ result[p].error_type \in ErrorType
      /\ result[p].ok \in BOOLEAN
  BY <1>1 DEF ActionResult
<1>6. NoLink \in LinkId
  BY DEF LinkId
<1> QED BY <1>1, <1>2, <1>3, <1>4, <1>5, <1>6

\* The case at hand is still in the snapshot as it was found.
LEMMA OpenedType ==
  ASSUME NEW F, Held(F), NEW p \in Procs, cur[p].case_id \in Cases, Opened(p) # NoCase
  PROVE  Progress(Opened(p)) \in Nat
<1>1. Opened(p) \in Case
  BY DEF Opened, Held, TypeOK
<1> QED BY <1>1 DEF Progress, Case

\* A row a process writes under its own correlation id is typed.
LEMMA LogType ==
  ASSUME NEW F, Held(F), NEW p \in Procs, NEW type \in AuditEventType, NEW what \in Payload,
         NEW link \in LinkId, Log(p, type, what, link)
  PROVE  audit' \subseteq AuditEvent
BY LocalTypes, AppendType DEF Log

\* Releasing a case leaves a set of cases.
LEMMA FinishType ==
  ASSUME NEW F, Held(F), NEW p \in Procs, FinishCase(p)
  PROVE  /\ todo' \in [Procs -> SUBSET Cases]
         /\ \A q \in Procs : todo'[q] \subseteq todo[q]
BY DEF FinishCase, Held, TypeOK

\* Skipping, detecting, returning and dying touch no row.
LEMMA BatchMoves ==
  ASSUME NEW F, Held(F), NEW p \in Procs,
         SkipTerminal(p) \/ LogDetected(p) \/ Return(p) \/ Crash(p)
  PROVE  Held(F)'
<1> USE LocalTypes DEF runVars, caseVars, storeVars
<1>1. CASE SkipTerminal(p)
  <2>1. PICK c \in Cases :
          /\ IsNext(p, c) /\ Go(p, "next", "next")
          /\ Append(Event(c, "policy_verdict", job[p].by, 0, "already_terminal",
                          snap[p][c].active_payment_link_id))
          /\ todo' = [todo EXCEPT ![p] = @ \ {c}]
    BY <1>1 DEF SkipTerminal
  <2>2. c \in Nat /\ snap[p][c].active_payment_link_id \in LinkId
    BY <2>1, StoreAssumption DEF Held, TypeOK, Selected, IsNext, Case
  <2>3. audit' \subseteq AuditEvent
    BY <2>1, <2>2, AppendType DEF AuditEventType, Payload, Rationale
  <2>4. CurOK(F, p)' /\ TurnOK(p)'
    BY <2>1 DEF Go, CurOK, Opened, TurnOK, Climbed
  <2>5. /\ todo' \in [Procs -> SUBSET Cases] /\ crashes' \in 0..MaxCrashes
        /\ \A q \in Procs : todo'[q] \subseteq todo[q]
    BY <1>1, <2>1 DEF SkipTerminal
  <2> QED BY <1>1, <2>1, <2>3, <2>4, <2>5, LocalMove DEF SkipTerminal, Go, PC
<1>2. CASE LogDetected(p)
  <2>1. audit' \subseteq AuditEvent
    BY <1>2, AppendType DEF LogDetected, AuditEventType, Payload, ErrorType
  <2>2. CurOK(F, p)' /\ TurnOK(p)'
    BY <1>2 DEF LogDetected, Go, CurOK, Opened, TurnOK, Climbed
  <2> QED BY <1>2, <2>1, <2>2, LocalMove DEF LogDetected, Go, PC
<1>3. CASE Return(p)
  <2>1. CurOK(F, p)' /\ TurnOK(p)'
    BY <1>3 DEF Return, Go, CurOK, Opened, TurnOK, Climbed
  <2> QED BY <1>3, <2>1, LocalMove DEF Return, Go, PC
<1>4. CASE Crash(p)
  <2>1. CurOK(F, p)' /\ TurnOK(p)'
    BY <1>4 DEF Crash, CurOK, Opened, TurnOK, Climbed
  <2>2. crashes' \in 0..MaxCrashes
    BY <1>4, RunnerAssumption DEF Crash
  <2>3. /\ todo' \in [Procs -> SUBSET Cases]
        /\ \A q \in Procs : todo'[q] \subseteq todo[q]
    BY <1>4 DEF Crash
  <2> QED BY <1>4, <2>1, <2>2, <2>3, LocalMove DEF Crash, PC
<1> QED BY <1>1, <1>2, <1>3, <1>4

\* Writing to the trail and going round the loop keep the turn as it stands.
LEMMA TurnMoves ==
  ASSUME NEW F, Held(F), NEW p \in Procs,
         LogVerdict(p) \/ LogAttempt(p) \/ LogResult(p) \/ NoCustomer(p) \/ NextTurn(p)
  PROVE  Held(F)'
<1> USE LocalTypes DEF runVars, caseVars, storeVars
<1>1. CASE LogVerdict(p)
  <2>1. OrElse(action[p].payment_link_id, cur[p].active_payment_link_id) \in LinkId
    BY DEF OrElse
  <2>2. audit' \subseteq AuditEvent
    BY <1>1, <2>1, LogType DEF LogVerdict, AuditEventType, Payload
  <2>3. CurOK(F, p)' /\ TurnOK(p)'
    BY <1>1 DEF LogVerdict, Go, CurOK, Opened, TurnOK, Climbed
  <2> QED BY <1>1, <2>2, <2>3, LocalMove DEF LogVerdict, Go, PC
<1>2. CASE LogAttempt(p)
  <2>1. audit' \subseteq AuditEvent
    BY <1>2, LogType DEF LogAttempt, AuditEventType, Payload
  <2>2. CurOK(F, p)' /\ TurnOK(p)'
    BY <1>2 DEF LogAttempt, Go, CurOK, Opened, TurnOK, Climbed
  <2> QED BY <1>2, <2>1, <2>2, LocalMove DEF LogAttempt, Go, PC
<1>3. CASE LogResult(p)
  <2>1. audit' \subseteq AuditEvent
    BY <1>3, LogType DEF LogResult, AuditEventType, Payload
  <2>2. CurOK(F, p)' /\ TurnOK(p)'
    BY <1>3 DEF LogResult, Go, CurOK, Opened, TurnOK, Climbed
  <2> QED BY <1>3, <2>1, <2>2, LocalMove DEF LogResult, Go, PC
<1>4. CASE NoCustomer(p)
  <2>1. CurOK(F, p)' /\ TurnOK(p)'
    BY <1>4 DEF NoCustomer, Go, CurOK, Opened, TurnOK, Climbed
  <2> QED BY <1>4, <2>1, LocalMove DEF NoCustomer, Go, PC
<1>5. CASE NextTurn(p)
  <2>1. CurOK(F, p)' /\ TurnOK(p)'
    BY <1>5 DEF NextTurn, Go, CurOK, Opened, TurnOK, Climbed, Open
  <2> QED BY <1>5, <2>1, LocalMove DEF NextTurn, Go, PC
<1> QED BY <1>1, <1>2, <1>3, <1>4, <1>5

\* Releasing a case, whatever its outcome, ends the turn and writes no row.
LEMMA ClosingMoves ==
  ASSUME NEW F, Held(F), NEW p \in Procs, ParkFailed(p) \/ CloseCase(p) \/ ParkExpired(p)
  PROVE  Held(F)'
<1> USE LocalTypes DEF runVars, caseVars, storeVars
<1>1. pc' = [pc EXCEPT ![p] = "next"] /\ FinishCase(p)
  BY DEF ParkFailed, CloseCase, ParkExpired, Go
<1>2. CurOK(F, p)' /\ TurnOK(p)'
  BY <1>1 DEF CurOK, Opened, TurnOK, Climbed
<1>3. audit' \subseteq AuditEvent
  <2>1. CASE ParkFailed(p)
    BY <2>1, LogType DEF ParkFailed, AuditEventType, Payload, Outcome
  <2>2. CASE CloseCase(p)
    <3>1. OutcomeOf(cur[p]) \in Payload
      BY DEF OutcomeOf, Payload, Outcome, Terminal
    <3> QED BY <2>2, <3>1, LogType DEF CloseCase, AuditEventType
  <2>3. CASE ParkExpired(p)
    BY <2>3, AppendType DEF ParkExpired, AuditEventType, Payload, Outcome
  <2> QED BY <2>1, <2>2, <2>3
<1>4. todo' \in [Procs -> SUBSET Cases] /\ \A q \in Procs : todo'[q] \subseteq todo[q]
  BY <1>1, FinishType
<1>5. /\ UNCHANGED <<cases, truths, razorpayVars, job, snap, cur, step, action, result, runs>>
      /\ crashes' \in 0..MaxCrashes
  BY DEF ParkFailed, CloseCase, ParkExpired
<1> QED BY <1>1, <1>2, <1>3, <1>4, <1>5, LocalMove DEF PC

\* Starting an invocation: the snapshot is a copy of rows that satisfy RowsInv.
LEMMA StartKeeps ==
  ASSUME NEW F, Held(F), NEW p \in Procs, StartRun(p)
  PROVE  Held(F)'
<1> USE LocalTypes DEF runVars, caseVars, storeVars
<1>1. PICK mode \in Modes, kill \in Kills, selected \in Selections :
        /\ job' = [job EXCEPT ![p] = [mode |-> mode, kill |-> kill, by |-> runs + 1]]
        /\ todo' = [todo EXCEPT ![p] = selected]
  BY DEF StartRun
<1>2. /\ pc' = [pc EXCEPT ![p] = "next"] /\ runs' = runs + 1 /\ runs < MaxRuns
      /\ snap' = [snap EXCEPT ![p] = cases]
      /\ UNCHANGED <<cases, truths, audit, razorpayVars, cur, step, action, result, crashes>>
  BY DEF StartRun, Go
<1>3. runs \in Nat /\ runs' \in 0..MaxRuns
  BY <1>2, RunnerAssumption DEF Held, TypeOK
<1>4. [mode |-> mode, kill |-> kill, by |-> runs + 1]
        \in [mode : {"dry", "live", "inject"}, kill : BOOLEAN, by : Nat]
  BY <1>3, RunnerAssumption
<1>5. job' \in [Procs -> [mode : {"dry", "live", "inject"}, kill : BOOLEAN, by : Nat]]
  BY <1>1, <1>4 DEF Held, TypeOK
<1>6. selected \subseteq Rows
  BY <1>1 DEF Selections
<1>7. todo' \in [Procs -> SUBSET Cases]
  BY <1>1, <1>6 DEF Rows
<1>8. snap' \in [Procs -> [Cases -> Case \cup {NoCase}]]
  BY <1>2 DEF Held, TypeOK
<1>9. TypeOK'
  BY <1>2, <1>3, <1>5, <1>7, <1>8
     DEF Held, TypeOK, StoreTypeOK, RazorpayTypeOK, razorpayVars, PC
<1>10. RowsInv(F)'
  BY <1>2, RowsKept DEF Held
<1>11. SnapOK(F, p)'
  BY <1>2 DEF Held, TypeOK, RowsInv, Rows, SnapOK
<1>12. CurOK(F, p)' /\ TurnOK(p)'
  BY <1>2 DEF CurOK, Opened, TurnOK, Climbed
<1>13. \A q \in Procs \ {p} : LocalKept(q)
  BY <1>1, <1>2 DEF LocalKept, Held, TypeOK
<1>14. Selected'
  BY <1>1, <1>2, <1>6 DEF Held, TypeOK, Selected, Rows
<1> QED BY <1>2, <1>9, <1>10, <1>11, <1>12, <1>13, <1>14, Assemble

\* Opening a case copies it from the snapshot and begins at turn zero.
LEMMA OpenKeeps ==
  ASSUME NEW F, Held(F), NEW p \in Procs, OpenCase(p)
  PROVE  Held(F)'
<1> USE LocalTypes DEF runVars, caseVars, storeVars
<1>1. PICK c \in Cases :
        /\ IsNext(p, c) /\ pc' = [pc EXCEPT ![p] = AfterOpen(c)]
        /\ ~Settled(snap[p][c])
        /\ cur' = [cur EXCEPT ![p] = snap[p][c]]
        /\ step' = [step EXCEPT ![p] = 0]
  BY DEF OpenCase, Go
<1>2. UNCHANGED <<cases, truths, audit, razorpayVars, job, todo, snap, runs,
                  action, result, crashes>>
  BY DEF OpenCase
<1>3. AfterOpen(c) \in {"detect", "diagnose"}
  BY DEF AfterOpen
<1>4. snap[p][c] \in Case /\ snap[p][c] # NoCase
  BY <1>1 DEF Held, TypeOK, Selected, IsNext
<1>5. cur' \in [Procs -> Case] /\ step' \in [Procs -> 0..MaxSteps]
  BY <1>1, <1>4, RunnerAssumption DEF Held, TypeOK
<1>6. TypeOK'
  BY <1>1, <1>2, <1>3, <1>5
     DEF Held, TypeOK, StoreTypeOK, RazorpayTypeOK, razorpayVars, PC
<1>7. RowsInv(F)'
  BY <1>2, RowsKept DEF Held, razorpayVars
<1>8. cur'[p] = snap[p][c] /\ step'[p] = 0 /\ pc'[p] \in {"detect", "diagnose"}
  BY <1>1, <1>3 DEF Held, TypeOK
<1>9. SnapOK(F, p)'
  BY <1>2 DEF SnapOK
<1>10. CurOK(F, p)'
  BY <1>2, <1>4, <1>8 DEF SnapOK, CurOK, Opened, CopyOf
<1>11. Progress(cur[p])' \in Nat /\ Progress(cur[p])' = Progress(Opened(p))'
  <2>1. snap[p][c].case_id = c
    BY <1>4 DEF SnapOK, CopyOf
  <2>2. Opened(p)' = cur'[p] /\ cur'[p] \in Case
    BY <1>2, <1>4, <1>8, <2>1 DEF Opened
  <2> QED BY <2>2 DEF Progress, Case
<1>12. TurnOK(p)'
  BY <1>1, <1>8, <1>11 DEF TurnOK, Climbed, Open, Settled
<1>13. \A q \in Procs \ {p} : LocalKept(q)
  BY <1>1, <1>2 DEF LocalKept, Held, TypeOK
<1>14. Selected'
  BY <1>2, SelectedKept DEF Held
<1> QED BY <1>2, <1>6, <1>7, <1>9, <1>10, <1>12, <1>13, <1>14, Assemble

\* A turn begins with a diagnosis, and the action policy decides on it.
LEMMA DiagnoseKeeps ==
  ASSUME NEW F, Held(F), NEW p \in Procs, Diagnose(p)
  PROVE  Held(F)'
<1> USE LocalTypes DEF runVars, caseVars, storeVars
<1>1. PICK d \in Diagnoses(cur[p].failure) :
        /\ action' = [action EXCEPT ![p] = Decide(cur[p], d, job[p].kill)]
        /\ Append(Event(cur[p].case_id, "diagnosis_completed", job[p].by, step[p] + 1,
                        d.cause, NoLink))
  BY DEF Diagnose
<1>2. /\ pc[p] = "diagnose" /\ pc' = [pc EXCEPT ![p] = "verdict"]
      /\ step[p] < MaxSteps /\ step' = [step EXCEPT ![p] = @ + 1]
      /\ UNCHANGED <<cases, truths, razorpayVars, job, todo, snap, runs,
                     cur, result, crashes>>
  BY DEF Diagnose, Go
<1>3. audit' \subseteq AuditEvent
  <2>1. d.cause \in Payload /\ step[p] + 1 \in Nat
    BY DiagnosesFacts DEF Payload
  <2> QED BY <1>1, <2>1, AppendType DEF AuditEventType
<1>4. action' \in [Procs -> ActionRequest]
  <2>1. Decide(cur[p], d, job[p].kill) \in ActionRequest
    BY DecideType
  <2> QED BY <1>1, <2>1 DEF Held, TypeOK
<1>5. step' \in [Procs -> 0..MaxSteps] /\ step'[p] = step[p] + 1
  <2>1. step \in [Procs -> 0..MaxSteps] /\ step[p] + 1 \in 0..MaxSteps
    BY <1>2, RunnerAssumption DEF Held, TypeOK
  <2> QED BY <1>2, <2>1
<1>6. action'[p] = Decide(cur[p], d, job[p].kill) /\ pc'[p] = "verdict"
  BY <1>1, <1>2 DEF Held, TypeOK
<1>7. TypeOK'
  BY <1>2, <1>3, <1>4, <1>5
     DEF Held, TypeOK, StoreTypeOK, RazorpayTypeOK, razorpayVars, PC
<1>8. RowsInv(F)'
  BY <1>2, RowsKept DEF Held, razorpayVars
<1>9. SnapOK(F, p)' /\ CurOK(F, p)'
  BY <1>2, <1>6 DEF SnapOK, CurOK, Opened
<1>10. TurnOK(p)'
  <2>1. Open(cur[p]) /\ Climbed(p, step[p])
    BY <1>2 DEF TurnOK
  <2>2. (step'[p] - 1) = step[p]
    BY <1>5
  <2>3. Open(cur'[p]) /\ Climbed(p, step[p] - 1)'
    BY <1>2, <2>1, <2>2 DEF Climbed, Opened
  <2> QED BY <1>2, <1>6, <2>3 DEF TurnOK
<1>11. \A q \in Procs \ {p} : LocalKept(q)
  BY <1>1, <1>2 DEF LocalKept, Held, TypeOK
<1>12. Selected'
  BY <1>2, SelectedKept DEF Held
<1> QED BY <1>2, <1>7, <1>8, <1>9, <1>10, <1>11, <1>12, Assemble

\* Once the executor dispatches an action, the switch is not why it fails.
LEMMA DispatchNeverKills ==
  ASSUME NEW case, NEW a, a.action_type \in ActionType, NEW reply
  PROVE  Dispatch(a, case, reply).result.error_type # "kill_switch"
BY DEF Dispatch, ActionType, IssueLink, Remind, Wait, Escalate, Stop,
       Executed, Ok, Failed

\* The executor hands back a well-shaped case and a result that agree.
LEMMA AfterExecution ==
  ASSUME NEW F, Held(F), NEW p \in Procs, pc[p] = "dispatch", pc' = [pc EXCEPT ![p] = "save"],
         NEW new \in Case, cur' = [cur EXCEPT ![p] = new],
         NEW res \in ActionResult, result' = [result EXCEPT ![p] = res],
         UNCHANGED <<cases, truths, audit, job, todo, snap, runs, step, action, crashes>>,
         RazorpayTypeOK',
         ServiceInv(F)',
         new.case_id = cur[p].case_id, new.failure = cur[p].failure, Shape(new),
         res.ok /\ Open(new) => Progress(new) = Progress(cur[p]) + 1,
         ~res.ok \/ action[p].action_type \in Contact => Open(new),
         res.error_type = "kill_switch" => ~res.ok
  PROVE  Held(F)'
<1> USE LocalTypes
<1>1. TypeOK'
  BY DEF Held, TypeOK, StoreTypeOK, PC
<1>2. RowsInv(F)' /\ Selected'
  BY RowsKept, SelectedKept DEF Held
<1>3. cur'[p] = new /\ result'[p] = res /\ pc'[p] = "save"
  BY DEF Held, TypeOK
<1>4. SnapOK(F, p)' /\ CurOK(F, p)'
  BY <1>3 DEF SnapOK, CurOK, Opened, CopyOf
<1>5. Progress(new) \in Nat
  BY DEF Progress, Case
<1>6. TurnOK(p)'
  <2>1. /\ Climbed(p, step[p] - 1) /\ cur[p].case_id \in Cases /\ Opened(p) # NoCase
        /\ result[p]' = res /\ step[p]' = step[p] /\ Opened(p)' = Opened(p)
    BY <1>3 DEF TurnOK, CurOK, Opened
  <2>2. Progress(Opened(p)) \in Nat
    BY <2>1, OpenedType
  <2>3. res.ok /\ Open(new) => Climbed(p, step[p])'
    BY <1>3, <1>5, <2>1, <2>2 DEF Climbed
  <2> QED BY <1>3, <2>1, <2>3 DEF TurnOK
<1>7. \A q \in Procs \ {p} : LocalKept(q)
  BY DEF LocalKept, Held, TypeOK
<1> QED BY <1>1, <1>2, <1>4, <1>6, <1>7, Assemble

\* Whatever Razorpay replies, the executor's part of a turn keeps the invariant.
LEMMA ExecuteKeeps ==
  ASSUME NEW F, Held(F), NEW p \in Procs, pc[p] = "dispatch", pc' = [pc EXCEPT ![p] = "save"],
         ~job[p].kill, NEW reply \in Reply, reply.ok => reply.id # NoLink,
         Execute(p, reply),
         UNCHANGED <<cases, truths, audit, job, todo, snap, runs, step, action, crashes>>,
         RazorpayTypeOK',
         ServiceInv(F)'
  PROVE  Held(F)'
<1> USE LocalTypes
<1> DEFINE done == Dispatch(action[p], cur[p], reply)
<1>1. Shape(cur[p]) /\ Open(cur[p])
  BY DEF CurOK, CopyOf, TurnOK
<1>2. PICK d \in Diagnoses(cur[p].failure) : action[p] = Decide(cur[p], d, job[p].kill)
  BY DEF TurnOK
<1>3. cur' = [cur EXCEPT ![p] = done.case] /\ result' = [result EXCEPT ![p] = done.result]
  BY DEF Execute
<1> HIDE DEF done
<1>4. /\ done.case \in Case /\ done.result \in ActionResult
      /\ done.case.case_id = cur[p].case_id /\ done.case.failure = cur[p].failure
      /\ Shape(done.case)
      /\ done.result.ok /\ Open(done.case) => Progress(done.case) = Progress(cur[p]) + 1
      /\ ~done.result.ok \/ action[p].action_type \in Contact => Open(done.case)
  BY <1>1, <1>2, DispatchFacts DEF done
<1>5. done.result.error_type # "kill_switch"
  BY DispatchNeverKills DEF done
<1> QED BY <1>3, <1>4, <1>5, AfterExecution

\* A write is asked of Razorpay only for a case a human does not have to decide,
\* and a link always with the reference id of the first attempt.
LEMMA WriteIsLicensed ==
  ASSUME NEW F, Held(F), NEW p \in Procs, pc[p] = "dispatch", ~job[p].kill,
         Calls(action[p], cur[p]) \in {"create", "notify"}
  PROVE  /\ cur[p].case_id \in Cases /\ ~(F[cur[p].case_id].amount_paise > ESCALATE_AMOUNT_PAISE)
         /\ Calls(action[p], cur[p]) = "create" => Reference(p) = 1
<1> USE LocalTypes
<1>1. Shape(cur[p]) /\ Open(cur[p])
  BY DEF CurOK, CopyOf, TurnOK
<1>2. PICK d \in Diagnoses(cur[p].failure) : action[p] = Decide(cur[p], d, job[p].kill)
  BY DEF TurnOK
<1>3. /\ action[p].action_type \in {"issue_link", "remind"}
      /\ Calls(action[p], cur[p]) = "create" => action[p].action_type = "issue_link"
  BY DEF Calls
<1>4. /\ ~HighAmount(cur[p])
      /\ action[p].action_type = "issue_link" => cur[p].active_payment_link_id = NoLink
  BY <1>1, <1>2, <1>3, DecideLicense
<1>5. Calls(action[p], cur[p]) = "create" => Reference(p) = 1
  BY <1>1, <1>3, <1>4 DEF Shape, Reference
<1>6. cur[p].failure.amount_paise \in Nat
  BY DEF Failure
<1> QED BY <1>4, <1>5, <1>6, CapsAssumption DEF CurOK, CopyOf, HighAmount

\* The service's own counters stay typed, and move only for the case of the call.
LEMMA ServiceFacts ==
  ASSUME RazorpayTypeOK, NEW c \in Cases, NEW n \in Nat, NEW link, NEW reply,
         CreatePaymentLink(c, n, reply) \/ NotifyPaymentLink(c, link, reply)
  PROVE  /\ RazorpayTypeOK'
         /\ reply \in Reply /\ (reply.ok => reply.id # NoLink)
         /\ \A x \in Cases \ {c} : /\ created'[x] = created[x] /\ notified'[x] = notified[x]
                                 /\ refs'[x] = refs[x]
         /\ \/ created'[c] = created[c] /\ refs'[c] = refs[c]
            \/ /\ CreatePaymentLink(c, n, reply) /\ (UniqueRefs => n \notin refs[c])
               /\ created'[c] = created[c] + 1 /\ refs'[c] = refs[c] \cup {n}
<1>1. faults \in Nat /\ MaxFaults \in Nat
  BY RazorpayAssumption DEF RazorpayTypeOK
<1>2. /\ \A x \in Cases : created[x] \in Nat /\ notified[x] \in Nat
      /\ created \in [Cases -> Nat] /\ notified \in [Cases -> Nat]
      /\ refs \in [Cases -> SUBSET Nat] /\ faults \in 0..MaxFaults
  BY DEF RazorpayTypeOK
<1>3. MakeLink(c, n) => /\ created' \in [Cases -> Nat] /\ notified' = notified
                        /\ refs' \in [Cases -> SUBSET Nat]
                        /\ \A x \in Cases \ {c} :
                             created'[x] = created[x] /\ refs'[x] = refs[x]
                        /\ UniqueRefs => n \notin refs[c]
                        /\ created'[c] = created[c] + 1 /\ refs'[c] = refs[c] \cup {n}
  BY <1>2 DEF MakeLink, Accepts
<1>4. SendReminder(c) => /\ notified' \in [Cases -> Nat] /\ created' = created
                         /\ refs' = refs
                         /\ \A x \in Cases \ {c} : notified'[x] = notified[x]
  BY <1>2 DEF SendReminder
<1>5. Lose => faults' \in 0..MaxFaults
  BY <1>1 DEF Lose
<1>6. /\ ClientError \in Reply /\ ~ClientError.ok
      /\ \A id \in {BlankLink, LiveLink} :
           Served(id) \in Reply /\ Served(id).ok /\ Served(id).id # NoLink
  BY DEF ClientError, Served, Reply, LinkId
<1>7. CASE CreatePaymentLink(c, n, reply)
  <2>1. reply \in Reply /\ (reply.ok => reply.id # NoLink)
    BY <1>6, <1>7 DEF CreatePaymentLink
  <2>2. MakeLink(c, n) \/ UNCHANGED <<created, notified, refs>>
    BY <1>7 DEF CreatePaymentLink, razorpayVars
  <2>3. Lose \/ UNCHANGED faults
    BY <1>7 DEF CreatePaymentLink, razorpayVars
  <2> QED BY <1>2, <1>3, <1>5, <1>7, <2>1, <2>2, <2>3 DEF RazorpayTypeOK
<1>8. CASE NotifyPaymentLink(c, link, reply)
  <2>1. reply \in Reply /\ (reply.ok => reply.id # NoLink)
    BY <1>6, <1>8 DEF NotifyPaymentLink
  <2>2. SendReminder(c) \/ UNCHANGED <<created, notified, refs>>
    BY <1>8 DEF NotifyPaymentLink, razorpayVars
  <2>3. Lose \/ UNCHANGED faults
    BY <1>8 DEF NotifyPaymentLink, razorpayVars
  <2> QED BY <1>2, <1>4, <1>5, <2>1, <2>2, <2>3 DEF RazorpayTypeOK
<1> QED BY <1>7, <1>8

\* The executor, one step per way of running the action.
LEMMA ExecutionMoves ==
  ASSUME NEW F, Held(F), NEW p \in Procs,
         RefuseKilled(p) \/ ExecuteLocally(p) \/ ExecuteInjected(p)
           \/ ExecuteCreate(p) \/ ExecuteNotify(p)
  PROVE  Held(F)'
<1> USE LocalTypes DEF runVars, storeVars
<1>1. pc[p] = "dispatch" /\ pc' = [pc EXCEPT ![p] = "save"]
  BY DEF RefuseKilled, ExecuteLocally, ExecuteInjected, ExecuteCreate, ExecuteNotify, Go
<1>2. UNCHANGED <<cases, truths, audit, job, todo, snap, runs, step, action, crashes>>
  BY DEF RefuseKilled, ExecuteLocally, ExecuteInjected, ExecuteCreate, ExecuteNotify
<1>3. RazorpayTypeOK
  BY DEF Held, TypeOK
<1>4. Shape(cur[p]) /\ Open(cur[p])
  BY <1>1 DEF CurOK, CopyOf, TurnOK
<1>5. UNCHANGED razorpayVars => RazorpayTypeOK' /\ ServiceInv(F)'
  BY <1>2, <1>3, ServiceKept DEF Held, RazorpayTypeOK, razorpayVars
<1>6. /\ ClientError \in Reply /\ ~ClientError.ok
      /\ Served(DryLink) \in Reply /\ Served(DryLink).id # NoLink
  BY DEF ClientError, Served, Reply, LinkId
<1>7. CASE RefuseKilled(p)
  <2>1. /\ Failed(NoLink, "kill_switch") \in ActionResult
        /\ ~Failed(NoLink, "kill_switch").ok
    BY ResultType DEF ErrorType
  <2>2. cur' = [cur EXCEPT ![p] = cur[p]] /\ UNCHANGED razorpayVars
    BY <1>7 DEF RefuseKilled, Held, TypeOK
  <2>3. result' = [result EXCEPT ![p] = Failed(NoLink, "kill_switch")]
    BY <1>7 DEF RefuseKilled
  <2> QED BY <1>1, <1>2, <1>4, <1>5, <2>1, <2>2, <2>3, AfterExecution
<1>8. CASE ExecuteLocally(p)
  <2>1. ~job[p].kill /\ Execute(p, Served(DryLink)) /\ UNCHANGED razorpayVars
    BY <1>8 DEF ExecuteLocally
  <2> QED BY <1>1, <1>2, <1>5, <1>6, <2>1, ExecuteKeeps
<1>9. CASE ExecuteInjected(p)
  <2>1. ~job[p].kill /\ Execute(p, ClientError) /\ UNCHANGED razorpayVars
    BY <1>9 DEF ExecuteInjected
  <2> QED BY <1>1, <1>2, <1>5, <1>6, <2>1, ExecuteKeeps
<1>10. CASE ExecuteCreate(p)
  <2>1. PICK reply \in Reply :
          /\ CreatePaymentLink(cur[p].case_id, Reference(p), reply)
          /\ Execute(p, reply)
    BY <1>10 DEF ExecuteCreate
  <2>2. ~job[p].kill /\ Calls(action[p], cur[p]) \in {"create", "notify"}
    BY <1>10 DEF ExecuteCreate
  <2>3. cur[p].case_id \in Cases /\ ~(F[cur[p].case_id].amount_paise > ESCALATE_AMOUNT_PAISE)
    BY <1>1, <2>2, WriteIsLicensed
  <2>4. Reference(p) = 1
    BY <1>1, <1>10, <2>2, WriteIsLicensed DEF ExecuteCreate
  <2> DEFINE c == cur[p].case_id
  <2>5. CreatePaymentLink(c, 1, reply) /\ c \in Cases /\ 1 \in Nat
    BY <2>1, <2>3, <2>4
  <2> HIDE DEF c
  <2>6. /\ RazorpayTypeOK' /\ (reply.ok => reply.id # NoLink)
        /\ \A x \in Cases \ {c} : /\ created'[x] = created[x] /\ notified'[x] = notified[x]
                                /\ refs'[x] = refs[x]
        /\ \/ created'[c] = created[c] /\ refs'[c] = refs[c]
           \/ /\ UniqueRefs => 1 \notin refs[c]
              /\ created'[c] = created[c] + 1 /\ refs'[c] = refs[c] \cup {1}
    BY <1>3, <2>5, ServiceFacts
  <2>7. ASSUME NEW x \in Cases
        PROVE  /\ F[x].amount_paise > ESCALATE_AMOUNT_PAISE => created'[x] = 0 /\ notified'[x] = 0
               /\ UniqueRefs => created'[x] <= 1 /\ (created'[x] = 1 => 1 \in refs'[x])
    <3>1. created[x] \in Nat /\ UniqueRefs \in BOOLEAN
      BY <1>3, RazorpayAssumption DEF RazorpayTypeOK
    <3>2. /\ F[x].amount_paise > ESCALATE_AMOUNT_PAISE => created[x] = 0 /\ notified[x] = 0
          /\ UniqueRefs => created[x] <= 1 /\ (created[x] = 1 => 1 \in refs[x])
      BY DEF Held, ServiceInv
    <3>3. CASE x = c
      <4>1. ~(F[x].amount_paise > ESCALATE_AMOUNT_PAISE)
        BY <2>3, <3>3 DEF c
      <4>2. UniqueRefs => created'[x] <= 1 /\ (created'[x] = 1 => 1 \in refs'[x])
        <5>1. CASE created'[x] = created[x] /\ refs'[x] = refs[x]
          BY <3>2, <5>1
        <5>2. CASE /\ UniqueRefs => 1 \notin refs[x]
                   /\ created'[x] = created[x] + 1 /\ refs'[x] = refs[x] \cup {1}
          BY <3>1, <3>2, <5>2
        <5> QED BY <2>6, <3>3, <5>1, <5>2
      <4> QED BY <4>1, <4>2
    <3>4. CASE x # c
      BY <2>6, <3>2, <3>4
    <3> QED BY <3>3, <3>4
  <2>8. ServiceInv(F)'
    BY <2>7 DEF ServiceInv
  <2> QED BY <1>1, <1>2, <2>1, <2>2, <2>6, <2>8, ExecuteKeeps
<1>11. CASE ExecuteNotify(p)
  <2>1. PICK reply \in Reply :
          /\ NotifyPaymentLink(cur[p].case_id, RemindedLink(action[p], cur[p]), reply)
          /\ Execute(p, reply)
    BY <1>11 DEF ExecuteNotify
  <2>2. ~job[p].kill /\ Calls(action[p], cur[p]) \in {"create", "notify"}
    BY <1>11 DEF ExecuteNotify
  <2>3. cur[p].case_id \in Cases /\ ~(F[cur[p].case_id].amount_paise > ESCALATE_AMOUNT_PAISE)
    BY <1>1, <2>2, WriteIsLicensed
  <2>4. /\ RazorpayTypeOK' /\ (reply.ok => reply.id # NoLink)
        /\ \A x \in Cases \ {cur[p].case_id} : notified'[x] = notified[x]
    BY <1>3, <2>1, <2>3, ServiceFacts
  <2>5. ServiceInv(F)'
    <3>1. created' = created /\ refs' = refs
      BY <2>1 DEF NotifyPaymentLink, SendReminder, razorpayVars
    <3> QED BY <2>3, <2>4, <3>1 DEF Held, ServiceInv
  <2> QED BY <1>1, <1>2, <2>1, <2>2, <2>4, <2>5, ExecuteKeeps
<1> QED BY <1>7, <1>8, <1>9, <1>10, <1>11

\* A commit of the case in memory writes back a row that satisfies RowsInv.
LEMMA SavesKeep ==
  ASSUME NEW F, Held(F), NEW p \in Procs, Save(p) \/ SaveAnswer(p)
  PROVE  Held(F)'
<1> USE LocalTypes DEF runVars, caseVars
<1>1. /\ \/ pc[p] = "save" /\ pc' = [pc EXCEPT ![p] = "result"]
         \/ pc[p] = "apply" /\ pc' = [pc EXCEPT ![p] = "close"]
      /\ Upsert(cur[p])
      /\ UNCHANGED <<truths, audit, razorpayVars, job, todo, snap, runs,
                     cur, step, action, result, crashes>>
  BY DEF Save, SaveAnswer, Go
<1>2. /\ cur[p].case_id \in Cases /\ Shape(cur[p])
      /\ CopyOf(F, cur[p].case_id, cur[p])
  BY <1>1 DEF CurOK, CopyOf
<1>3. cases' \in [Cases -> Case \cup {NoCase}] /\ RowsInv(F)'
  BY <1>1, <1>2, UpsertKeeps DEF Held, razorpayVars
<1>4. TypeOK'
  BY <1>1, <1>3 DEF Held, TypeOK, StoreTypeOK, RazorpayTypeOK, razorpayVars, PC
<1>5. SnapOK(F, p)'
  BY <1>1 DEF SnapOK
<1>6. CurOK(F, p)'
  BY <1>1, <1>2 DEF CurOK, Opened
<1>7. TurnOK(p)'
  BY <1>1 DEF TurnOK, Climbed, Opened
<1>8. \A q \in Procs \ {p} : LocalKept(q)
  BY <1>1 DEF LocalKept
<1>9. Selected'
  BY <1>1, SelectedKept DEF Held
<1> QED BY <1>1, <1>3, <1>4, <1>5, <1>6, <1>7, <1>8, <1>9, Assemble

\* A case the kill switch stopped is saved as stopped, its caps untouched.
LEMMA StopKilledKeeps ==
  ASSUME NEW F, Held(F), NEW p \in Procs, StopKilled(p)
  PROVE  Held(F)'
<1> USE LocalTypes DEF runVars
<1> DEFINE new == [cur[p] EXCEPT !.status = "stopped"]
<1>1. /\ pc[p] = "outcome" /\ pc' = [pc EXCEPT ![p] = "close"]
      /\ cur' = [cur EXCEPT ![p] = new]
      /\ Upsert(cur'[p])
      /\ UNCHANGED <<truths, audit, razorpayVars, job, todo, snap, runs,
                     step, action, result, crashes>>
  BY DEF StopKilled, Go
<1>2. "stopped" \in CaseStatus /\ "stopped" \in Terminal
  BY DEF CaseStatus, Terminal
<1>3. /\ new \in Case /\ new.status = "stopped"
      /\ new.case_id = cur[p].case_id /\ new.failure = cur[p].failure
      /\ new.link_count = cur[p].link_count
      /\ new.reminder_count = cur[p].reminder_count
      /\ new.opted_out = cur[p].opted_out /\ new.wait_completed = cur[p].wait_completed
      /\ new.active_payment_link_id = cur[p].active_payment_link_id
  BY <1>2, StatusUpdate
<1> HIDE DEF new
<1>4. cur'[p] = new /\ cur' \in [Procs -> Case] /\ pc'[p] = "close"
  BY <1>1, <1>3 DEF Held, TypeOK
<1>5. /\ cur[p].case_id \in Cases /\ Shape(cur[p])
      /\ CopyOf(F, cur[p].case_id, cur[p]) /\ Opened(p) # NoCase
  BY <1>1 DEF CurOK, CopyOf
<1>6. CopyOf(F, new.case_id, new) /\ ~Open(new)
  BY <1>2, <1>3, <1>5 DEF CopyOf, Shape, HighAmount, Open
<1>7. cases' \in [Cases -> Case \cup {NoCase}] /\ RowsInv(F)'
  BY <1>1, <1>3, <1>4, <1>5, <1>6, UpsertKeeps DEF Held, razorpayVars
<1>8. TypeOK'
  BY <1>1, <1>4, <1>7
     DEF Held, TypeOK, StoreTypeOK, RazorpayTypeOK, razorpayVars, PC
<1>9. SnapOK(F, p)'
  BY <1>1 DEF SnapOK
<1>10. CurOK(F, p)'
  BY <1>1, <1>3, <1>4, <1>5, <1>6 DEF CurOK, Opened
<1>11. TurnOK(p)'
  BY <1>4, <1>6 DEF TurnOK, Climbed, Opened
<1>12. \A q \in Procs \ {p} : LocalKept(q)
  BY <1>1 DEF LocalKept, Held, TypeOK
<1>13. Selected'
  BY <1>1, SelectedKept DEF Held
<1> QED BY <1>1, <1>7, <1>8, <1>9, <1>10, <1>11, <1>12, <1>13, Assemble

\* An answer is logged and applied in memory; it never reopens the case.
LEMMA AskKeeps ==
  ASSUME NEW F, Held(F), NEW p \in Procs, AskCustomer(p)
  PROVE  Held(F)'
<1> USE LocalTypes DEF runVars
<1> DEFINE answer == Respond(cur[p], action[p], truths[cur[p].case_id])
           new == Answered(cur[p], answer)
<1>1. /\ pc[p] = "outcome" /\ result[p].ok
      /\ Log(p, "customer_response", answer.kind, answer.payment_link_id)
      /\ cur' = [cur EXCEPT ![p] = new]
      /\ UNCHANGED <<cases, truths, razorpayVars, job, todo, snap, runs,
                     step, action, result, crashes>>
  BY DEF AskCustomer
<1>2. /\ cur[p].case_id \in Cases /\ Shape(cur[p])
      /\ CopyOf(F, cur[p].case_id, cur[p])
      /\ action[p].action_type \in Contact => Open(cur[p])
      /\ Open(cur[p]) => Climbed(p, step[p])
  BY <1>1 DEF CurOK, CopyOf, TurnOK
<1>3. /\ answer.kind \in AnswerKind /\ answer.payment_link_id \in LinkId
      /\ new \in Case /\ new.case_id = cur[p].case_id /\ new.failure = cur[p].failure
      /\ Shape(new)
      /\ Open(new) => Open(cur[p])
      /\ Progress(new) = Progress(cur[p])
  BY <1>2, AnswerFacts
<1> HIDE DEF answer, new
<1>4. audit' \subseteq AuditEvent
  BY <1>1, <1>3, LogType DEF AuditEventType, Payload
<1>5. /\ cur'[p] = new /\ cur' \in [Procs -> Case]
      /\ pc' \in [Procs -> PC] /\ pc'[p] \in {"apply", "close"}
      /\ \A q \in Procs \ {p} : pc'[q] = pc[q] /\ cur'[q] = cur[q]
  <2>1. PICK to \in {"apply", "close"} : pc' = [pc EXCEPT ![p] = to]
    BY DEF AskCustomer
  <2> QED BY <1>1, <1>3, <2>1 DEF Held, TypeOK, PC
<1>6. TypeOK'
  BY <1>1, <1>4, <1>5 DEF Held, TypeOK, StoreTypeOK, RazorpayTypeOK, razorpayVars
<1>7. RowsInv(F)'
  BY <1>1, RowsKept DEF Held, razorpayVars
<1>8. SnapOK(F, p)' /\ CurOK(F, p)'
  BY <1>1, <1>2, <1>3, <1>5 DEF SnapOK, CurOK, Opened, CopyOf
<1>9. TurnOK(p)'
  BY <1>1, <1>2, <1>3, <1>5 DEF TurnOK, Climbed, Opened
<1>10. \A q \in Procs \ {p} : LocalKept(q)
  BY <1>1, <1>5 DEF LocalKept
<1>11. Selected'
  BY <1>1, SelectedKept DEF Held
<1> QED BY <1>1, <1>6, <1>7, <1>8, <1>9, <1>10, <1>11, Assemble

-----------------------------------------------------------------------------
(* The invariant, and what follows from it.                                 *)

\* A case as it is created has the shape.
LEMMA NewCaseFacts ==
  ASSUME NEW id \in Nat, NEW f \in Failure
  PROVE  /\ NewCase(id, f) \in Case
         /\ NewCase(id, f).case_id = id /\ NewCase(id, f).failure = f
         /\ NewCase(id, f).status = "detected" /\ NewCase(id, f).link_count = 0
         /\ NewCase(id, f).active_payment_link_id = NoLink
         /\ Shape(NewCase(id, f))
<1>1. NewCase(id, f) \in Case
  BY DEF NewCase, Case, CaseStatus, LinkId
<1>2. Shape(NewCase(id, f))
  BY CapsAssumption DEF NewCase, Shape
<1> QED BY <1>1, <1>2 DEF NewCase

\* Before anything is started, it is enough that the rows are copies.
LEMMA FreshHolds ==
  ASSUME NEW F, Fresh, RowsInv(F), cases \in [Cases -> Case \cup {NoCase}],
         truths \in [Cases -> GroundTruth \cup {NoTruth}]
  PROVE  Held(F)
<1>1. NoWork \in Case
  <2>1. [amount_paise |-> 0, error_reason |-> ""] \in Failure
    BY DEF Failure, Reason
  <2> QED BY <2>1, NewCaseFacts DEF NoWork
<1>2. Verdict(NoWork, "stop", "exhausted") \in ActionRequest
  BY <1>1, VerdictType DEF ActionType, Rationale
<1>3. Ok(NoLink) \in ActionResult
  BY ResultType DEF LinkId
<1>4. RazorpayTypeOK /\ \A c \in Cases : created[c] = 0 /\ notified[c] = 0
  BY RazorpayAssumption DEF Fresh, RazorpayInit, RazorpayTypeOK
<1>5. /\ audit = {} /\ pc = [p \in Procs |-> "idle"]
      /\ job = [p \in Procs |-> [mode |-> "dry", kill |-> FALSE, by |-> 0]]
      /\ todo = [p \in Procs |-> {}] /\ snap = [p \in Procs |-> cases]
      /\ cur = [p \in Procs |-> NoWork] /\ step = [p \in Procs |-> 0]
      /\ action = [p \in Procs |-> Verdict(NoWork, "stop", "exhausted")]
      /\ result = [p \in Procs |-> Ok(NoLink)] /\ runs = 0 /\ crashes = 0
  BY DEF Fresh
<1>6. TypeOK
  BY <1>1, <1>2, <1>3, <1>4, <1>5, RunnerAssumption DEF TypeOK, StoreTypeOK, PC
<1>7. Selected /\ ServiceInv(F)
  BY <1>4, <1>5 DEF Selected, ServiceInv
<1>8. \A p \in Procs : SnapOK(F, p) /\ CurOK(F, p) /\ TurnOK(p)
  BY <1>5 DEF RowsInv, Rows, SnapOK, CurOK, TurnOK
<1> QED BY <1>6, <1>7, <1>8 DEF Held

\* Every step of a process keeps the invariant.
LEMMA StepKeeps ==
  ASSUME NEW F, Held(F), NEW p \in Procs, StartRun(p) \/ Step(p) \/ Crash(p)
  PROVE  Held(F)'
<1>1. CASE StartRun(p)
  BY <1>1, StartKeeps
<1>2. CASE Crash(p) \/ SkipTerminal(p) \/ LogDetected(p) \/ Return(p)
  BY <1>2, BatchMoves
<1>3. CASE OpenCase(p)
  BY <1>3, OpenKeeps
<1>4. CASE Turn(p)
  <2>1. CASE Diagnose(p)
    BY <2>1, DiagnoseKeeps
  <2>2. CASE LogVerdict(p) \/ LogAttempt(p) \/ LogResult(p)
    BY <2>2, TurnMoves
  <2>3. CASE \/ RefuseKilled(p) \/ ExecuteLocally(p) \/ ExecuteInjected(p)
             \/ ExecuteCreate(p) \/ ExecuteNotify(p)
    BY <2>3, ExecutionMoves
  <2>4. CASE Save(p)
    BY <2>4, SavesKeep
  <2> QED BY <1>4, <2>1, <2>2, <2>3, <2>4 DEF Turn
<1>5. CASE EndOfTurn(p)
  <2>1. CASE StopKilled(p)
    BY <2>1, StopKilledKeeps
  <2>2. CASE AskCustomer(p)
    BY <2>2, AskKeeps
  <2>3. CASE SaveAnswer(p)
    BY <2>3, SavesKeep
  <2>4. CASE NoCustomer(p) \/ NextTurn(p)
    BY <2>4, TurnMoves
  <2>5. CASE ParkFailed(p) \/ CloseCase(p) \/ ParkExpired(p)
    BY <2>5, ClosingMoves
  <2> QED BY <1>5, <2>1, <2>2, <2>3, <2>4, <2>5 DEF EndOfTurn
<1> QED BY <1>1, <1>2, <1>3, <1>4, <1>5 DEF Step

\* A process writes its case in memory, or no row at all.
LEMMA StepWrites ==
  ASSUME NEW p \in Procs, StartRun(p) \/ Step(p) \/ Crash(p)
  PROVE  UNCHANGED cases \/ Upsert(cur'[p])
<1>1. CASE Save(p) \/ SaveAnswer(p) \/ StopKilled(p)
  BY <1>1 DEF Save, SaveAnswer, StopKilled, caseVars
<1>2. CASE StartRun(p) \/ SkipTerminal(p) \/ OpenCase(p) \/ LogDetected(p) \/ Return(p) \/ Crash(p)
  BY <1>2 DEF StartRun, SkipTerminal, OpenCase, LogDetected, Return, Crash, storeVars
<1>3. CASE \/ Diagnose(p) \/ LogVerdict(p) \/ LogAttempt(p)
           \/ RefuseKilled(p) \/ ExecuteLocally(p) \/ ExecuteInjected(p)
           \/ ExecuteCreate(p) \/ ExecuteNotify(p) \/ LogResult(p)
  BY <1>3 DEF Diagnose, LogVerdict, LogAttempt, RefuseKilled, ExecuteLocally, ExecuteInjected,
              ExecuteCreate, ExecuteNotify, LogResult, storeVars
<1>4. CASE \/ ParkFailed(p) \/ AskCustomer(p) \/ NoCustomer(p)
           \/ CloseCase(p) \/ NextTurn(p) \/ ParkExpired(p)
  BY <1>4 DEF ParkFailed, AskCustomer, NoCustomer, CloseCase, NextTurn, ParkExpired, storeVars
<1> QED BY <1>1, <1>2, <1>3, <1>4 DEF Step, Turn, EndOfTurn

\* A process takes no row away.
LEMMA RowsRemain ==
  ASSUME NEW F, Held(F), NEW p \in Procs, StartRun(p) \/ Step(p) \/ Crash(p)
  PROVE  \A c \in Cases : cases[c] # NoCase => cases'[c] # NoCase
<1>1. Held(F)'
  BY StepKeeps
<1>2. cur'[p] \in Case /\ NoCase \notin Case
  BY <1>1, StoreAssumption DEF Held, TypeOK
<1>3. cases \in [Cases -> Case \cup {NoCase}]
  BY DEF Held, TypeOK, StoreTypeOK
<1> QED BY <1>2, <1>3, StepWrites DEF Upsert

\* Nothing happens, nothing changes.
LEMMA StillKeeps ==
  ASSUME NEW F, Held(F), UNCHANGED vars
  PROVE  Held(F)'
<1>1. TypeOK' /\ Selected' /\ RowsInv(F)' /\ ServiceInv(F)'
  BY DEF vars, storeVars, razorpayVars, runVars, caseVars, Held, TypeOK, StoreTypeOK,
         RazorpayTypeOK, Selected, RowsInv, Rows, ServiceInv
<1>2. \A p \in Procs : LocalKept(p)
  BY DEF vars, runVars, caseVars, LocalKept
<1> QED BY <1>1, <1>2, OthersKeep DEF Held

\* What the invariant says of rows, of Razorpay and of the loop.
LEMMA HeldSafe ==
  ASSUME NEW F, Held(F)
  PROVE  /\ SecondLinkUnreachable /\ ExhaustedMeansAllReminders
         /\ HighAmountNeverContacted /\ RerunsNeverDuplicateLinks
         /\ OptOutIsAStop /\ WaitIsEarned
         /\ LoopMakesProgress /\ BudgetSuffices
<1> USE DEF Held, RowsInv, CopyOf
<1>1. SecondLinkUnreachable
  BY DEF Shape, SecondLinkUnreachable
<1>2. ExhaustedMeansAllReminders
  BY DEF Shape, ExhaustedMeansAllReminders
<1>3. HighAmountNeverContacted
  <2> SUFFICES ASSUME NEW c \in Rows,
                      cases[c].failure.amount_paise > ESCALATE_AMOUNT_PAISE
               PROVE  Contacted(c) = 0 /\ cases[c].link_count = 0
    BY DEF HighAmountNeverContacted
  <2>1. c \in Cases /\ F[c].amount_paise > ESCALATE_AMOUNT_PAISE
    BY DEF Rows
  <2>2. created[c] = 0 /\ notified[c] = 0
    BY <2>1 DEF ServiceInv
  <2> QED BY <2>2 DEF Shape, HighAmount, Contacted
<1>4. RerunsNeverDuplicateLinks
  BY DEF ServiceInv, RerunsNeverDuplicateLinks
<1>5. OptOutIsAStop
  BY DEF Shape, OptOutIsAStop
<1>6. WaitIsEarned
  BY DEF Shape, WaitIsEarned
<1>7. LoopMakesProgress
  BY DEF TurnOK, Climbed, LoopMakesProgress, Open
<1>8. BudgetSuffices
  <2> SUFFICES ASSUME MaxSteps > MAX_REMINDERS + 2, NEW p \in Procs,
                      pc[p] = "close", cur[p].status \notin Terminal,
                      step[p] = MaxSteps
               PROVE  FALSE
    BY DEF BudgetSuffices
  <2>1. /\ Progress(cur[p]) = Progress(Opened(p)) + step[p] /\ Shape(cur[p])
        /\ Opened(p) # NoCase /\ cur[p].case_id \in Cases
    BY DEF TurnOK, Climbed, CurOK, Open
  <2>2. cur[p].link_count \in Nat /\ cur[p].reminder_count \in Nat
    BY LocalTypes
  <2>4. Progress(Opened(p)) \in Nat
    BY <2>1, OpenedType
  <2>3. Progress(cur[p]) <= MAX_REMINDERS + 2
    BY <2>1, <2>2, CapsAssumption DEF Shape, Progress
  <2> QED BY <2>1, <2>2, <2>3, <2>4, CapsAssumption, RunnerAssumption
<1> QED BY <1>1, <1>2, <1>3, <1>4, <1>5, <1>6, <1>7, <1>8

\* New cases have the shape, and nobody is working on any.
LEMMA InitHolds == Init => IInv
<1> SUFFICES ASSUME Init PROVE IInv
  OBVIOUS
<1>1. PICK intake \in [Cases -> Intake] :
        /\ cases = [c \in Cases |-> NewCase(c, intake[c].failure)]
        /\ truths = [c \in Cases |-> intake[c].truth]
  BY DEF Init
<1>2. \A c \in Cases : /\ intake[c].failure \in Failure
                       /\ intake[c].truth \in GroundTruth \cup {NoTruth}
  BY RunnerAssumption
<1>3. \A c \in Cases : /\ cases[c] \in Case /\ cases[c].case_id = c /\ Shape(cases[c])
                       /\ truths[c] \in GroundTruth \cup {NoTruth}
  BY <1>1, <1>2, NewCaseFacts, StoreAssumption
<1>4. cases \in [Cases -> Case] /\ truths \in [Cases -> GroundTruth \cup {NoTruth}]
  BY <1>1, <1>3
<1>5. RowsInv(RowFailures)
  BY <1>3 DEF RowsInv, Rows, CopyOf, RowFailures
<1>6. Fresh
  BY DEF Init
<1>7. PICK F : F = RowFailures
  OBVIOUS
<1>8. Held(F)
  BY <1>4, <1>5, <1>6, <1>7, FreshHolds
<1> QED BY <1>4, <1>7, <1>8 DEF IInv

\* Every step of every process keeps the invariant, and the failures of the rows.
LEMMA NextKeeps == IInv /\ [Next]_vars => IInv'
<1> SUFFICES ASSUME IInv, [Next]_vars PROVE IInv'
  OBVIOUS
<1>1. PICK F : F = RowFailures
  OBVIOUS
<1>2. Held(F) /\ cases \in [Cases -> Case]
  BY <1>1 DEF IInv
<1>3. Held(F)' /\ \A c \in Cases : cases[c] # NoCase => cases'[c] # NoCase
  <2>1. ASSUME NEW p \in Procs, StartRun(p) \/ Step(p) \/ Crash(p)
        PROVE  Held(F)' /\ \A c \in Cases : cases[c] # NoCase => cases'[c] # NoCase
    BY <1>2, <2>1, StepKeeps, RowsRemain
  <2>2. CASE UNCHANGED vars
    BY <1>2, <2>2, StillKeeps DEF vars, storeVars
  <2> QED BY <2>1, <2>2 DEF Next, Done
<1>4. cases' \in [Cases -> Case]
  BY <1>2, <1>3, StoreAssumption DEF Held, TypeOK, StoreTypeOK
<1>5. RowFailures' = F
  <2>1. \A c \in Cases : cases'[c].failure = F[c]
    BY <1>3, <1>4, StoreAssumption DEF Held, RowsInv, Rows, CopyOf
  <2> QED BY <1>1, <2>1 DEF RowFailures
<1>6. Held(RowFailures)'
  BY <1>3, <1>5
<1> QED BY <1>4, <1>6 DEF IInv

\* The inductive invariant holds in every reachable state, for any number of
\* processes, cases, runs, crashes and lost calls.
THEOREM Invariant == Spec => []IInv
BY InitHolds, NextKeeps, PTL DEF Spec

\* What it says, for the rows of the database as they are.
LEMMA Safe ==
  IInv => /\ TypeOK
          /\ SecondLinkUnreachable /\ ExhaustedMeansAllReminders
          /\ HighAmountNeverContacted /\ RerunsNeverDuplicateLinks
          /\ OptOutIsAStop /\ WaitIsEarned
          /\ LoopMakesProgress /\ BudgetSuffices
<1> SUFFICES ASSUME IInv
             PROVE  /\ TypeOK
                    /\ SecondLinkUnreachable /\ ExhaustedMeansAllReminders
                    /\ HighAmountNeverContacted /\ RerunsNeverDuplicateLinks
                    /\ OptOutIsAStop /\ WaitIsEarned
                    /\ LoopMakesProgress /\ BudgetSuffices
  OBVIOUS
<1>1. PICK F : F = RowFailures
  OBVIOUS
<1>2. Held(F)
  BY <1>1 DEF IInv
<1> QED BY <1>2, HeldSafe DEF Held

\* Every variable keeps its type.
THEOREM TypeSafe == Spec => []TypeOK
BY Safe, Invariant, PTL

\* No row ever counts a second link, although the cap is MAX_LINKS.
THEOREM OneLinkPerRow == Spec => []SecondLinkUnreachable
BY Safe, Invariant, PTL

\* No row is exhausted before its last reminder, or counts one too many.
THEOREM RemindersClimbed == Spec => []ExhaustedMeansAllReminders
BY Safe, Invariant, PTL

\* Nothing is ever asked of Razorpay for a failure a human must decide.
THEOREM HumansDecideHighAmounts == Spec => []HighAmountNeverContacted
BY Safe, Invariant, PTL

\* A service that refuses a repeated reference id makes one link per case.
THEOREM LinksAreUnique == Spec => []RerunsNeverDuplicateLinks
BY Safe, Invariant, PTL

\* An opted-out row ends only as stopped.
THEOREM OptOutStops == Spec => []OptOutIsAStop
BY Safe, Invariant, PTL

\* Whatever the language model replies, only a transient failure is waited for.
THEOREM WaitsAreEarned == Spec => []WaitIsEarned
BY Safe, Invariant, PTL

\* Each turn that leaves its case open has moved it one rung up.
THEOREM TurnsMakeProgress == Spec => []LoopMakesProgress
BY Safe, Invariant, PTL

\* With more turns than rungs, no run releases a case for lack of turns: for the
\* caps of the source, 8 > 3 + 2.
THEOREM TurnsSuffice == Spec => []BudgetSuffices
BY Safe, Invariant, PTL
=============================================================================
