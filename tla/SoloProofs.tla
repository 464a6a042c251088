----------------------------- MODULE SoloProofs ------------------------------
(***************************************************************************)
(* Proofs about invocations that follow one another: what a lone process   *)
(* holds is what the rows say (SoloInv), so every write takes a row one    *)
(* rung up its ladder.                                                     *)
(***************************************************************************)
EXTENDS TrailProofs, RunnerRefinement

-----------------------------------------------------------------------------
(* What one turn makes of one case, seen from the ladder.                   *)

\* A transient failure that has not waited is made to wait before its link.
LEMMA LinkAfterWait ==
  ASSUME NEW case \in Case, Open(case), NEW d \in Diagnoses(case.failure),
         NEW k \in BOOLEAN, Decide(case, d, k).action_type = "issue_link",
         case.failure.error_reason \in TransientCauses
  PROVE  case.wait_completed
<1>1. d.cause = case.failure.error_reason
  BY DEF Diagnoses, Rules, TransientCauses
<1>2. ~MustWait(case, d)
  BY DEF Decide, Ladder, Verdict, FromPolicy
<1> QED BY <1>1, <1>2 DEF MustWait

\* The action policy decides on names no link but the one of the case.
LEMMA DecidedLink ==
  ASSUME NEW case, NEW d, NEW k
  PROVE  Decide(case, d, k).payment_link_id \in {NoLink, case.active_payment_link_id}
BY DEF Decide, Ladder, Verdict, FromPolicy

\* A wait served, or an opt-out, sets one field of the rung.
LEMMA RungFlags ==
  ASSUME NEW case, NEW new, NEW flag,
         new.active_payment_link_id = case.active_payment_link_id,
         new.reminder_count = case.reminder_count,
         new.status = case.status \/ (Open(new) /\ Open(case))
  PROVE  /\ /\ new.wait_completed = flag
            /\ new.opted_out = case.opted_out
            => RungOf(new) = [RungOf(case) EXCEPT !.waited = flag]
         /\ /\ new.opted_out = flag
            /\ new.wait_completed = case.wait_completed
            => RungOf(new) = [RungOf(case) EXCEPT !.opted_out = flag]
BY DEF RungOf, Open

\* Executed with whatever reply, policy's own decision leaves the case where it
\* is or takes it one rung up.
LEMMA DispatchRises ==
  ASSUME NEW case \in Case, Shape(case), Open(case), WaitsFirst(case),
         NEW d \in Diagnoses(case.failure),
         NEW reply \in Reply, reply.ok => reply.id # NoLink,
         NEW k \in BOOLEAN, ~k, NEW a, a = Decide(case, d, k),
         NEW done, done = Dispatch(a, case, reply)
  PROVE  /\ WaitsFirst(done.case)
         /\ done.case = case \/ Rises(RungOf(case), RungOf(done.case))
         /\ a.payment_link_id \in {NoLink, done.case.active_payment_link_id}
<1>1. /\ case.link_count \in Nat /\ case.reminder_count \in Nat
      /\ case.active_payment_link_id \in LinkId
      /\ case.opted_out \in BOOLEAN /\ case.wait_completed \in BOOLEAN
      /\ MAX_LINKS \in Nat /\ MAX_LINKS > 0 /\ MAX_REMINDERS \in Nat
      /\ reply.ok \in BOOLEAN /\ reply.id \in LinkId
  BY CapsAssumption DEF Case, Reply
<1>2. RungOf(case).end = "open"
  BY DEF RungOf, Open
<1>3. a.payment_link_id \in {NoLink, case.active_payment_link_id}
  BY DecidedLink
<1> DEFINE Goal == /\ WaitsFirst(done.case)
                   /\ done.case = case \/ Rises(RungOf(case), RungOf(done.case))
                   /\ a.payment_link_id \in {NoLink, done.case.active_payment_link_id}
<1>4. ASSUME NEW s \in {"stopped", "escalated", "exhausted"},
             done.case = [case EXCEPT !.status = s],
             s # "stopped" => ~case.opted_out,
             s = "exhausted" => ~MayIssue(case) /\ ~MayRemind(case)
      PROVE  Goal
  <2> DEFINE new == [case EXCEPT !.status = s]
  <2>1. /\ new.status = s /\ new.failure = case.failure
        /\ new.link_count = case.link_count /\ new.reminder_count = case.reminder_count
        /\ new.opted_out = case.opted_out /\ new.wait_completed = case.wait_completed
        /\ new.active_payment_link_id = case.active_payment_link_id
    BY StatusUpdate DEF CaseStatus
  <2>2. done.case = new
    BY <1>4
  <2> HIDE DEF new
  <2>3. RungOf(new) = [RungOf(case) EXCEPT !.end = s]
    BY <2>1 DEF RungOf, Terminal
  <2>4. s = "exhausted" =>
          RungOf(case).link # "none" /\ RungOf(case).reminders = MAX_REMINDERS
    BY <1>1, <1>4 DEF MayIssue, MayRemind, Shape, RungOf, LinkSeen
  <2>5. RungOf(case).opted_out = case.opted_out
    BY DEF RungOf
  <2>6. Rises(RungOf(case), RungOf(new))
    BY <1>2, <1>4, <2>3, <2>4, <2>5 DEF Rises
  <2>7. WaitsFirst(new)
    BY <2>1 DEF WaitsFirst
  <2> QED BY <1>3, <2>1, <2>2, <2>6, <2>7
<1>5. ASSUME ~case.opted_out, MustWait(case, d),
             a = Verdict(case, "wait", "transient_rail")
      PROVE  Goal
  <2> DEFINE new == [case EXCEPT !.status = "waiting", !.wait_completed = TRUE]
  <2>1. done.case = new
    BY <1>5 DEF Dispatch, Verdict, FromPolicy, Wait, Executed
  <2>2. /\ new.status = "waiting" /\ new.wait_completed = TRUE /\ new.failure = case.failure
        /\ new.link_count = case.link_count /\ new.reminder_count = case.reminder_count
        /\ new.opted_out = case.opted_out
        /\ new.active_payment_link_id = case.active_payment_link_id
    BY WaitUpdate
  <2> HIDE DEF new
  <2>3. ~case.wait_completed /\ case.failure.error_reason \in TransientCauses
    BY <1>1, <1>5, DiagnosesFacts DEF MustWait, Case
  <2>4. case.active_payment_link_id = NoLink
    BY <1>1, <2>3 DEF WaitsFirst, Shape
  <2>5. RungOf(new) = [RungOf(case) EXCEPT !.waited = TRUE]
    <3>1. Open(new)
      BY <2>2 DEF Terminal, Open
    <3> QED BY <2>2, <3>1, RungFlags
  <2>6. ~RungOf(case).opted_out /\ ~RungOf(case).waited /\ RungOf(case).link = "none"
    BY <1>5, <2>3, <2>4 DEF RungOf, LinkSeen
  <2>7. Rises(RungOf(case), RungOf(new))
    BY <1>2, <2>5, <2>6 DEF Rises
  <2>8. WaitsFirst(new)
    BY <2>2 DEF WaitsFirst
  <2> QED BY <1>3, <2>1, <2>2, <2>7, <2>8
<1>6. ASSUME ~case.opted_out, MayIssue(case),
             a = FromPolicy(case, "issue_link", "issue_link",
                            case.failure.amount_paise, NoLink)
      PROVE  Goal
  <2>1. /\ case.active_payment_link_id = NoLink
        /\ a.action_type = "issue_link" /\ a.payment_link_id = NoLink
    BY <1>6 DEF MayIssue, FromPolicy
  <2>2. done = IF reply.ok THEN Executed(Linked(case, reply.id), Ok(reply.id))
               ELSE Executed(case, Failed(NoLink, "razorpay"))
    BY <1>1, <1>6, <2>1 DEF Dispatch, FromPolicy, IssueLink, Amount, HasLink, NoAmount
  <2>3. CASE ~reply.ok
    <3>1. done.case = case
      BY <2>2, <2>3 DEF Executed
    <3> QED BY <1>3, <3>1
  <2>4. CASE reply.ok
    <3> DEFINE new == Linked(case, reply.id)
    <3>1. done.case = new
      BY <2>2, <2>4 DEF Executed
    <3>2. /\ new.status = "diagnosed" /\ new.active_payment_link_id = reply.id
          /\ new.failure = case.failure /\ new.reminder_count = case.reminder_count
          /\ new.opted_out = case.opted_out /\ new.wait_completed = case.wait_completed
      BY <1>1, LinkUpdate
    <3> HIDE DEF new
    <3>3. PICK seen \in {"blank", "usable"} : LinkSeen(reply.id) = seen
      BY <2>4 DEF LinkSeen
    <3>4. RungOf(new) = [RungOf(case) EXCEPT !.link = seen]
      BY <1>2, <3>2, <3>3 DEF RungOf, Terminal
    <3>5. ~RungOf(case).opted_out /\ RungOf(case).link = "none"
      BY <1>6, <2>1 DEF RungOf, LinkSeen
    <3>6. Rises(RungOf(case), RungOf(new))
      BY <1>2, <3>4, <3>5 DEF Rises
    <3>7. WaitsFirst(new)
      BY <2>1, <3>2, LinkAfterWait DEF WaitsFirst
    <3> QED BY <2>1, <3>1, <3>6, <3>7
  <2> QED BY <1>1, <2>3, <2>4
<1>7. ASSUME ~case.opted_out, MayRemind(case),
             a = FromPolicy(case, "remind", "remind", NoAmount,
                            case.active_payment_link_id)
      PROVE  Goal
  <2>1. done = Remind(a, case, reply)
    BY <1>7 DEF Dispatch, FromPolicy
  <2>2. RemindedLink(a, case) = case.active_payment_link_id
    BY <1>7 DEF RemindedLink, OrElse, FromPolicy
  <2>3. \/ done.case = case
        \/ /\ HasLink(case.active_payment_link_id)
           /\ done.case = [case EXCEPT !.reminder_count = @ + 1]
    BY <2>1, <2>2 DEF Remind, Executed
  <2>4. CASE /\ HasLink(case.active_payment_link_id)
             /\ done.case = [case EXCEPT !.reminder_count = @ + 1]
    <3> DEFINE new == [case EXCEPT !.reminder_count = @ + 1]
    <3>1. /\ new.reminder_count = case.reminder_count + 1
          /\ new.failure = case.failure
          /\ new.status = case.status /\ new.link_count = case.link_count
          /\ new.opted_out = case.opted_out /\ new.wait_completed = case.wait_completed
          /\ new.active_payment_link_id = case.active_payment_link_id
      BY ReminderUpdate
    <3>2. done.case = new
      BY <2>4
    <3> HIDE DEF new
    <3>3. RungOf(new) = [RungOf(case) EXCEPT !.reminders = @ + 1]
      BY <3>1 DEF RungOf
    <3>4. /\ ~RungOf(case).opted_out /\ RungOf(case).link = "usable"
          /\ RungOf(case).reminders < MAX_REMINDERS
      BY <1>7, <2>4 DEF RungOf, LinkSeen, MayRemind
    <3>5. Rises(RungOf(case), RungOf(new))
      BY <1>2, <3>3, <3>4 DEF Rises
    <3>6. WaitsFirst(new)
      BY <3>1 DEF WaitsFirst
    <3> QED BY <1>3, <3>1, <3>2, <3>5, <3>6
  <2> QED BY <1>3, <2>3, <2>4
<1>8. ASSUME a = Verdict(case, "stop", "opt_out") PROVE Goal
  <2>1. done.case = [case EXCEPT !.status = "stopped"]
    BY <1>8 DEF Dispatch, Verdict, FromPolicy, Stop, Executed
  <2> QED BY <1>4, <2>1
<1>9. ASSUME ~case.opted_out, NEW r \in Grounds(case),
             a = Verdict(case, "escalate", r)
      PROVE  Goal
  <2>1. done.case = [case EXCEPT !.status = "escalated"]
    BY <1>9 DEF Dispatch, Verdict, FromPolicy, Escalate, Executed
  <2> QED BY <1>4, <1>9, <2>1
<1>10. ASSUME ~case.opted_out, ~MayIssue(case), ~MayRemind(case),
              a = Verdict(case, "stop", "exhausted")
       PROVE  Goal
  <2>1. done.case = [case EXCEPT !.status = "exhausted"]
    BY <1>10 DEF Dispatch, Verdict, FromPolicy, Stop, Executed
  <2> QED BY <1>4, <1>10, <2>1
<1> HIDE DEF Goal
<1>11. Goal
  BY <1>1, <1>5, <1>6, <1>7, <1>8, <1>9, <1>10, DecideCases
<1> QED BY <1>11 DEF Goal

\* An answer leaves the case where it is or takes it one rung up: out of the
\* ladder, by a payment on its link, or onto the opt-out.
LEMMA AnswerRises ==
  ASSUME NEW case \in Case, Shape(case), WaitsFirst(case),
         NEW a \in ActionRequest, a.action_type \in Contact => Open(case),
         a.payment_link_id \in {NoLink, case.active_payment_link_id}, NEW truth,
         NEW answer, answer = Respond(case, a, truth),
         NEW new, new = Answered(case, answer)
  PROVE  /\ new.case_id = case.case_id /\ WaitsFirst(new)
         /\ new = case \/ (Open(case) /\ Rises(RungOf(case), RungOf(new)))
<1>1. case.opted_out \in BOOLEAN
  BY DEF Case
<1>2. answer.kind # "ignored" => ~case.opted_out /\ Open(case)
  BY <1>1 DEF Respond
<1>3. HasLink(answer.payment_link_id) => HasLink(case.active_payment_link_id)
  BY DEF Respond, OrElse, HasLink
<1>4. CASE new = [case EXCEPT !.opted_out = TRUE] /\ answer.kind # "ignored"
  <2>1. /\ new.opted_out = TRUE /\ new.case_id = case.case_id /\ new.failure = case.failure
        /\ new.status = case.status /\ new.link_count = case.link_count
        /\ new.reminder_count = case.reminder_count
        /\ new.wait_completed = case.wait_completed
        /\ new.active_payment_link_id = case.active_payment_link_id
    BY <1>4, OptOutUpdate
  <2>2. RungOf(new) = [RungOf(case) EXCEPT !.opted_out = TRUE]
    BY <2>1, RungFlags
  <2>3. RungOf(case).end = "open" /\ ~RungOf(case).opted_out
    BY <1>2, <1>4 DEF RungOf, Open
  <2>4. Rises(RungOf(case), RungOf(new))
    BY <2>2, <2>3 DEF Rises
  <2> QED BY <1>2, <1>4, <2>1, <2>4 DEF WaitsFirst
<1>5. CASE /\ new = [case EXCEPT !.status = "recovered"] /\ answer.kind # "ignored"
           /\ HasLink(answer.payment_link_id)
  <2>1. /\ new.status = "recovered"
        /\ new.case_id = case.case_id /\ new.failure = case.failure
        /\ new.link_count = case.link_count /\ new.reminder_count = case.reminder_count
        /\ new.opted_out = case.opted_out /\ new.wait_completed = case.wait_completed
        /\ new.active_payment_link_id = case.active_payment_link_id
    BY <1>5, StatusUpdate DEF CaseStatus
  <2>2. RungOf(new) = [RungOf(case) EXCEPT !.end = "recovered"]
    BY <2>1 DEF RungOf, Terminal
  <2>3. /\ RungOf(case).end = "open" /\ ~RungOf(case).opted_out
        /\ RungOf(case).link = "usable"
    BY <1>2, <1>3, <1>5 DEF RungOf, Open, LinkSeen, HasLink
  <2>4. Rises(RungOf(case), RungOf(new))
    BY <2>2, <2>3 DEF Rises
  <2> QED BY <1>2, <1>5, <2>1, <2>4 DEF WaitsFirst
<1>6. CASE new = case
  BY <1>6 DEF WaitsFirst
<1> QED BY <1>4, <1>5, <1>6 DEF Answered

-----------------------------------------------------------------------------
(* The steps of a lone process.                                             *)

\* An idle process has nothing to keep in step.
LEMMA IdleInStep ==
  ASSUME NEW q \in Procs, pc[q] = "idle", todo[q] = {}
  PROVE  SoloOK(q)
BY DEF SoloOK, InStep

\* What a process alone does keeps the invariant if it keeps its own part, and
\* the rows.
LEMMA SoloAssemble ==
  ASSUME SoloInv, NEW p \in Procs, Alone(p), RowsWaitFirst', SoloOK(p)',
         \A q \in Procs \ {p} : pc'[q] = pc[q] /\ todo'[q] = todo[q]
  PROVE  SoloInv'
<1> SUFFICES ASSUME NEW q \in Procs \ {p} PROVE SoloOK(q)'
  BY DEF SoloInv
<1>1. pc[q] = "idle" /\ todo[q] = {}
  BY DEF Alone, SoloInv, SoloOK
<1>2. pc'[q] = "idle" /\ todo'[q] = {}
  BY <1>1
<1> QED BY <1>2 DEF SoloOK, InStep

\* A process moves no other one on.
LEMMA OthersRest ==
  ASSUME NEW F, Held(F), NEW p \in Procs, StartRun(p) \/ Step(p) \/ Crash(p)
  PROVE  \A q \in Procs \ {p} : pc'[q] = pc[q] /\ todo'[q] = todo[q]
<1>1. pc \in [Procs -> PC] /\ todo \in [Procs -> SUBSET Cases]
  BY DEF Held, TypeOK
<1>2. \E to : pc' = [pc EXCEPT ![p] = to]
  <2>1. CASE StartRun(p) \/ Crash(p) \/ SkipTerminal(p) \/ OpenCase(p) \/ LogDetected(p) \/ Return(p)
    BY <2>1 DEF StartRun, Crash, SkipTerminal, OpenCase, LogDetected, Return, Go
  <2>2. CASE Turn(p)
    BY <2>2 DEF Turn, Diagnose, LogVerdict, LogAttempt, RefuseKilled, ExecuteLocally,
                ExecuteInjected, ExecuteCreate, ExecuteNotify, Save, LogResult, Go
  <2>3. CASE EndOfTurn(p)
    BY <2>3 DEF EndOfTurn, StopKilled, ParkFailed, AskCustomer, NoCustomer, SaveAnswer,
                CloseCase, NextTurn, ParkExpired, Go
  <2> QED BY <2>1, <2>2, <2>3 DEF Step
<1>3. \E rest : todo' = [todo EXCEPT ![p] = rest]
  <2>0. todo = [todo EXCEPT ![p] = todo[p]]
    BY <1>1
  <2>1. CASE StartRun(p) \/ Crash(p) \/ SkipTerminal(p) \/ OpenCase(p) \/ LogDetected(p) \/ Return(p)
    BY <2>0, <2>1 DEF StartRun, Crash, SkipTerminal, OpenCase, LogDetected, Return, runVars
  <2>2. CASE Turn(p)
    BY <2>0, <2>2 DEF Turn, Diagnose, LogVerdict, LogAttempt, RefuseKilled, ExecuteLocally,
                ExecuteInjected, ExecuteCreate, ExecuteNotify, Save, LogResult, runVars
  <2>3. CASE EndOfTurn(p)
    BY <2>0, <2>3 DEF EndOfTurn, StopKilled, ParkFailed, AskCustomer, NoCustomer, SaveAnswer,
                CloseCase, NextTurn, ParkExpired, FinishCase, runVars
  <2> QED BY <2>1, <2>2, <2>3 DEF Step
<1> QED BY <1>1, <1>2, <1>3

\* Going through the batch and through a turn without touching a row.
LEMMA SoloReads ==
  ASSUME NEW F, Held(F), SoloInv, NEW p \in Procs, Alone(p),
         \/ SkipTerminal(p) \/ LogDetected(p) \/ Return(p) \/ Crash(p)
         \/ Diagnose(p) \/ LogVerdict(p) \/ LogAttempt(p) \/ LogResult(p)
         \/ NoCustomer(p) \/ NextTurn(p)
         \/ ParkFailed(p) \/ CloseCase(p) \/ ParkExpired(p)
  PROVE  SoloInv'
<1> USE LocalTypes DEF runVars, caseVars, storeVars
<1>0. \A q \in Procs \ {p} : pc'[q] = pc[q] /\ todo'[q] = todo[q]
  BY OthersRest DEF Step, Turn, EndOfTurn
<1>1. UNCHANGED <<cases, snap, cur>>
  BY DEF SkipTerminal, LogDetected, Return, Crash, Diagnose, LogVerdict, LogAttempt,
         LogResult, NoCustomer, NextTurn, ParkFailed, CloseCase, ParkExpired
<1>2. SoloOK(p) /\ RowsWaitFirst'
  BY <1>1 DEF SoloInv, RowsWaitFirst, Rows, WaitsFirst
<1>3. WaitsFirst(cur[p]) => WaitsFirst(cur[p])'
  BY <1>1 DEF WaitsFirst
<1>4. CASE \/ LogDetected(p) \/ Diagnose(p) \/ LogVerdict(p) \/ LogAttempt(p)
           \/ LogResult(p) \/ NoCustomer(p) \/ NextTurn(p)
  <2>1. UNCHANGED todo /\ (~Diagnose(p) => UNCHANGED action)
    BY <1>4 DEF LogDetected, Diagnose, LogVerdict, LogAttempt, LogResult, NoCustomer, NextTurn
  <2>2. \/ pc[p] = "detect" /\ pc'[p] = "diagnose"
        \/ pc[p] = "diagnose" /\ pc'[p] = "verdict"
        \/ pc[p] = "verdict" /\ pc'[p] = "attempt"
        \/ pc[p] = "attempt" /\ pc'[p] = "dispatch"
        \/ pc[p] = "result" /\ pc'[p] = "outcome" /\ ~Diagnose(p)
        \/ pc[p] = "outcome" /\ pc'[p] = "close"
        \/ pc[p] = "close" /\ pc'[p] = "diagnose"
    BY <1>4 DEF LogDetected, Diagnose, LogVerdict, LogAttempt, LogResult, NoCustomer,
                NextTurn, Go
  <2>3. InStep(p)'
    BY <1>1, <1>2, <2>2 DEF SoloOK, InStep, Row
  <2>4. SoloOK(p)'
    BY <1>1, <1>2, <1>3, <2>1, <2>2, <2>3 DEF SoloOK
  <2> QED BY <1>0, <1>2, <2>4, SoloAssemble
<1>5. CASE \/ SkipTerminal(p) \/ Return(p) \/ Crash(p)
           \/ ParkFailed(p) \/ CloseCase(p) \/ ParkExpired(p)
  <2>1. \/ pc[p] = "next" /\ pc'[p] = "next" /\ todo'[p] \subseteq todo[p]
        \/ pc'[p] = "idle" /\ todo'[p] = {}
        \/ pc'[p] = "next" /\ todo'[p] \subseteq todo[p] \ {cur[p].case_id}
    BY <1>5 DEF SkipTerminal, Return, Crash, ParkFailed, CloseCase, ParkExpired, Go,
                FinishCase
  <2>2. SoloOK(p)'
    BY <1>1, <1>2, <2>1 DEF SoloOK, InStep
  <2> QED BY <1>0, <1>2, <2>2, SoloAssemble
<1> QED BY <1>4, <1>5

\* The snapshot is taken of the rows, and a case opened is still its row.
LEMMA SoloOpens ==
  ASSUME NEW F, Held(F), SoloInv, NEW p \in Procs, Alone(p), StartRun(p) \/ OpenCase(p)
  PROVE  SoloInv'
<1> USE LocalTypes DEF runVars, caseVars, storeVars
<1>0. \A q \in Procs \ {p} : pc'[q] = pc[q] /\ todo'[q] = todo[q]
  BY OthersRest DEF Step, Turn, EndOfTurn
<1>1. UNCHANGED cases
  BY DEF StartRun, OpenCase
<1>2. SoloOK(p) /\ RowsWaitFirst'
  BY <1>1 DEF SoloInv, RowsWaitFirst, Rows, WaitsFirst
<1>3. CASE StartRun(p)
  <2>1. pc'[p] = "next" /\ snap'[p] = cases
    BY <1>3 DEF StartRun, Go, Held, TypeOK
  <2>2. SoloOK(p)'
    BY <1>1, <2>1 DEF SoloOK, InStep
  <2> QED BY <1>0, <1>2, <2>2, SoloAssemble
<1>4. CASE OpenCase(p)
  <2>1. PICK c \in Cases : /\ cur' = [cur EXCEPT ![p] = snap[p][c]]
                           /\ c \in todo[p] /\ pc[p] = "next" /\ snap[p][c] # NoCase
    BY <1>4 DEF OpenCase, IsNext, Go, Held, Selected
  <2>2. /\ UNCHANGED <<todo, snap>> /\ cur'[p] = snap[p][c]
        /\ pc'[p] \in {"detect", "diagnose"}
    BY <1>4, <2>1 DEF OpenCase, Go, AfterOpen, Held, TypeOK
  <2>3. snap[p][c] = cases[c] /\ cases[c].case_id = c /\ WaitsFirst(cases[c])
    BY <1>2, <2>1 DEF SoloInv, RowsWaitFirst, SoloOK, Held, RowsInv, Rows, CopyOf
  <2>4. InStep(p)'
    BY <1>1, <2>2, <2>3 DEF InStep, Row
  <2>5. WaitsFirst(cur[p])'
    BY <1>1, <1>2, <2>2, <2>3 DEF WaitsFirst
  <2>6. SoloOK(p)'
    BY <1>1, <1>2, <2>1, <2>2, <2>4, <2>5 DEF SoloOK
  <2> QED BY <1>0, <1>2, <2>6, SoloAssemble
<1> QED BY <1>3, <1>4

\* Razorpay names the link of every call it answers.
LEMMA NamedReply ==
  ASSUME RazorpayTypeOK, NEW c \in Cases, NEW n \in Nat, NEW link, NEW reply,
         CreatePaymentLink(c, n, reply) \/ NotifyPaymentLink(c, link, reply)
  PROVE  reply.ok => reply.id # NoLink
BY ServiceFacts

\* The executor leaves the case at its row, or one rung above it.
LEMMA SoloExecutes ==
  ASSUME NEW F, Held(F), SoloInv, NEW p \in Procs, Alone(p),
         RefuseKilled(p) \/ ExecuteLocally(p) \/ ExecuteInjected(p)
           \/ ExecuteCreate(p) \/ ExecuteNotify(p)
  PROVE  SoloInv'
<1> USE LocalTypes DEF runVars, storeVars
<1>0. \A q \in Procs \ {p} : pc'[q] = pc[q] /\ todo'[q] = todo[q]
  BY OthersRest DEF Step, Turn, EndOfTurn
<1>1. /\ pc[p] = "dispatch" /\ pc'[p] = "save"
      /\ UNCHANGED <<cases, todo, snap, action>>
  BY DEF RefuseKilled, ExecuteLocally, ExecuteInjected, ExecuteCreate, ExecuteNotify, Go
<1>2. /\ SoloOK(p) /\ RowsWaitFirst'
      /\ Row(p) = cur[p] /\ WaitsFirst(cur[p])
  BY <1>1 DEF SoloInv, RowsWaitFirst, Rows, SoloOK, InStep, WaitsFirst
<1>3. Shape(cur[p]) /\ Open(cur[p]) /\ cur[p].case_id \in Cases /\ cur[p] # NoCase
  BY <1>1, StoreAssumption DEF CurOK, CopyOf, TurnOK
<1>4. PICK d \in Diagnoses(cur[p].failure) : action[p] = Decide(cur[p], d, job[p].kill)
  BY <1>1 DEF TurnOK
<1>5. \E new : /\ cur'[p] = new /\ new.case_id = cur[p].case_id /\ WaitsFirst(new)
               /\ new = cur[p] \/ Rises(RungOf(cur[p]), RungOf(new))
               /\ action[p].payment_link_id \in {NoLink, new.active_payment_link_id}
  <2>1. CASE RefuseKilled(p)
    <3>1. action[p].payment_link_id \in {NoLink, cur[p].active_payment_link_id}
      BY <1>4, DecidedLink
    <3> QED BY <1>2, <2>1, <3>1 DEF RefuseKilled
  <2>2. CASE \/ ExecuteLocally(p) \/ ExecuteInjected(p)
             \/ ExecuteCreate(p) \/ ExecuteNotify(p)
    <3>1. ~job[p].kill
      BY <2>2 DEF ExecuteLocally, ExecuteInjected, ExecuteCreate, ExecuteNotify
    <3>2. PICK reply : Execute(p, reply) /\ reply \in Reply /\ (reply.ok => reply.id # NoLink)
      <4>1. /\ ClientError \in Reply /\ ~ClientError.ok
            /\ Served(DryLink) \in Reply /\ Served(DryLink).id # NoLink
        BY DEF ClientError, Served, Reply, LinkId, DryLink, NoLink
      <4>2. CASE ExecuteLocally(p) \/ ExecuteInjected(p)
        <5>1. Execute(p, Served(DryLink)) \/ Execute(p, ClientError)
          BY <4>2 DEF ExecuteLocally, ExecuteInjected
        <5> QED BY <4>1, <5>1, Zenon
      <4>3. CASE ExecuteCreate(p) \/ ExecuteNotify(p)
        <5>1. Reference(p) \in Nat
          BY DEF Reference
        <5>2. PICK reply \in Reply :
                /\ Execute(p, reply)
                /\ \/ CreatePaymentLink(cur[p].case_id, Reference(p), reply)
                   \/ NotifyPaymentLink(cur[p].case_id, RemindedLink(action[p], cur[p]), reply)
          BY <4>3 DEF ExecuteCreate, ExecuteNotify
        <5>3. RazorpayTypeOK
          BY DEF Held, TypeOK
        <5>4. reply.ok => reply.id # NoLink
          BY <1>3, <5>1, <5>2, <5>3, NamedReply, Zenon
        <5> QED BY <5>2, <5>4, Zenon
      <4> QED BY <2>2, <4>2, <4>3
    <3> DEFINE done == Dispatch(action[p], cur[p], reply)
    <3>3. cur'[p] = done.case
      BY <3>2 DEF Execute, Held, TypeOK
    <3>4. done.case.case_id = cur[p].case_id
      BY <3>2, DispatchId
    <3>5. /\ WaitsFirst(done.case)
          /\ done.case = cur[p] \/ Rises(RungOf(cur[p]), RungOf(done.case))
          /\ action[p].payment_link_id \in {NoLink, done.case.active_payment_link_id}
      BY <1>2, <1>3, <1>4, <3>1, <3>2, DispatchRises
    <3> HIDE DEF done
    <3> QED BY <3>3, <3>4, <3>5
  <2> QED BY <2>1, <2>2
<1>6. PICK new : /\ cur'[p] = new /\ new.case_id = cur[p].case_id /\ WaitsFirst(new)
                 /\ new = cur[p] \/ Rises(RungOf(cur[p]), RungOf(new))
                 /\ action[p].payment_link_id \in {NoLink, new.active_payment_link_id}
  BY <1>5
<1>7. /\ Row(p)' = cur[p] /\ RungOf(Row(p))' = RungOf(cur[p])
      /\ Row(p)' # NoCase /\ Open(Row(p))'
  BY <1>1, <1>2, <1>3, <1>6 DEF Row, RungOf, LinkSeen, Open
<1>8. RungOf(cur[p])' = RungOf(new) /\ WaitsFirst(cur[p])'
  BY <1>6 DEF RungOf, LinkSeen, WaitsFirst
<1>9. InStep(p)'
  BY <1>1, <1>6, <1>7, <1>8 DEF InStep, Rises
<1>10. SoloOK(p)'
  BY <1>1, <1>2, <1>6, <1>8, <1>9 DEF SoloOK
<1> QED BY <1>0, <1>2, <1>10, SoloAssemble

\* A step that writes a row takes one open row one rung up, or leaves it.
Raises(c) ==
  /\ \A x \in Cases \ {c} : cases'[x] = cases[x]
  /\ cases'[c] = cases[c] \/ Rises(RungOf(cases[c]), RungOf(cases'[c]))

\* Every save is of the case as the row has it, or of one rung above it.
LEMMA SoloSaves ==
  ASSUME NEW F, Held(F), SoloInv, NEW p \in Procs, Alone(p),
         Save(p) \/ SaveAnswer(p) \/ StopKilled(p)
  PROVE  /\ SoloInv' /\ cur[p].case_id \in Rows
         /\ Open(cases[cur[p].case_id]) /\ Raises(cur[p].case_id)
<1> USE LocalTypes DEF runVars, caseVars
<1>0. \A q \in Procs \ {p} : pc'[q] = pc[q] /\ todo'[q] = todo[q]
  BY OthersRest DEF Step, Turn, EndOfTurn
<1>1. /\ UNCHANGED <<todo, snap, action>>
      /\ Upsert(cur'[p])
      /\ \/ pc[p] = "save" /\ pc'[p] = "result" /\ UNCHANGED cur
         \/ pc[p] = "apply" /\ pc'[p] = "close" /\ UNCHANGED cur
         \/ /\ pc[p] = "outcome" /\ pc'[p] = "close"
            /\ cur' = [cur EXCEPT ![p].status = "stopped"]
  BY DEF Save, SaveAnswer, StopKilled, Go, Upsert
<1>2. SoloOK(p) /\ cur[p].case_id \in Cases /\ WaitsFirst(cur[p])
  BY <1>1 DEF SoloInv, SoloOK, CurOK
<1>3. \E new \in Case :
        /\ cur'[p] = new /\ new.case_id = cur[p].case_id /\ WaitsFirst(new)
        /\ new = Row(p) \/ Rises(RungOf(Row(p)), RungOf(new))
        /\ new.active_payment_link_id = cur[p].active_payment_link_id
        /\ Row(p) # NoCase /\ Open(Row(p))
  <2>1. CASE pc[p] \in {"save", "apply"} /\ UNCHANGED cur
    BY <1>2, <2>1 DEF SoloOK, InStep
  <2>2. CASE StopKilled(p)
    <3>1. /\ pc[p] = "outcome" /\ result[p].error_type = "kill_switch"
          /\ cur' = [cur EXCEPT ![p].status = "stopped"]
      BY <2>2 DEF StopKilled, Go
    <3>2. Open(cur[p]) /\ Row(p) = cur[p] /\ Row(p) # NoCase
      BY <1>2, <3>1, StoreAssumption DEF TurnOK, SoloOK, InStep
    <3> DEFINE new == [cur[p] EXCEPT !.status = "stopped"]
    <3>3. /\ new \in Case /\ new.status = "stopped"
          /\ new.case_id = cur[p].case_id /\ new.failure = cur[p].failure
          /\ new.link_count = cur[p].link_count
          /\ new.reminder_count = cur[p].reminder_count
          /\ new.opted_out = cur[p].opted_out /\ new.wait_completed = cur[p].wait_completed
          /\ new.active_payment_link_id = cur[p].active_payment_link_id
      BY StatusUpdate DEF CaseStatus
    <3>4. cur'[p] = new
      BY <3>1 DEF Held, TypeOK
    <3> HIDE DEF new
    <3>5. RungOf(new) = [RungOf(cur[p]) EXCEPT !.end = "stopped"]
      BY <3>3 DEF RungOf, Terminal
    <3>6. Rises(RungOf(cur[p]), RungOf(new))
      BY <3>2, <3>5 DEF Rises, RungOf, Open
    <3>7. WaitsFirst(new)
      BY <1>2, <3>3 DEF WaitsFirst
    <3> QED BY <3>2, <3>3, <3>4, <3>6, <3>7
  <2> QED BY <1>1, <2>1, <2>2 DEF Save, SaveAnswer, Go
<1>4. PICK new \in Case :
        /\ cur'[p] = new /\ new.case_id = cur[p].case_id /\ WaitsFirst(new)
        /\ new = Row(p) \/ Rises(RungOf(Row(p)), RungOf(new))
        /\ new.active_payment_link_id = cur[p].active_payment_link_id
        /\ Row(p) # NoCase /\ Open(Row(p))
  BY <1>3
<1>5. /\ cases'[cur[p].case_id] = new
      /\ \A x \in Cases \ {cur[p].case_id} : cases'[x] = cases[x]
  BY <1>1, <1>2, <1>4 DEF Upsert
<1>6. /\ cur[p].case_id \in Rows
      /\ Open(cases[cur[p].case_id]) /\ Raises(cur[p].case_id)
  BY <1>2, <1>4, <1>5 DEF Raises, Row, Rows
<1>7. RowsWaitFirst'
  <2>1. \A c \in Cases : cases'[c] = new \/ cases'[c] = cases[c]
    BY <1>5
  <2> QED BY <1>4, <2>1 DEF SoloInv, RowsWaitFirst, Rows, WaitsFirst
<1>8. InStep(p)'
  BY <1>1, <1>4, <1>5 DEF InStep, Row
<1>9. WaitsFirst(cur[p])'
  BY <1>4 DEF WaitsFirst
<1>10. SoloOK(p)'
  BY <1>1, <1>2, <1>4, <1>5, <1>8, <1>9 DEF SoloOK
<1> QED BY <1>0, <1>6, <1>7, <1>10, SoloAssemble

\* An answer is applied in memory to the case as the row has it.
LEMMA SoloAsks ==
  ASSUME NEW F, Held(F), SoloInv, NEW p \in Procs, Alone(p), AskCustomer(p)
  PROVE  SoloInv'
<1> USE LocalTypes DEF runVars
<1> DEFINE answer == Respond(cur[p], action[p], truths[cur[p].case_id])
           new == Answered(cur[p], answer)
<1>0. \A q \in Procs \ {p} : pc'[q] = pc[q] /\ todo'[q] = todo[q]
  BY OthersRest DEF Step, Turn, EndOfTurn
<1>1. /\ pc[p] = "outcome" /\ UNCHANGED <<cases, todo, snap, action>>
      /\ cur' = [cur EXCEPT ![p] = new]
      /\ pc' = [pc EXCEPT ![p] = IF cur'[p] = cur[p] THEN "close" ELSE "apply"]
  BY DEF AskCustomer
<1>2. /\ SoloOK(p) /\ RowsWaitFirst'
      /\ Row(p) = cur[p] /\ WaitsFirst(cur[p]) /\ cur[p].case_id \in Cases
      /\ action[p].payment_link_id \in {NoLink, cur[p].active_payment_link_id}
  BY <1>1 DEF SoloInv, RowsWaitFirst, Rows, SoloOK, InStep, WaitsFirst, CurOK
<1>3. Shape(cur[p]) /\ cur[p] # NoCase /\ (action[p].action_type \in Contact => Open(cur[p]))
  BY <1>1, StoreAssumption DEF CurOK, CopyOf, TurnOK
<1>4. /\ new.case_id = cur[p].case_id /\ WaitsFirst(new)
      /\ new = cur[p] \/ (Open(cur[p]) /\ Rises(RungOf(cur[p]), RungOf(new)))
  BY <1>2, <1>3, AnswerRises
<1> HIDE DEF answer, new
<1>5. /\ cur'[p] = new
      /\ \/ pc'[p] = "close" /\ new = cur[p]
         \/ pc'[p] = "apply" /\ new # cur[p]
  BY <1>1 DEF Held, TypeOK
<1>6. /\ Row(p)' = cur[p] /\ Row(p)' # NoCase
      /\ RungOf(Row(p))' = RungOf(cur[p]) /\ Open(Row(p))' = Open(cur[p])
  BY <1>1, <1>3, <1>2, <1>4, <1>5 DEF Row, RungOf, LinkSeen, Open
<1>7. RungOf(cur[p])' = RungOf(new) /\ WaitsFirst(cur[p])'
  BY <1>4, <1>5 DEF RungOf, LinkSeen, WaitsFirst
<1>8. InStep(p)'
  BY <1>4, <1>5, <1>6, <1>7 DEF InStep, Rises
<1>9. SoloOK(p)'
  BY <1>1, <1>2, <1>4, <1>5, <1>7, <1>8 DEF SoloOK
<1> QED BY <1>0, <1>2, <1>9, SoloAssemble

-----------------------------------------------------------------------------
(* The invariant of a lone process, and what follows from it.               *)

\* A lone process starts with nothing in memory.
LEMMA SoloStarts == Init => SoloInv
<1> SUFFICES ASSUME Init PROVE SoloInv
  OBVIOUS
<1>1. /\ \A c \in Cases : cases[c].link_count = 0
      /\ pc = [p \in Procs |-> "idle"] /\ todo = [p \in Procs |-> {}]
  BY DEF Init, Fresh, NewCase
<1>2. RowsWaitFirst
  BY <1>1 DEF RowsWaitFirst, Rows, WaitsFirst
<1>3. \A p \in Procs : SoloOK(p)
  BY <1>1, IdleInStep
<1> QED BY <1>2, <1>3 DEF SoloInv

\* Every step of a process alone, its death included, keeps what it holds in step
\* with the rows, and writes at most one row, one rung up.
LEMMA SoloStepKept ==
  ASSUME NEW F, Held(F), SoloInv, NEW p \in Procs, Alone(p),
         StartRun(p) \/ Step(p) \/ Crash(p)
  PROVE  /\ SoloInv'
         /\ UNCHANGED cases \/ \E c \in Rows : Open(cases[c]) /\ Raises(c)
<1>1. CASE StartRun(p) \/ OpenCase(p)
  <2>1. UNCHANGED cases
    BY <1>1 DEF StartRun, OpenCase, storeVars
  <2> QED BY <1>1, <2>1, SoloOpens
<1>2. CASE \/ SkipTerminal(p) \/ LogDetected(p) \/ Return(p) \/ Crash(p)
           \/ Diagnose(p) \/ LogVerdict(p) \/ LogAttempt(p) \/ LogResult(p)
           \/ NoCustomer(p) \/ NextTurn(p)
           \/ ParkFailed(p) \/ CloseCase(p) \/ ParkExpired(p)
  <2>1. UNCHANGED cases
    BY <1>2 DEF SkipTerminal, LogDetected, Return, Crash, Diagnose, LogVerdict,
                LogAttempt, LogResult, NoCustomer, NextTurn, ParkFailed, CloseCase,
                ParkExpired, storeVars
  <2> QED BY <1>2, <2>1, SoloReads
<1>3. CASE \/ RefuseKilled(p) \/ ExecuteLocally(p) \/ ExecuteInjected(p)
           \/ ExecuteCreate(p) \/ ExecuteNotify(p)
  <2>1. UNCHANGED cases
    BY <1>3 DEF RefuseKilled, ExecuteLocally, ExecuteInjected, ExecuteCreate,
                ExecuteNotify, storeVars
  <2> QED BY <1>3, <2>1, SoloExecutes
<1>4. CASE Save(p) \/ SaveAnswer(p) \/ StopKilled(p)
  BY <1>4, SoloSaves
<1>5. CASE AskCustomer(p)
  <2>1. UNCHANGED cases
    BY <1>5 DEF AskCustomer
  <2> QED BY <1>5, <2>1, SoloAsks
<1> QED BY <1>1, <1>2, <1>3, <1>4, <1>5 DEF Step, Turn, EndOfTurn

\* Where only runs write, the same for every step.
LEMMA SoloKept ==
  ASSUME Solo, IInv, SoloInv, [Next]_vars
  PROVE  /\ SoloInv'
         /\ UNCHANGED cases \/ \E c \in Rows : Open(cases[c]) /\ Raises(c)
<1>1. PICK F : F = RowFailures
  OBVIOUS
<1>2. Held(F)
  BY <1>1 DEF IInv
<1>3. CASE UNCHANGED vars
  <2>1. UNCHANGED <<cases, pc, todo, snap, cur, action>>
    BY <1>3 DEF vars, storeVars, runVars, caseVars
  <2>2. RowsWaitFirst' /\ \A p \in Procs : SoloOK(p)'
    BY <2>1 DEF SoloInv, RowsWaitFirst, Rows, SoloOK, WaitsFirst, InStep, Row
  <2> QED BY <2>1, <2>2 DEF SoloInv
<1>4. ASSUME NEW p \in Procs, StartRun(p) \/ Step(p) \/ Crash(p)
      PROVE  /\ SoloInv'
             /\ UNCHANGED cases \/ \E c \in Rows : Open(cases[c]) /\ Raises(c)
  <2>1. Alone(p)
    BY DEF Solo, Alone
  <2> QED BY <1>2, <1>4, <2>1, SoloStepKept
<1> QED BY <1>3, <1>4 DEF Next, Done

\* What a lone process holds is what the rows say, for any number of cases,
\* invocations, deaths and lost calls.
THEOREM SoloInvariant == ASSUME Solo PROVE Spec => []SoloInv
<1>1. IInv /\ SoloInv /\ [Next]_vars => SoloInv'
  BY SoloKept
<1> QED BY <1>1, SoloStarts, Invariant, PTL DEF Spec

\* One rung up takes no counter down, undoes no wait and no opt-out.
LEMMA RisesAdvance ==
  ASSUME NEW case \in Case, NEW new \in Case, Shape(case), Shape(new),
         Rises(RungOf(case), RungOf(new))
  PROVE  /\ case.link_count <= new.link_count
         /\ case.reminder_count <= new.reminder_count
         /\ case.opted_out => new.opted_out
         /\ case.wait_completed => new.wait_completed
<1> DEFINE r == RungOf(case)
           s == RungOf(new)
<1>1. /\ r.waited = case.wait_completed /\ s.waited = new.wait_completed
      /\ r.opted_out = case.opted_out /\ s.opted_out = new.opted_out
      /\ r.reminders = case.reminder_count /\ s.reminders = new.reminder_count
      /\ r.link = LinkSeen(case.active_payment_link_id)
      /\ s.link = LinkSeen(new.active_payment_link_id)
  BY DEF RungOf
<1>2. /\ case.link_count \in Nat /\ new.link_count \in Nat
      /\ case.reminder_count \in Nat /\ new.reminder_count \in Nat
  BY DEF Case
<1>3. /\ r.reminders \in Nat /\ s.reminders \in Nat
      /\ DOMAIN r = {"waited", "link", "reminders", "opted_out", "end"}
  BY <1>1, <1>2 DEF RungOf
<1> HIDE DEF r, s
<1>4. /\ r.reminders <= s.reminders
      /\ r.opted_out => s.opted_out
      /\ r.waited => s.waited
      /\ r.link # "none" => s.link # "none"
  BY <1>3 DEF Rises, r, s, RungOf
<1>5. case.active_payment_link_id # NoLink => new.active_payment_link_id # NoLink
  BY <1>1, <1>4 DEF LinkSeen
<1>6. case.link_count <= new.link_count
  BY <1>2, <1>5 DEF Shape
<1> QED BY <1>1, <1>4, <1>6

\* Rows only advance while invocations follow one another.
THEOREM RowsAdvance == ASSUME Solo PROVE Spec => RowsOnlyAdvance
<1>1. IInv /\ IInv' /\ SoloInv /\ [Next]_vars =>
        [\A c \in Cases :
           /\ cases[c].link_count <= cases'[c].link_count
           /\ cases[c].reminder_count <= cases'[c].reminder_count
           /\ cases[c].opted_out => cases'[c].opted_out
           /\ cases[c].wait_completed => cases'[c].wait_completed
           /\ cases[c].status \in Terminal => cases'[c] = cases[c]]_vars
  <2> SUFFICES ASSUME IInv, IInv', SoloInv, [Next]_vars, NEW c \in Cases
               PROVE  /\ cases[c].link_count <= cases'[c].link_count
                      /\ cases[c].reminder_count <= cases'[c].reminder_count
                      /\ cases[c].opted_out => cases'[c].opted_out
                      /\ cases[c].wait_completed => cases'[c].wait_completed
                      /\ cases[c].status \in Terminal => cases'[c] = cases[c]
    OBVIOUS
  <2>1. /\ cases[c] \in Case /\ cases'[c] \in Case
        /\ Shape(cases[c]) /\ Shape(cases'[c])
    BY StoreAssumption DEF IInv, Held, RowsInv, Rows, CopyOf, Shape, HighAmount
  <2>2. cases'[c] = cases[c] \/ (Open(cases[c]) /\ Rises(RungOf(cases[c]), RungOf(cases'[c])))
    BY SoloKept DEF Raises, Rows
  <2>3. CASE cases'[c] = cases[c]
    BY <2>1, <2>3 DEF Case
  <2>4. CASE Open(cases[c]) /\ Rises(RungOf(cases[c]), RungOf(cases'[c]))
    BY <2>1, <2>4, RisesAdvance DEF Open
  <2> QED BY <2>2, <2>3, <2>4
<1> QED BY <1>1, Invariant, SoloInvariant, PTL DEF Spec, RowsOnlyAdvance

\* The program implements the ladder: every step of a lone process is a move of
\* CaseLifecycle or none.
THEOREM LifecycleImplemented == ASSUME Solo PROVE Spec => ClimbsTheLadder
<1> DEFINE Ladders == [c \in Cases |-> RungOf(cases[c])]
<1>1. Init => Lifecycle!Init
  <2> SUFFICES ASSUME Init, NEW c \in Cases PROVE RungOf(cases[c]) = Lifecycle!Bottom
    BY DEF Lifecycle!Init
  <2>1. PICK f : cases[c] = NewCase(c, f)
    BY DEF Init
  <2>2. /\ cases[c].wait_completed = FALSE /\ cases[c].active_payment_link_id = NoLink
        /\ cases[c].reminder_count = 0 /\ cases[c].opted_out = FALSE
        /\ cases[c].status = "detected"
    BY <2>1 DEF NewCase
  <2>3. LinkSeen(cases[c].active_payment_link_id) = "none" /\ cases[c].status \notin Terminal
    BY <2>2 DEF LinkSeen, Terminal
  <2> QED BY <2>2, <2>3, Zenon DEF RungOf, Lifecycle!Bottom
<1>2. IInv /\ SoloInv /\ [Next]_vars => [Lifecycle!Next]_Ladders
  <2> SUFFICES ASSUME IInv, SoloInv, [Next]_vars
               PROVE  Lifecycle!Next \/ UNCHANGED Ladders
    OBVIOUS
  <2>1. UNCHANGED cases \/ \E c \in Cases : Open(cases[c]) /\ Raises(c)
    BY SoloKept DEF Rows
  <2>2. CASE UNCHANGED cases
    BY <2>2
  <2>3. ASSUME NEW c \in Cases, Raises(c)
        PROVE  Lifecycle!Next \/ UNCHANGED Ladders
    <3>1. CASE cases'[c] = cases[c]
      <4>1. \A x \in Cases : cases'[x] = cases[x]
        BY <2>3, <3>1 DEF Raises
      <4>2. \A x \in Cases : RungOf(cases'[x]) = RungOf(cases[x])
        BY <4>1
      <4> QED BY <4>2
    <3>2. CASE Rises(RungOf(cases[c]), RungOf(cases'[c]))
      <4> DEFINE r == RungOf(cases[c])
                 s == RungOf(cases'[c])
      <4>1. \A x \in Cases \ {c} : RungOf(cases'[x]) = RungOf(cases[x])
        BY <2>3 DEF Raises
      <4>2. Ladders' = [Ladders EXCEPT ![c] = s]
        BY <4>1
      <4>3. Rises(r, s)
        BY <3>2
      <4>4. Ladders[c] = r
        OBVIOUS
      <4> HIDE DEF r, s, Ladders
      <4>5. Lifecycle!Move(c, r)
        BY <4>2, <4>3
           DEF Rises, Ladders, Lifecycle!Move, Lifecycle!Climb, Lifecycle!Wait, Lifecycle!Link,
               Lifecycle!Remind, Lifecycle!OptOut, Lifecycle!Recover, Lifecycle!Escalate,
               Lifecycle!Exhaust, Lifecycle!Stop
      <4> QED BY <4>4, <4>5 DEF Ladders, Lifecycle!Next
    <3> QED BY <2>3, <3>1, <3>2 DEF Raises
  <2> QED BY <2>1, <2>2, <2>3
<1> QED BY <1>1, <1>2, Invariant, SoloInvariant, PTL
        DEF Spec, ClimbsTheLadder, Lifecycle!Spec

\* Razorpay is asked for a link or a reminder in a turn whose verdict, on the
\* trail, was to do so.
LEMMA LicensedCall ==
  ASSUME NEW F, Held(F), TrailInv, SoloInv, NEW p \in Procs,
         pc[p] = "dispatch", ~job[p].kill,
         Calls(action[p], cur[p]) \in {"create", "notify"}
  PROVE  /\ Open(cases[cur[p].case_id]) /\ ~cases[cur[p].case_id].opted_out
         /\ \E e \in EventsOf(cur[p].case_id) :
              /\ e.event_type = "policy_verdict"
              /\ e.what \in {"issue_link", "remind"}
              /\ e.by = job[p].by /\ e.step = step[p]
<1> USE LocalTypes
<1>1. Open(cur[p]) /\ Row(p) = cur[p]
  BY DEF TurnOK, SoloInv, SoloOK, InStep
<1>2. PICK d \in Diagnoses(cur[p].failure) : action[p] = Decide(cur[p], d, job[p].kill)
  BY DEF TurnOK
<1>3. action[p].action_type \in {"issue_link", "remind"}
  BY DEF Calls
<1>4. action[p].rationale \in {"issue_link", "remind"} /\ ~cur[p].opted_out
  BY <1>1, <1>2, <1>3, DecideCases DEF Verdict, FromPolicy
<1>5. PICK e : e \in ThisTurn(p, "policy_verdict", action[p].rationale)
  BY DEF TrailInv, TrailOK, VerdictOK
<1>6. /\ e \in EventsOf(cur[p].case_id) /\ e.event_type = "policy_verdict"
      /\ e.what \in {"issue_link", "remind"} /\ e.by = job[p].by /\ e.step = step[p]
  BY <1>4, <1>5 DEF ThisTurn
<1> QED BY <1>1, <1>4, <1>6 DEF Row

\* No contact without a licence: an open row, no opt-out, no kill switch, and
\* the audited verdict of the turn.
THEOREM ContactsAreLicensed == ASSUME Solo PROVE Spec => ContactIsLicensed
<1> DEFINE Licensed(c) ==
             /\ cases[c].status \notin Terminal /\ ~cases[c].opted_out
             /\ \E p \in Procs :
                  /\ cur[p].case_id = c /\ ~job[p].kill
                  /\ \E e \in EventsOf(c) :
                       /\ e.event_type = "policy_verdict"
                       /\ e.what \in {"issue_link", "remind"}
                       /\ e.by = job[p].by /\ e.step = step[p]
<1>1. IInv /\ TrailInv /\ SoloInv /\ [Next]_vars =>
        [\A c \in Cases :
           (created'[c] # created[c] \/ notified'[c] # notified[c]) => Licensed(c)]_vars
  <2> SUFFICES ASSUME IInv, TrailInv, SoloInv, [Next]_vars, NEW c \in Cases,
                      created'[c] # created[c] \/ notified'[c] # notified[c]
               PROVE  Licensed(c)
    OBVIOUS
  <2>0. \E F : Held(F)
    BY DEF IInv
  <2>1. ~UNCHANGED razorpayVars
    BY DEF razorpayVars
  <2>2. PICK p \in Procs : ExecuteCreate(p) \/ ExecuteNotify(p)
    BY <2>1 DEF Next, Done, vars, StartRun, Crash, Step, SkipTerminal, OpenCase, LogDetected,
                Return, Turn, EndOfTurn, Diagnose, LogVerdict, LogAttempt, RefuseKilled,
                ExecuteLocally, ExecuteInjected, Save, LogResult, StopKilled, ParkFailed,
                AskCustomer, NoCustomer, SaveAnswer, CloseCase, NextTurn, ParkExpired
  <2>3. /\ pc[p] = "dispatch" /\ ~job[p].kill
        /\ Calls(action[p], cur[p]) \in {"create", "notify"}
    BY <2>2 DEF ExecuteCreate, ExecuteNotify, Go
  <2>4. cur[p].case_id = c
    <3>1. PICK reply : \/ CreatePaymentLink(cur[p].case_id, Reference(p), reply)
                       \/ NotifyPaymentLink(cur[p].case_id, RemindedLink(action[p], cur[p]),
                                            reply)
      BY <2>2 DEF ExecuteCreate, ExecuteNotify
    <3>2. cur[p].case_id \in Cases /\ Reference(p) \in Nat
      BY <2>0, <2>3, LocalTypes DEF CurOK, Reference
    <3>3. RazorpayTypeOK
      BY <2>0 DEF Held, TypeOK
    <3>4. \A x \in Cases, n \in Nat : \A link :
            CreatePaymentLink(x, n, reply) \/ NotifyPaymentLink(x, link, reply) =>
              \A y \in Cases \ {x} : created'[y] = created[y] /\ notified'[y] = notified[y]
      BY <3>3, ServiceFacts
    <3>5. \A y \in Cases \ {cur[p].case_id} :
            created'[y] = created[y] /\ notified'[y] = notified[y]
      BY <3>1, <3>2, <3>4, Zenon
    <3> QED BY <3>5
  <2> QED BY <2>0, <2>3, <2>4, LicensedCall DEF Open
<1> QED BY <1>1, Invariant, TrailInvariant, SoloInvariant, PTL DEF Spec, ContactIsLicensed
=============================================================================
