---------------------------- MODULE TrailProofs -----------------------------
(***************************************************************************)
(* Proofs that rows and trail stay in step whatever processes overlap: the *)
(* invariant TrailInv of RunnerInductive, and the properties it implies.   *)
(***************************************************************************)
EXTENDS RunnerProofs

-----------------------------------------------------------------------------
(* The trail only grows, and what it says of a copy it goes on saying.      *)

\* A copy that a trail justifies is justified by every longer trail.
LEMMA JustifiedGrows ==
  ASSUME NEW case, NEW trail, NEW longer, trail \subseteq longer, Justified(case, trail)
  PROVE  Justified(case, longer)
BY DEF Justified

\* An open copy needs no justification.
LEMMA OpenJustified ==
  ASSUME NEW case, Open(case), NEW trail
  PROVE  Justified(case, trail)
BY DEF Justified, Open, Terminal

\* An open copy is justified in an end by a verdict that is about to be, or is,
\* on the trail.
LEMMA VerdictJustifies ==
  ASSUME NEW case, NEW trail, NEW e \in trail, e.case_id = case.case_id,
         e.event_type = "policy_verdict", e.what \in Rationale,
         case.status # "recovered",
         case.status = "escalated" => e.what \in Grounds(case),
         case.status = "stopped" => e.what \in StopRationales,
         case.status = "exhausted" => e.what = "exhausted"
  PROVE  Justified(case, trail)
<1>1. e.what \in {f.what : f \in {g \in trail : /\ g.case_id = case.case_id
                                                /\ g.event_type = "policy_verdict"}}
  OBVIOUS
<1> QED BY <1>1 DEF Justified

\* The grounds for a human are the same for every copy of a failure.
LEMMA GroundsFacts ==
  /\ \A case : Grounds(case) \subseteq EscalationRationales
  /\ \A case, copy : case.failure = copy.failure => Grounds(case) = Grounds(copy)
BY DEF Grounds, EscalationRationales

\* What explains the end of a case goes on explaining it.
LEMMA ExplainedGrows ==
  ASSUME NEW e, Explained(e), audit \subseteq audit'
  PROVE  Explained(e)'
BY DEF Explained, SameTurn, EventsOf

\* A step that writes one row keeps the closings explained, if it is none or is
\* explained itself.
LEMMA ClosingsKept ==
  ASSUME TrailExplainsOutcome, NEW e, Append(e),
         e.event_type = "case_terminal" => Explained(e)'
  PROVE  TrailExplainsOutcome'
<1>1. audit' = audit \cup {e} /\ audit \subseteq audit'
  BY DEF Append
<1> SUFFICES ASSUME NEW f \in audit', f.event_type = "case_terminal"
             PROVE  Explained(f)'
  BY DEF TrailExplainsOutcome
<1>2. CASE f = e
  BY <1>2
<1>3. CASE f \in audit
  <2>1. Explained(f)
    BY <1>3 DEF TrailExplainsOutcome
  <2> QED BY <1>1, <2>1, ExplainedGrows
<1> QED BY <1>1, <1>2, <1>3

\* A process that does not move keeps its part, whatever the others write.
LEMMA OthersTrail ==
  ASSUME NEW q \in Procs, TrailOK(q), LocalKept(q), audit \subseteq audit'
  PROVE  TrailOK(q)'
<1>1. (pc[q] # "idle" => SnapBacked(q))'
  BY JustifiedGrows DEF TrailOK, SnapBacked, LocalKept, Backed
<1>2. (pc[q] \notin {"idle", "next"} => Backed(cur[q]))'
  BY JustifiedGrows DEF TrailOK, LocalKept, Backed
<1>3. \A type, what : ThisTurn(q, type, what) \subseteq ThisTurn(q, type, what)'
  BY DEF ThisTurn, EventsOf, LocalKept
<1>4. VerdictOK(q)' /\ ResultOK(q)'
  BY <1>3 DEF TrailOK, VerdictOK, ResultOK, LocalKept
<1> QED BY <1>1, <1>2, <1>4 DEF TrailOK, LocalKept

\* The snapshot of a command stays backed while it is not taken again.
LEMMA SnapStays ==
  ASSUME NEW p \in Procs, TrailOK(p), pc[p] # "idle", snap'[p] = snap[p],
         audit \subseteq audit'
  PROVE  SnapBacked(p)'
BY JustifiedGrows DEF TrailOK, SnapBacked, Backed

\* What backs a row goes on backing it.
LEMMA RowsStayBacked ==
  ASSUME RowsBacked, audit \subseteq audit', UNCHANGED cases
  PROVE  RowsBacked'
BY JustifiedGrows DEF RowsBacked, Rows, Backed

\* A backed copy may be written.
LEMMA UpsertBacked ==
  ASSUME RowsBacked, audit \subseteq audit', NEW case, Justified(case, audit'), Upsert(case),
         cases \in [Cases -> Case \cup {NoCase}]
  PROVE  RowsBacked'
<1> SUFFICES ASSUME NEW c \in Cases, cases'[c] # NoCase
             PROVE  Justified(cases'[c], audit')
  BY DEF RowsBacked, Rows, Backed
<1>1. cases'[c] = case \/ cases'[c] = cases[c]
  BY DEF Upsert
<1> QED BY <1>1, JustifiedGrows DEF RowsBacked, Rows, Backed

\* The step of one process keeps the invariant if it keeps the rows backed, the
\* closings explained and its own part.
LEMMA TrailAssemble ==
  ASSUME TrailInv, NEW p \in Procs, audit \subseteq audit',
         UNCHANGED cases \/ RowsBacked',
         TrailExplainsOutcome', TrailOK(p)',
         \A q \in Procs \ {p} : LocalKept(q)
  PROVE  TrailInv'
<1>1. RowsBacked'
  BY RowsStayBacked DEF TrailInv
<1>2. \A q \in Procs \ {p} : TrailOK(q)'
  BY OthersTrail DEF TrailInv
<1> QED BY <1>1, <1>2 DEF TrailInv

\* A step that writes one audit row other than a closing, or none, explains
\* what was explained.
LEMMA OneRow ==
  ASSUME TrailInv,
         UNCHANGED audit \/ \E e : Append(e) /\ e.event_type # "case_terminal"
  PROVE  audit \subseteq audit' /\ TrailExplainsOutcome'
<1>1. CASE UNCHANGED audit
  BY <1>1, ExplainedGrows DEF TrailInv, TrailExplainsOutcome
<1>2. CASE \E e : Append(e) /\ e.event_type # "case_terminal"
  BY <1>2, ClosingsKept DEF TrailInv, Append
<1> QED BY <1>1, <1>2

-----------------------------------------------------------------------------
(* The steps of one process.                                                *)

\* Taking the snapshot, opening a case, and what moves the process between cases.
LEMMA TrailBatch ==
  ASSUME NEW F, Held(F), TrailInv, NEW p \in Procs,
         \/ StartRun(p) \/ SkipTerminal(p) \/ OpenCase(p) \/ LogDetected(p)
         \/ Return(p) \/ Crash(p)
  PROVE  TrailInv'
<1> USE LocalTypes DEF runVars, caseVars, storeVars
<1>1. \A q \in Procs \ {p} : LocalKept(q)
  BY DEF LocalKept, Held, TypeOK, StartRun, SkipTerminal, OpenCase,
         LogDetected, Return, Crash, Go
<1>2. UNCHANGED cases
  BY DEF StartRun, SkipTerminal, OpenCase, LogDetected, Return, Crash
<1>3. UNCHANGED audit \/ \E e : Append(e) /\ e.event_type # "case_terminal"
  <2>1. CASE SkipTerminal(p)
    BY <2>1 DEF SkipTerminal, Event
  <2>2. CASE LogDetected(p)
    BY <2>2 DEF LogDetected, Event
  <2> QED BY <2>1, <2>2 DEF StartRun, OpenCase, Return, Crash
<1>4. audit \subseteq audit' /\ TrailExplainsOutcome'
  BY <1>3, OneRow
<1>5. CASE StartRun(p)
  <2>1. pc'[p] = "next" /\ snap'[p] = cases
    BY <1>5 DEF StartRun, Go, Held, TypeOK
  <2>2. SnapBacked(p)'
    BY <1>4, <2>1, JustifiedGrows DEF TrailInv, RowsBacked, SnapBacked, Rows, Backed
  <2>3. TrailOK(p)'
    BY <2>1, <2>2 DEF TrailOK, VerdictOK, ResultOK
  <2> QED BY <1>1, <1>2, <1>4, <2>3, TrailAssemble
<1>6. CASE OpenCase(p)
  <2>0. TrailOK(p) /\ pc[p] # "idle"
    BY <1>6 DEF TrailInv, OpenCase, Go
  <2>1. PICK c \in Cases : /\ cur' = [cur EXCEPT ![p] = snap[p][c]]
                          /\ snap[p][c] # NoCase
    BY <1>6 DEF OpenCase, IsNext, Held, Selected
  <2>2. snap' = snap /\ cur'[p] = snap[p][c] /\ pc'[p] \in {"detect", "diagnose"}
    BY <1>6, <2>1 DEF OpenCase, Go, AfterOpen, Held, TypeOK
  <2>3. SnapBacked(p)'
    BY <1>4, <2>0, <2>2, SnapStays
  <2>4. Backed(cur[p])'
    BY <2>1, <2>2, <2>3 DEF SnapBacked, Backed
  <2>5. TrailOK(p)'
    BY <2>2, <2>3, <2>4 DEF TrailOK, VerdictOK, ResultOK
  <2> QED BY <1>1, <1>2, <1>4, <2>5, TrailAssemble
<1>7. CASE SkipTerminal(p) \/ LogDetected(p) \/ Return(p) \/ Crash(p)
  <2>1. snap' = snap /\ cur' = cur
    BY <1>7 DEF SkipTerminal, LogDetected, Return, Crash
  <2>2. \/ pc'[p] \in {"idle", "next"}
        \/ pc[p] = "detect" /\ pc'[p] = "diagnose"
    BY <1>7 DEF SkipTerminal, LogDetected, Return, Crash, Go
  <2>3. SnapBacked(p)'
    <3>1. pc[p] # "idle"
      BY <1>7 DEF SkipTerminal, LogDetected, Return, Crash, Go
    <3> QED BY <1>4, <2>1, <3>1, SnapStays DEF TrailInv
  <2>4. pc'[p] = "diagnose" => Backed(cur[p])'
    BY <1>4, <2>1, <2>2, JustifiedGrows DEF TrailInv, TrailOK, Backed
  <2>5. TrailOK(p)'
    BY <2>2, <2>3, <2>4 DEF TrailOK, VerdictOK, ResultOK
  <2> QED BY <1>1, <1>2, <1>4, <2>5, TrailAssemble
<1> QED BY <1>5, <1>6, <1>7

\* Within a turn: what moves the process on without touching a row.
LEMMA TrailTurn ==
  ASSUME NEW F, Held(F), TrailInv, NEW p \in Procs,
         \/ Diagnose(p) \/ LogVerdict(p) \/ LogAttempt(p) \/ LogResult(p)
         \/ NoCustomer(p) \/ NextTurn(p)
  PROVE  TrailInv'
<1> USE LocalTypes DEF runVars, caseVars, storeVars
<1>1. \A q \in Procs \ {p} : LocalKept(q)
  BY DEF LocalKept, Held, TypeOK, Diagnose, LogVerdict, LogAttempt,
         LogResult, NoCustomer, NextTurn, Go
<1>2. /\ UNCHANGED <<cases, snap, cur, job, result>>
      /\ ~Diagnose(p) => UNCHANGED <<action, step>>
  BY DEF Diagnose, LogVerdict, LogAttempt, LogResult, NoCustomer, NextTurn
<1>3. UNCHANGED audit \/ \E e : Append(e) /\ e.event_type # "case_terminal"
  <2>1. \A c, type, by, turn, what, link :
          Event(c, type, by, turn, what, link).event_type = type
    BY DEF Event
  <2>2. CASE Diagnose(p)
    <3>1. PICK d \in Diagnoses(cur[p].failure) :
            Append(Event(cur[p].case_id, "diagnosis_completed", job[p].by, step[p] + 1,
                         d.cause, NoLink))
      BY <2>2 DEF Diagnose
    <3> QED BY <2>1, <3>1
  <2>3. CASE LogVerdict(p) \/ LogAttempt(p) \/ LogResult(p)
    <3>1. PICK type \in {"policy_verdict", "action_attempted", "action_result"} :
            \E what, link :
              Append(Event(cur[p].case_id, type, job[p].by, step[p], what, link))
      BY <2>3 DEF LogVerdict, LogAttempt, LogResult, Log
    <3> QED BY <2>1, <3>1
  <2> QED BY <2>2, <2>3 DEF NoCustomer, NextTurn
<1>4. audit \subseteq audit' /\ TrailExplainsOutcome'
  BY <1>3, OneRow
<1>5. SnapBacked(p)' /\ Backed(cur[p])'
  <2>1. pc[p] \notin {"idle", "next"}
    BY DEF Diagnose, LogVerdict, LogAttempt, LogResult, NoCustomer, NextTurn, Go
  <2>2. SnapBacked(p)'
    BY <1>2, <1>4, <2>1, SnapStays DEF TrailInv
  <2> QED BY <1>2, <1>4, <2>1, <2>2, JustifiedGrows DEF TrailInv, TrailOK, Backed
<1>7. UNCHANGED <<action, step>> =>
        \A type, what : ThisTurn(p, type, what) \subseteq ThisTurn(p, type, what)'
  BY <1>2, <1>4 DEF ThisTurn, EventsOf
<1>8. TrailOK(p)
  BY DEF TrailInv
<1>9. CASE Diagnose(p)
  <2>1. pc'[p] = "verdict" /\ step'[p] = step[p] + 1
    BY <1>9 DEF Diagnose, Go, Held, TypeOK
  <2>2. TrailOK(p)'
    BY <1>5, <2>1 DEF TrailOK, VerdictOK, ResultOK
  <2> QED BY <1>1, <1>2, <1>4, <2>2, TrailAssemble
<1>10. CASE LogVerdict(p)
  <2>1. pc[p] = "verdict" /\ pc'[p] = "attempt" /\ UNCHANGED <<action, step>>
    BY <1>10 DEF LogVerdict, Go
  <2> DEFINE e == Event(cur[p].case_id, "policy_verdict", job[p].by, step[p],
                        action[p].rationale,
                        OrElse(action[p].payment_link_id, cur[p].active_payment_link_id))
  <2>2. e \in audit'
    BY <1>10 DEF LogVerdict, Log, Append
  <2>3. e \in ThisTurn(p, "policy_verdict", action[p].rationale)'
    BY <1>2, <2>1, <2>2 DEF ThisTurn, EventsOf, Event
  <2> HIDE DEF e
  <2>4. TrailOK(p)'
    BY <1>5, <1>8, <2>1, <2>3 DEF TrailOK, VerdictOK, ResultOK
  <2> QED BY <1>1, <1>2, <1>4, <2>4, TrailAssemble
<1>11. CASE LogResult(p)
  <2>1. pc[p] = "result" /\ pc'[p] = "outcome" /\ UNCHANGED <<action, step>>
    BY <1>11 DEF LogResult, Go
  <2> DEFINE e == Event(cur[p].case_id, "action_result", job[p].by, step[p],
                        result[p].error_type, result[p].payment_link_id)
  <2>2. e \in audit'
    BY <1>11 DEF LogResult, Log, Append
  <2>3. e \in ThisTurn(p, "action_result", result[p].error_type)'
    BY <1>2, <2>1, <2>2 DEF ThisTurn, EventsOf, Event
  <2> HIDE DEF e
  <2>4. TrailOK(p)'
    BY <1>2, <1>5, <1>7, <1>8, <2>1, <2>3 DEF TrailOK, VerdictOK, ResultOK
  <2> QED BY <1>1, <1>2, <1>4, <2>4, TrailAssemble
<1>12. CASE LogAttempt(p) \/ NoCustomer(p) \/ NextTurn(p)
  <2>1. /\ UNCHANGED <<action, step>>
        /\ \/ pc[p] = "attempt" /\ pc'[p] = "dispatch"
           \/ pc[p] = "outcome" /\ pc'[p] = "close"
           \/ pc[p] = "close" /\ pc'[p] = "diagnose"
    BY <1>12 DEF LogAttempt, NoCustomer, NextTurn, Go
  <2>2. TrailOK(p)'
    BY <1>2, <1>5, <1>7, <1>8, <2>1 DEF TrailOK, VerdictOK, ResultOK
  <2> QED BY <1>1, <1>2, <1>4, <2>2, TrailAssemble
<1> QED BY <1>9, <1>10, <1>11, <1>12

\* Writing the case in memory to its row, as it is or as answered.
LEMMA TrailSaves ==
  ASSUME NEW F, Held(F), TrailInv, NEW p \in Procs, Save(p) \/ SaveAnswer(p)
  PROVE  TrailInv'
<1> USE LocalTypes DEF runVars, caseVars
<1>1. /\ \/ pc[p] = "save" /\ pc'[p] = "result"
         \/ pc[p] = "apply" /\ pc'[p] = "close"
      /\ Upsert(cur[p])
      /\ UNCHANGED <<audit, snap, cur, job, result, action, step>>
  BY DEF Save, SaveAnswer, Go
<1>2. \A q \in Procs \ {p} : LocalKept(q)
  BY DEF LocalKept, Held, TypeOK, Save, SaveAnswer, Go
<1>3. audit \subseteq audit' /\ TrailExplainsOutcome'
  BY <1>1, OneRow
<1>4. TrailOK(p)
  BY DEF TrailInv
<1>5. Justified(cur[p], audit')
  BY <1>1, <1>4 DEF TrailOK, Backed
<1>8. RowsBacked'
  BY <1>1, <1>3, <1>5, UpsertBacked DEF TrailInv
<1>9. \A type, what : ThisTurn(p, type, what) \subseteq ThisTurn(p, type, what)'
  BY <1>1 DEF ThisTurn, EventsOf
<1>10. SnapBacked(p)' /\ Backed(cur[p])'
  BY <1>1, <1>3, <1>4, <1>5, SnapStays DEF Backed
<1>11. TrailOK(p)'
  BY <1>1, <1>4, <1>9, <1>10 DEF TrailOK, VerdictOK, ResultOK
<1> QED BY <1>2, <1>3, <1>8, <1>11, TrailAssemble

\* The executor hands back the case it was given.
LEMMA DispatchId ==
  ASSUME NEW case \in Case, NEW a, a.action_type \in ActionType, NEW reply \in Reply
  PROVE  LET done == Dispatch(a, case, reply)
         IN done.case.case_id = case.case_id /\ done.case.failure = case.failure
<1>1. reply.id \in LinkId
  BY DEF Reply
<1>2. \/ Dispatch(a, case, reply).case = case
      \/ Dispatch(a, case, reply).case = Linked(case, reply.id)
      \/ Dispatch(a, case, reply).case = [case EXCEPT !.reminder_count = @ + 1]
      \/ Dispatch(a, case, reply).case =
           [case EXCEPT !.status = "waiting", !.wait_completed = TRUE]
      \/ \E s \in CaseStatus : Dispatch(a, case, reply).case = [case EXCEPT !.status = s]
  <2>1. CASE a.action_type = "issue_link"
    BY <2>1 DEF Dispatch, IssueLink, Executed
  <2>2. CASE a.action_type = "remind"
    BY <2>2 DEF Dispatch, Remind, Executed
  <2>3. CASE a.action_type = "wait"
    BY <2>3 DEF Dispatch, Wait, Executed
  <2>4. CASE a.action_type = "escalate"
    BY <2>4 DEF Dispatch, Escalate, Executed, CaseStatus
  <2>5. CASE a.action_type = "stop"
    <3> DEFINE s == IF a.rationale = "exhausted" THEN "exhausted" ELSE "stopped"
    <3>1. Dispatch(a, case, reply).case = [case EXCEPT !.status = s]
      BY <2>5 DEF Dispatch, Stop, Executed
    <3>2. s \in CaseStatus
      BY DEF CaseStatus
    <3> QED BY <3>1, <3>2
  <2> QED BY <2>1, <2>2, <2>3, <2>4, <2>5 DEF ActionType
<1>3. ASSUME NEW s \in CaseStatus
      PROVE  LET new == [case EXCEPT !.status = s]
             IN new.case_id = case.case_id /\ new.failure = case.failure
  BY StatusUpdate
<1>4. /\ Linked(case, reply.id).case_id = case.case_id
      /\ Linked(case, reply.id).failure = case.failure
  BY <1>1, LinkUpdate
<1>5. \A new \in {[case EXCEPT !.reminder_count = @ + 1],
                   [case EXCEPT !.status = "waiting", !.wait_completed = TRUE]} :
        new.case_id = case.case_id /\ new.failure = case.failure
  BY ReminderUpdate, WaitUpdate
<1> QED BY <1>2, <1>3, <1>4, <1>5

\* What the executor makes of policy's decision on an open case says no more
\* than the rationale of the decision.
LEMMA DispatchRationale ==
  ASSUME NEW case \in Case, Shape(case), Open(case), NEW d, NEW reply \in Reply,
         NEW k \in BOOLEAN, ~k, NEW a, a = Decide(case, d, k),
         NEW done, done = Dispatch(a, case, reply)
  PROVE  /\ done.case.status # "recovered"
         /\ done.case.status = "escalated" => a.rationale \in Grounds(case)
         /\ done.case.status = "stopped" => a.rationale \in StopRationales
         /\ done.case.status = "exhausted" => a.rationale = "exhausted"
         /\ ~done.result.ok => done.result.error_type \in {"no_link", "razorpay"}
         /\ done.result.error_type # "kill_switch"
<1>1. /\ case.failure.amount_paise \in Nat /\ case.status \in CaseStatus
      /\ case.opted_out \in BOOLEAN /\ case.active_payment_link_id \in LinkId
  BY DEF Case, Failure
<1>2. case.status \notin Terminal
  BY DEF Open
<1>3. \A s \in CaseStatus : [case EXCEPT !.status = s].status = s
  BY StatusUpdate
<1>4. \A link, error : /\ Ok(link).ok /\ Ok(link).error_type = "none"
                       /\ ~Failed(link, error).ok /\ Failed(link, error).error_type = error
  BY DEF Ok, Failed
<1> DEFINE Goal == /\ done.case.status # "recovered"
                   /\ done.case.status = "escalated" => a.rationale \in Grounds(case)
                   /\ done.case.status = "stopped" => a.rationale \in StopRationales
                   /\ done.case.status = "exhausted" => a.rationale = "exhausted"
                   /\ ~done.result.ok => done.result.error_type \in {"no_link", "razorpay"}
                   /\ done.result.error_type # "kill_switch"
<1>5. ASSUME a = Verdict(case, "stop", "opt_out") \/ a = Verdict(case, "stop", "exhausted")
      PROVE  Goal
  <2>1. /\ a.action_type = "stop" /\ a.rationale \in {"opt_out", "exhausted"}
        /\ done = Stop(a, case)
    BY <1>5 DEF Dispatch, Verdict, FromPolicy
  <2> DEFINE s == IF a.rationale = "exhausted" THEN "exhausted" ELSE "stopped"
  <2>2. done.case = [case EXCEPT !.status = s] /\ done.result = Ok(NoLink)
    BY <2>1 DEF Stop, Executed
  <2>3. s \in CaseStatus
    BY DEF CaseStatus
  <2>4. done.case.status = s
    BY <1>3, <2>2, <2>3
  <2> QED BY <1>4, <2>1, <2>2, <2>4 DEF StopRationales
<1>6. ASSUME NEW r \in Grounds(case), a = Verdict(case, "escalate", r) PROVE Goal
  <2>1. /\ done.case = [case EXCEPT !.status = "escalated"] /\ done.result = Ok(NoLink)
        /\ a.rationale = r
    BY <1>6 DEF Dispatch, Verdict, FromPolicy, Escalate, Executed
  <2>2. done.case.status = "escalated"
    BY <1>3, <2>1 DEF CaseStatus
  <2> QED BY <1>4, <2>1, <2>2
<1>7. ASSUME a = Verdict(case, "wait", "transient_rail") PROVE Goal
  <2>1. done.case = [case EXCEPT !.status = "waiting", !.wait_completed = TRUE]
        /\ done.result = Ok(NoLink)
    BY <1>7 DEF Dispatch, Verdict, FromPolicy, Wait, Executed
  <2>2. done.case.status = "waiting"
    BY <2>1, WaitUpdate
  <2> QED BY <1>4, <2>1, <2>2
<1>8. ASSUME MayIssue(case),
             a = FromPolicy(case, "issue_link", "issue_link",
                            case.failure.amount_paise, NoLink)
      PROVE  Goal
  <2>1. done = IF reply.ok THEN Executed(Linked(case, reply.id), Ok(reply.id))
               ELSE Executed(case, Failed(NoLink, "razorpay"))
    BY <1>1, <1>8 DEF Dispatch, FromPolicy, IssueLink, Amount, HasLink, NoAmount, MayIssue
  <2>2. reply.ok \in BOOLEAN /\ reply.id \in LinkId
    BY DEF Reply
  <2>3. CASE reply.ok
    <3>1. done.case = Linked(case, reply.id) /\ done.result = Ok(reply.id)
      BY <2>1, <2>3 DEF Executed
    <3>2. done.case.status = "diagnosed"
      BY <2>2, <3>1, LinkUpdate
    <3> QED BY <1>4, <3>1, <3>2
  <2>4. CASE ~reply.ok
    <3>1. done.case = case /\ done.result = Failed(NoLink, "razorpay")
      BY <2>1, <2>4 DEF Executed
    <3> QED BY <1>2, <1>4, <3>1 DEF Terminal
  <2> QED BY <2>2, <2>3, <2>4
<1>9. ASSUME a = FromPolicy(case, "remind", "remind", NoAmount,
                            case.active_payment_link_id)
      PROVE  Goal
  <2>1. done = Remind(a, case, reply)
    BY <1>9 DEF Dispatch, FromPolicy
  <2>2. \/ done.case = case
        \/ done.case = [case EXCEPT !.reminder_count = @ + 1]
    BY <2>1 DEF Remind, Executed
  <2>3. done.case.status = case.status
    BY <2>2, ReminderUpdate
  <2>4. \E link : done.result \in {Ok(link), Failed(link, "no_link"), Failed(link, "razorpay")}
    BY <2>1 DEF Remind, Executed
  <2> QED BY <1>2, <1>4, <2>3, <2>4 DEF Terminal
<1> HIDE DEF Goal
<1>10. Goal
  BY <1>1, <1>5, <1>6, <1>7, <1>8, <1>9, DecideCases
<1> QED BY <1>10 DEF Goal

\* The executor's part: the case it hands back is justified by the verdict that
\* is on the trail already.
LEMMA TrailExecuted ==
  ASSUME NEW F, Held(F), TrailInv, NEW p \in Procs, pc[p] = "dispatch", pc' = [pc EXCEPT ![p] = "save"],
         NEW new, cur' = [cur EXCEPT ![p] = new],
         NEW res, result' = [result EXCEPT ![p] = res],
         UNCHANGED <<cases, audit, job, snap, step, action>>,
         new.case_id = cur[p].case_id, new.status # "recovered",
         new.failure = cur[p].failure,
         new.status = "escalated" => action[p].rationale \in Grounds(cur[p]),
         new.status = "stopped" => action[p].rationale \in StopRationales,
         new.status = "exhausted" => action[p].rationale = "exhausted",
         ~res.ok => res.error_type \in {"kill_switch", "no_link", "razorpay"},
         res.error_type = "kill_switch" => action[p].rationale = "kill_switch"
  PROVE  TrailInv'
<1> USE LocalTypes
<1>1. \A q \in Procs \ {p} : LocalKept(q)
  BY DEF LocalKept, Held, TypeOK
<1>2. cur'[p] = new /\ result'[p] = res /\ pc'[p] = "save"
  BY DEF Held, TypeOK
<1>3. TrailOK(p) /\ TrailExplainsOutcome'
  BY OneRow DEF TrailInv
<1>4. PICK e \in audit : /\ e.case_id = cur[p].case_id /\ e.event_type = "policy_verdict"
                         /\ e.what = action[p].rationale
                         /\ e.by = job[p].by /\ e.step = step[p]
  BY <1>3 DEF TrailOK, VerdictOK, ThisTurn, EventsOf
<1>5. Grounds(new) = Grounds(cur[p]) /\ Justified(new, audit)
  BY <1>4, GroundsFacts, VerdictJustifies
<1>6. e \in ThisTurn(p, "policy_verdict", action[p].rationale)'
  BY <1>2, <1>4 DEF ThisTurn, EventsOf
<1>7. SnapBacked(p)' /\ Backed(cur[p])'
  BY <1>2, <1>3, <1>5, SnapStays DEF Backed
<1>8. TrailOK(p)'
  BY <1>2, <1>3, <1>5, <1>6, <1>7 DEF TrailOK, VerdictOK, ResultOK
<1> QED BY <1>1, <1>3, <1>8, TrailAssemble

\* Refused or carried out, with whatever reply.
LEMMA TrailExecution ==
  ASSUME NEW F, Held(F), TrailInv, NEW p \in Procs,
         RefuseKilled(p) \/ ExecuteLocally(p) \/ ExecuteInjected(p)
           \/ ExecuteCreate(p) \/ ExecuteNotify(p)
  PROVE  TrailInv'
<1> USE LocalTypes DEF runVars, storeVars
<1>1. /\ pc[p] = "dispatch" /\ pc' = [pc EXCEPT ![p] = "save"]
      /\ UNCHANGED <<cases, audit, job, snap, step, action>>
  BY DEF RefuseKilled, ExecuteLocally, ExecuteInjected, ExecuteCreate, ExecuteNotify, Go
<1>2. Shape(cur[p]) /\ Open(cur[p])
  BY <1>1 DEF CurOK, CopyOf, TurnOK
<1>3. PICK d \in Diagnoses(cur[p].failure) : action[p] = Decide(cur[p], d, job[p].kill)
  BY <1>1 DEF TurnOK
<1>4. CASE RefuseKilled(p)
  <2>1. /\ cur' = [cur EXCEPT ![p] = cur[p]]
        /\ result' = [result EXCEPT ![p] = Failed(NoLink, "kill_switch")]
    BY <1>4 DEF RefuseKilled, Held, TypeOK
  <2>2. action[p].rationale = "kill_switch"
    BY <1>3, <1>4 DEF RefuseKilled, Decide, Verdict, FromPolicy
  <2> QED BY <1>1, <1>2, <2>1, <2>2, TrailExecuted DEF Open, Terminal, Failed
<1>5. CASE \/ ExecuteLocally(p) \/ ExecuteInjected(p)
           \/ ExecuteCreate(p) \/ ExecuteNotify(p)
  <2>1. ~job[p].kill
    BY <1>5 DEF ExecuteLocally, ExecuteInjected, ExecuteCreate, ExecuteNotify
  <2>2. ClientError \in Reply /\ Served(DryLink) \in Reply
    BY DEF ClientError, Served, Reply, LinkId
  <2>3. PICK reply \in Reply : Execute(p, reply)
    BY <1>5, <2>2 DEF ExecuteLocally, ExecuteInjected, ExecuteCreate, ExecuteNotify
  <2> DEFINE done == Dispatch(action[p], cur[p], reply)
  <2>4. cur' = [cur EXCEPT ![p] = done.case] /\ result' = [result EXCEPT ![p] = done.result]
    BY <2>3 DEF Execute
  <2> HIDE DEF done
  <2>5. /\ done.case.status # "recovered"
        /\ done.case.status = "escalated" => action[p].rationale \in Grounds(cur[p])
        /\ done.case.status = "stopped" => action[p].rationale \in StopRationales
        /\ done.case.status = "exhausted" => action[p].rationale = "exhausted"
        /\ ~done.result.ok => done.result.error_type \in {"no_link", "razorpay"}
        /\ done.result.error_type # "kill_switch"
    BY <1>2, <1>3, <2>1, DispatchRationale DEF done
  <2>6. done.case.case_id = cur[p].case_id /\ done.case.failure = cur[p].failure
    BY DispatchId DEF done
  <2> QED BY <1>1, <2>4, <2>5, <2>6, TrailExecuted
<1> QED BY <1>4, <1>5

\* The kill switch stops a case whose verdict of this turn says so already.
LEMMA TrailStops ==
  ASSUME NEW F, Held(F), TrailInv, NEW p \in Procs, StopKilled(p)
  PROVE  TrailInv'
<1> USE LocalTypes DEF runVars
<1> DEFINE new == [cur[p] EXCEPT !.status = "stopped"]
<1>1. /\ pc[p] = "outcome" /\ pc' = [pc EXCEPT ![p] = "close"]
      /\ result[p].error_type = "kill_switch"
      /\ cur' = [cur EXCEPT ![p] = new]
      /\ Upsert(cur'[p])
      /\ UNCHANGED <<audit, snap, job, step, action, result>>
  BY DEF StopKilled, Go
<1>2. new.status = "stopped" /\ new.case_id = cur[p].case_id
  BY StatusUpdate DEF CaseStatus
<1> HIDE DEF new
<1>3. cur'[p] = new /\ pc'[p] = "close" /\ \A q \in Procs \ {p} : LocalKept(q)
  BY <1>1 DEF LocalKept, Held, TypeOK
<1>4. TrailOK(p)
  BY DEF TrailInv
<1>5. action[p].rationale = "kill_switch"
  BY <1>1, <1>4 DEF TrailOK, ResultOK
<1>6. PICK e \in audit : /\ e.case_id = cur[p].case_id /\ e.event_type = "policy_verdict"
                         /\ e.what = "kill_switch"
                         /\ e.by = job[p].by /\ e.step = step[p]
  BY <1>1, <1>4, <1>5 DEF TrailOK, VerdictOK, ThisTurn, EventsOf
<1>7. Justified(new, audit)
  BY <1>2, <1>6, VerdictJustifies DEF StopRationales, Rationale
<1>8. audit \subseteq audit' /\ TrailExplainsOutcome'
  BY <1>1, OneRow
<1>10. RowsBacked'
  BY <1>1, <1>3, <1>7, <1>8, UpsertBacked DEF TrailInv
<1>11. e \in ThisTurn(p, "policy_verdict", action[p].rationale)'
  BY <1>1, <1>2, <1>3, <1>5, <1>6 DEF ThisTurn, EventsOf
<1>12. SnapBacked(p)' /\ Backed(cur[p])'
  BY <1>1, <1>3, <1>4, <1>7, <1>8, SnapStays DEF Backed
<1>13. TrailOK(p)'
  BY <1>1, <1>2, <1>3, <1>4, <1>5, <1>11, <1>12
     DEF TrailOK, VerdictOK, ResultOK, StopRationales
<1> QED BY <1>3, <1>8, <1>10, <1>13, TrailAssemble

\* What an answer makes of a case: as before, or paid on a link.
LEMMA AnswerStatus ==
  ASSUME NEW case \in Case, NEW answer, NEW new, new = Answered(case, answer)
  PROVE  /\ new.case_id = case.case_id /\ new.failure = case.failure
         /\ \/ new.status = case.status
            \/ /\ new.status = "recovered"
               /\ answer.kind = "paid" /\ HasLink(answer.payment_link_id)
<1>1. CASE new = [case EXCEPT !.opted_out = TRUE]
  BY <1>1, OptOutUpdate
<1>2. CASE /\ new = [case EXCEPT !.status = "recovered"]
           /\ answer.kind = "paid" /\ HasLink(answer.payment_link_id)
  BY <1>2, StatusUpdate DEF CaseStatus
<1>3. CASE new = case
  BY <1>3
<1> QED BY <1>1, <1>2, <1>3 DEF Answered

\* The answer is on the trail before it is on any copy.
LEMMA TrailAsks ==
  ASSUME NEW F, Held(F), TrailInv, NEW p \in Procs, AskCustomer(p)
  PROVE  TrailInv'
<1> USE LocalTypes DEF runVars
<1> DEFINE answer == Respond(cur[p], action[p], truths[cur[p].case_id])
           new == Answered(cur[p], answer)
           e == Event(cur[p].case_id, "customer_response", job[p].by, step[p],
                      answer.kind, answer.payment_link_id)
<1>1. /\ pc[p] = "outcome" /\ Append(e)
      /\ cur' = [cur EXCEPT ![p] = new]
      /\ UNCHANGED <<cases, snap, job, step, action, result>>
  BY DEF AskCustomer, Log
<1>2. PICK to \in {"apply", "close"} : pc' = [pc EXCEPT ![p] = to]
  BY DEF AskCustomer
<1>3. /\ new.case_id = cur[p].case_id /\ Grounds(new) = Grounds(cur[p])
      /\ \/ new.status = cur[p].status
         \/ /\ new.status = "recovered"
            /\ answer.kind = "paid" /\ HasLink(answer.payment_link_id)
  BY AnswerStatus, GroundsFacts
<1>4. /\ e.case_id = cur[p].case_id /\ e.event_type = "customer_response"
      /\ e.by = job[p].by /\ e.step = step[p]
      /\ e.what = answer.kind /\ e.link = answer.payment_link_id
  BY DEF Event
<1> HIDE DEF answer, new, e
<1>5. cur'[p] = new /\ pc'[p] \in {"apply", "close"} /\ \A q \in Procs \ {p} : LocalKept(q)
  BY <1>1, <1>2 DEF LocalKept, Held, TypeOK
<1>6. TrailOK(p) /\ pc[p] # "idle"
  BY <1>1 DEF TrailInv
<1>7. audit \subseteq audit' /\ TrailExplainsOutcome' /\ e \in audit'
  BY <1>1, <1>4, OneRow DEF Append
<1>8. Justified(cur[p], audit')
  BY <1>1, <1>6, <1>7, JustifiedGrows DEF TrailOK, Backed
<1>9. \A type, what : ThisTurn(p, type, what) \subseteq ThisTurn(p, type, what)'
  BY <1>1, <1>3, <1>5, <1>7 DEF ThisTurn, EventsOf
<1>10. VerdictOK(p)
  BY <1>6 DEF TrailOK
<1>11. ThisTurn(p, "policy_verdict", action[p].rationale)' # {}
  BY <1>1, <1>9, <1>10 DEF VerdictOK
<1>12. CASE new.status = cur[p].status
  <2>1. Justified(new, audit')
    BY <1>3, <1>8, <1>12 DEF Justified
  <2>2. new.status = "recovered" =>
          \E f \in ThisTurn(p, "customer_response", "paid")' : HasLink(f.link)
    BY <1>1, <1>9, <1>10, <1>12 DEF VerdictOK
  <2>3. VerdictOK(p)'
    BY <1>1, <1>3, <1>5, <1>10, <1>11, <1>12, <2>2 DEF VerdictOK
  <2>4. TrailOK(p)'
    BY <1>1, <1>5, <1>6, <1>7, <2>1, <2>3, SnapStays DEF TrailOK, ResultOK, Backed
  <2> QED BY <1>1, <1>5, <1>7, <2>4, TrailAssemble
<1>13. CASE /\ new.status = "recovered"
            /\ answer.kind = "paid" /\ HasLink(answer.payment_link_id)
  <2>1. Justified(new, audit')
    <3>1. PICK v \in ThisTurn(p, "policy_verdict", action[p].rationale)' : TRUE
      BY <1>11
    <3>2. /\ v \in audit' /\ v.case_id = new.case_id /\ v.event_type = "policy_verdict"
          /\ v.what \in Rationale
      BY <1>1, <1>5, <3>1 DEF ThisTurn, EventsOf
    <3>3. v.what \in {f.what : f \in {g \in audit' : /\ g.case_id = new.case_id
                                                    /\ g.event_type = "policy_verdict"}}
      BY <3>2
    <3>4. e \in audit' /\ e.case_id = new.case_id
      BY <1>3, <1>4, <1>7
    <3> QED BY <1>4, <1>13, <3>2, <3>3, <3>4 DEF Justified
  <2>2. e \in ThisTurn(p, "customer_response", "paid")' /\ HasLink(e.link)
    BY <1>1, <1>3, <1>4, <1>5, <1>7, <1>13 DEF ThisTurn, EventsOf
  <2>3. VerdictOK(p)'
    BY <1>1, <1>5, <1>11, <1>13, <2>2 DEF VerdictOK
  <2>4. TrailOK(p)'
    BY <1>1, <1>5, <1>6, <1>7, <2>1, <2>3, SnapStays DEF TrailOK, ResultOK, Backed
  <2> QED BY <1>1, <1>5, <1>7, <2>4, TrailAssemble
<1> QED BY <1>3, <1>12, <1>13

\* A row of this turn is one of the turn of every row written now.
LEMMA TurnOfClosing ==
  ASSUME NEW p, NEW e, e.case_id = cur[p].case_id, e.by = job[p].by, e.step = step[p],
         NEW type, NEW whats, \E mark \in whats : ThisTurn(p, type, mark) # {},
         audit \subseteq audit'
  PROVE  SameTurn(e, type, whats)' # {}
BY DEF SameTurn, ThisTurn, EventsOf

\* The row that closes a case is explained by the turn it ends.
LEMMA TrailCloses ==
  ASSUME NEW F, Held(F), TrailInv, NEW p \in Procs, ParkFailed(p) \/ CloseCase(p) \/ ParkExpired(p)
  PROVE  TrailInv'
<1>1. /\ pc' = [pc EXCEPT ![p] = "next"]
      /\ UNCHANGED <<cases, snap, job, cur, step, action, result>>
  BY DEF ParkFailed, CloseCase, ParkExpired, Go, caseVars
<1>2. pc'[p] = "next" /\ \A q \in Procs \ {p} : LocalKept(q)
  BY <1>1 DEF LocalKept, Held, TypeOK
<1>3. TrailOK(p) /\ TrailExplainsOutcome
  BY DEF TrailInv
<1>4. \E e : Append(e) /\ (e.event_type = "case_terminal" => Explained(e)')
  <2>2. CASE ParkFailed(p)
    <3>0. PICK e : e = Event(cur[p].case_id, "case_terminal", job[p].by, step[p],
                             "waiting", NoLink)
      OBVIOUS
    <3>9. /\ e.case_id = cur[p].case_id /\ e.by = job[p].by /\ e.step = step[p]
          /\ e.what = "waiting"
      BY <3>0 DEF Event
    <3>1. Append(e) /\ pc[p] = "outcome" /\ audit \subseteq audit'
      BY <2>2, <3>0 DEF ParkFailed, Log, Append, Go
    <3>2. /\ result[p].error_type \in {"razorpay", "no_link"}
          /\ ThisTurn(p, "action_result", result[p].error_type) # {}
          /\ step[p] > 0
      BY <1>3, <2>2, <3>1 DEF ParkFailed, TrailOK, ResultOK
    <3>3. SameTurn(e, "action_result", {"razorpay", "no_link"})' # {}
      BY <3>1, <3>2, <3>9, TurnOfClosing
    <3> QED BY <1>3, <3>1, <3>2, <3>3, <3>9 DEF TrailOK, Explained
  <2>3. CASE CloseCase(p)
    <3>0. PICK e : e = Event(cur[p].case_id, "case_terminal", job[p].by, step[p],
                             OutcomeOf(cur[p]), NoLink)
      OBVIOUS
    <3>1. /\ Append(e) /\ pc[p] = "close" /\ audit \subseteq audit'
          /\ cur[p].status \in Terminal
      BY <2>3, <3>0 DEF CloseCase, Log, Append, Go
    <3>2. VerdictOK(p)
      BY <1>3 DEF TrailOK
    <3>3. ThisTurn(p, "policy_verdict", action[p].rationale) # {}
      BY <3>1, <3>2 DEF VerdictOK
    <3>4. /\ e.case_id = cur[p].case_id /\ e.by = job[p].by /\ e.step = step[p]
          /\ e.what = OutcomeOf(cur[p])
      BY <3>0 DEF Event
    <3>5. CASE cur[p].status = "recovered"
      <4>1. e.what = "recovered"
        BY <3>4, <3>5 DEF OutcomeOf, Terminal
      <4>2. PICK f \in ThisTurn(p, "customer_response", "paid") : HasLink(f.link)
        BY <3>1, <3>2, <3>5 DEF VerdictOK
      <4>3. f \in SameTurn(e, "customer_response", {"paid"})'
        BY <3>1, <3>4, <4>2 DEF SameTurn, ThisTurn, EventsOf
      <4> QED BY <3>1, <4>1, <4>2, <4>3 DEF Explained
    <3>6. CASE cur[p].status = "escalated"
      <4>1. e.what = "escalated"
        BY <3>4, <3>6 DEF OutcomeOf, Terminal
      <4>2. SameTurn(e, "policy_verdict", EscalationRationales)' # {}
        BY <3>1, <3>2, <3>3, <3>4, <3>6, TurnOfClosing, GroundsFacts DEF VerdictOK
      <4> QED BY <3>1, <4>1, <4>2 DEF Explained
    <3>7. CASE cur[p].status = "stopped"
      <4>1. e.what = "stopped_by_policy"
        BY <3>4, <3>7 DEF OutcomeOf, Terminal
      <4>2. SameTurn(e, "policy_verdict", StopRationales)' # {}
        BY <3>1, <3>2, <3>3, <3>4, <3>7, TurnOfClosing DEF VerdictOK
      <4> QED BY <3>1, <4>1, <4>2 DEF Explained
    <3>8. CASE cur[p].status = "exhausted"
      <4>1. e.what = "exhausted"
        BY <3>4, <3>8 DEF OutcomeOf, Terminal
      <4>2. SameTurn(e, "policy_verdict", {"exhausted"})' # {}
        BY <3>1, <3>2, <3>3, <3>4, <3>8, TurnOfClosing DEF VerdictOK
      <4> QED BY <3>1, <4>1, <4>2 DEF Explained
    <3> QED BY <3>1, <3>5, <3>6, <3>7, <3>8 DEF Terminal
  <2>4. CASE ParkExpired(p)
    <3> DEFINE e == Event(cur[p].case_id, "case_terminal", job[p].by, 0, "waiting", NoLink)
    <3>1. Append(e) /\ e.what = "waiting" /\ e.step = 0
      BY <2>4 DEF ParkExpired, Event
    <3> HIDE DEF e
    <3> QED BY <3>1 DEF Explained
  <2> QED BY <2>2, <2>3, <2>4
<1>5. audit \subseteq audit' /\ TrailExplainsOutcome'
  BY <1>3, <1>4, ClosingsKept DEF Append
<1>6. SnapBacked(p)'
  <2>1. pc[p] # "idle"
    BY DEF ParkFailed, CloseCase, ParkExpired, Go
  <2> QED BY <1>1, <1>3, <1>5, <2>1, SnapStays
<1>7. TrailOK(p)'
  BY <1>2, <1>6 DEF TrailOK, VerdictOK, ResultOK
<1> QED BY <1>1, <1>2, <1>5, <1>7, TrailAssemble

-----------------------------------------------------------------------------
(* The invariant, and what follows from it.                                 *)

\* An empty trail justifies a store of new cases.
LEMMA TrailStarts == Init => TrailInv
<1> SUFFICES ASSUME Init PROVE TrailInv
  OBVIOUS
<1>1. /\ audit = {} /\ \A c \in Cases : Open(cases[c])
      /\ pc = [p \in Procs |-> "idle"]
  BY DEF Init, Fresh, NewCase, Open, Terminal
<1>2. RowsBacked
  BY <1>1, OpenJustified DEF RowsBacked, Rows, Backed
<1>3. TrailExplainsOutcome
  BY <1>1 DEF TrailExplainsOutcome
<1>4. \A p \in Procs : TrailOK(p)
  BY <1>1, <1>2 DEF TrailOK, VerdictOK, ResultOK
<1> QED BY <1>2, <1>3, <1>4 DEF TrailInv

\* Every step of a process keeps rows and trail in step.
LEMMA TrailStepKept ==
  ASSUME NEW F, Held(F), TrailInv, NEW p \in Procs, StartRun(p) \/ Step(p) \/ Crash(p)
  PROVE  TrailInv'
<1>1. CASE \/ StartRun(p) \/ SkipTerminal(p) \/ OpenCase(p) \/ LogDetected(p)
           \/ Return(p) \/ Crash(p)
  BY <1>1, TrailBatch
<1>2. CASE Turn(p)
  <2>1. CASE Diagnose(p) \/ LogVerdict(p) \/ LogAttempt(p) \/ LogResult(p)
    BY <2>1, TrailTurn
  <2>2. CASE \/ RefuseKilled(p) \/ ExecuteLocally(p) \/ ExecuteInjected(p)
             \/ ExecuteCreate(p) \/ ExecuteNotify(p)
    BY <2>2, TrailExecution
  <2>3. CASE Save(p)
    BY <2>3, TrailSaves
  <2> QED BY <1>2, <2>1, <2>2, <2>3 DEF Turn
<1>3. CASE EndOfTurn(p)
  <2>1. CASE StopKilled(p)
    BY <2>1, TrailStops
  <2>2. CASE AskCustomer(p)
    BY <2>2, TrailAsks
  <2>3. CASE SaveAnswer(p)
    BY <2>3, TrailSaves
  <2>4. CASE NoCustomer(p) \/ NextTurn(p)
    BY <2>4, TrailTurn
  <2>5. CASE ParkFailed(p) \/ CloseCase(p) \/ ParkExpired(p)
    BY <2>5, TrailCloses
  <2> QED BY <1>3, <2>1, <2>2, <2>3, <2>4, <2>5 DEF EndOfTurn
<1> QED BY <1>1, <1>2, <1>3 DEF Step

\* What no process touches stays in step, also when rows come or go beside it.
LEMMA TrailAside ==
  ASSUME TrailInv, UNCHANGED <<pc, runVars, caseVars>>, audit' = audit,
         UNCHANGED cases \/ RowsBacked'
  PROVE  TrailInv'
<1>1. TrailExplainsOutcome'
  BY OneRow
<1>2. RowsBacked'
  BY RowsStayBacked DEF TrailInv
<1>3. \A p \in Procs : TrailOK(p)'
  BY OthersTrail DEF TrailInv, LocalKept, runVars, caseVars
<1> QED BY <1>1, <1>2, <1>3 DEF TrailInv

\* Where only runs write, every step keeps rows and trail in step.
LEMMA TrailKept == IInv /\ TrailInv /\ [Next]_vars => TrailInv'
<1> SUFFICES ASSUME IInv, TrailInv, [Next]_vars PROVE TrailInv'
  OBVIOUS
<1>1. PICK F : F = RowFailures
  OBVIOUS
<1>2. Held(F)
  BY <1>1 DEF IInv
<1>3. CASE UNCHANGED vars
  BY <1>3, TrailAside DEF vars, storeVars
<1>4. ASSUME NEW p \in Procs, StartRun(p) \/ Step(p) \/ Crash(p) PROVE TrailInv'
  BY <1>2, <1>4, TrailStepKept
<1> QED BY <1>3, <1>4 DEF Next, Done

\* Each row is backed by the trail, so the trail shows why it ended.
LEMMA BackedRows ==
  ASSUME NEW F, RowsInv(F), RowsBacked
  PROVE  StatusBackedByTrail
<1> SUFFICES ASSUME NEW c \in Rows
             PROVE  /\ cases[c].status = "recovered" =>
                         \E e \in EventsOf(c) : /\ e.event_type = "customer_response"
                                                /\ e.what = "paid" /\ HasLink(e.link)
                    /\ cases[c].status = "escalated" =>
                         Logged(c, "policy_verdict", Grounds(cases[c]))
                    /\ cases[c].status = "stopped" =>
                         Logged(c, "policy_verdict", StopRationales)
                    /\ cases[c].status = "exhausted" =>
                         Logged(c, "policy_verdict", {"exhausted"})
  BY DEF StatusBackedByTrail
<1>1. c \in Cases /\ cases[c].case_id = c
  BY DEF Rows, RowsInv, CopyOf
<1>2. Justified(cases[c], audit)
  BY DEF RowsBacked, Backed
<1> QED BY <1>1, <1>2 DEF Justified, EventsOf, Logged

\* Rows, snapshots and the cases in memory say no more than the trail does, for
\* any number of processes, cases, runs, crashes and lost calls.
THEOREM TrailInvariant == Spec => []TrailInv
BY TrailStarts, TrailKept, Invariant, PTL DEF Spec

\* A terminal row has the audit rows that justify it, whatever dies wherever.
THEOREM TrailBacksStatus == Spec => []StatusBackedByTrail
<1>1. IInv /\ TrailInv => StatusBackedByTrail
  BY BackedRows DEF IInv, Held, TrailInv
<1> QED BY <1>1, Invariant, TrailInvariant, PTL

\* Every case_terminal row is explained by its own turn.
THEOREM OutcomesAreExplained == Spec => []TrailExplainsOutcome
<1>1. TrailInv => TrailExplainsOutcome
  BY DEF TrailInv
<1> QED BY <1>1, TrailInvariant, PTL
=============================================================================
