------------------------------- MODULE Runner -------------------------------
(***************************************************************************)
(* The `run` command (src/payrecover/runner.py, cli.py): each invocation   *)
(* takes a snapshot of the rows, then works its cases off one by one, each *)
(* through at most MaxSteps turns of diagnose, decide, execute, respond.   *)
(* A process is one invocation at a time; there may be several, each with  *)
(* its own connection, and any of them may die between two commits.  An    *)
(* action below ends at a commit or at a call to Razorpay: what a process  *)
(* computes in between nobody else can see.                                *)
(***************************************************************************)
EXTENDS Policy, Diagnosing, Customer, Razorpay

CONSTANTS Procs,       \* processes that may execute `run`
          MaxSteps,    \* max_steps, 8 in the source
          Modes,       \* among "dry", "live" and "inject" (--inject-timeout)
          Kills,       \* values of KILL_SWITCH among the invocations
          Intake,      \* the failures, with their hidden truth, cases start from
          MaxRuns,     \* bound: invocations
          MaxCrashes   \* bound: invocations that die before they return

ASSUME RunnerAssumption ==
  /\ MaxSteps \in Nat \ {0}
  /\ Modes \subseteq {"dry", "live", "inject"}
  /\ Kills \subseteq BOOLEAN
  /\ Intake \subseteq [failure : Failure, truth : GroundTruth \cup {NoTruth}]
  /\ MaxRuns \in Nat
  /\ MaxCrashes \in Nat

VARIABLES pc,        \* what the process does next
          job,       \* how it was invoked, and its number among the invocations
          todo,      \* selected cases it has not finished
          snap,      \* list_cases() as of the invocation
          cur,       \* the case being processed, in memory
          step,      \* turns of the loop begun for it
          action,    \* what policy decided in this turn
          result,    \* what the executor reported in this turn
          runs, crashes

caseVars == <<cur, step, action, result>>
runVars == <<job, todo, snap, runs>>
vars == <<storeVars, razorpayVars, pc, runVars, caseVars, crashes>>

PC == {"idle", "next", "detect", "diagnose", "verdict", "attempt", "dispatch",
       "save", "result", "outcome", "apply", "close"}

TypeOK ==
  /\ StoreTypeOK
  /\ RazorpayTypeOK
  /\ pc \in [Procs -> PC]
  /\ job \in [Procs -> [mode : {"dry", "live", "inject"}, kill : BOOLEAN, by : Nat]]
  /\ todo \in [Procs -> SUBSET Cases]
  /\ snap \in [Procs -> [Cases -> Case \cup {NoCase}]]
  /\ cur \in [Procs -> Case]
  /\ step \in [Procs -> 0..MaxSteps]
  /\ action \in [Procs -> ActionRequest]
  /\ result \in [Procs -> ActionResult]
  /\ runs \in 0..MaxRuns
  /\ crashes \in 0..MaxCrashes

NoWork == NewCase(0, [amount_paise |-> 0, error_reason |-> ""])

\* Nothing has been asked of Razorpay, no process has been started.
Fresh ==
  /\ audit = {}
  /\ RazorpayInit
  /\ pc = [p \in Procs |-> "idle"]
  /\ job = [p \in Procs |-> [mode |-> "dry", kill |-> FALSE, by |-> 0]]
  /\ todo = [p \in Procs |-> {}]
  /\ snap = [p \in Procs |-> cases]
  /\ cur = [p \in Procs |-> NoWork]
  /\ step = [p \in Procs |-> 0]
  /\ action = [p \in Procs |-> Verdict(NoWork, "stop", "exhausted")]
  /\ result = [p \in Procs |-> Ok(NoLink)]
  /\ runs = 0
  /\ crashes = 0

\* A batch seeded to the end, and detected cases beside it.
Init ==
  /\ \E intake \in [Cases -> Intake] :
       /\ cases = [c \in Cases |-> NewCase(c, intake[c].failure)]
       /\ truths = [c \in Cases |-> intake[c].truth]
  /\ Fresh

Go(p, from, to) == pc[p] = from /\ pc' = [pc EXCEPT ![p] = to]

Log(p, type, what, link) ==
  Append(Event(cur[p].case_id, type, job[p].by, step[p], what, link))

\* Mutant: a case left open is taken up again by the same invocation.
RequeueOpen(p) ==
  todo' = IF cur[p].status \in Terminal
          THEN [todo EXCEPT ![p] = @ \ {cur[p].case_id}] ELSE todo

FinishCase(p) == todo' = [todo EXCEPT ![p] = @ \ {cur[p].case_id}]

-----------------------------------------------------------------------------
(* The batch: select, snapshot, take the cases in order.                    *)

\* --case takes one row, --limit a prefix of them, an empty one included; neither
\* takes all.
Selections == {{}} \cup {{c} : c \in Rows} \cup {{d \in Rows : d <= c} : c \in Rows}

StartRun(p) ==
  /\ runs < MaxRuns
  /\ Go(p, "idle", "next")
  /\ runs' = runs + 1
  /\ \E mode \in Modes, kill \in Kills, selected \in Selections :
       /\ job' = [job EXCEPT ![p] = [mode |-> mode, kill |-> kill, by |-> runs + 1]]
       /\ todo' = [todo EXCEPT ![p] = selected]
  /\ snap' = [snap EXCEPT ![p] = cases]
  /\ UNCHANGED <<storeVars, razorpayVars, caseVars, crashes>>

IsNext(p, c) == c \in todo[p] /\ \A d \in todo[p] : c <= d

\* Mutant: only a payment ends a case for good.
SettledOnlyIfPaid(row) == row.status = "recovered"

Settled(row) == row.status \in Terminal

\* A case that was terminal in the snapshot gets a verdict and nothing else.
SkipTerminal(p) ==
  \E c \in Cases :
    /\ IsNext(p, c)
    /\ Go(p, "next", "next")
    /\ Settled(snap[p][c])
    /\ Append(Event(c, "policy_verdict", job[p].by, 0, "already_terminal",
                    snap[p][c].active_payment_link_id))
    /\ todo' = [todo EXCEPT ![p] = @ \ {c}]
    /\ UNCHANGED <<cases, truths, razorpayVars, job, snap, runs, caseVars, crashes>>

\* Mutant: the detection is written again by every run.
AfterOpenAlways(c) == "detect"

AfterOpen(c) ==
  IF \E e \in EventsOf(c) : e.event_type = "case_detected" THEN "diagnose" ELSE "detect"

OpenCase(p) ==
  \E c \in Cases :
    /\ IsNext(p, c)
    /\ Go(p, "next", AfterOpen(c))
    /\ ~Settled(snap[p][c])
    /\ cur' = [cur EXCEPT ![p] = snap[p][c]]
    /\ step' = [step EXCEPT ![p] = 0]
    /\ UNCHANGED <<storeVars, razorpayVars, runVars, action, result, crashes>>

LogDetected(p) ==
  /\ Go(p, "detect", "diagnose")
  /\ Append(Event(cur[p].case_id, "case_detected", job[p].by, 0, "none", NoLink))
  /\ UNCHANGED <<cases, truths, razorpayVars, runVars, caseVars, crashes>>

Return(p) ==
  /\ todo[p] = {}
  /\ Go(p, "next", "idle")
  /\ UNCHANGED <<storeVars, razorpayVars, runVars, caseVars, crashes>>

-----------------------------------------------------------------------------
(* One turn of the loop: diagnose, decide, execute.                         *)

Diagnose(p) ==
  /\ Go(p, "diagnose", "verdict")
  /\ step[p] < MaxSteps
  /\ step' = [step EXCEPT ![p] = @ + 1]
  /\ \E d \in Diagnoses(cur[p].failure) :
       /\ action' = [action EXCEPT ![p] = Decide(cur[p], d, job[p].kill)]
       /\ Append(Event(cur[p].case_id, "diagnosis_completed", job[p].by, step[p] + 1,
                       d.cause, NoLink))
  /\ UNCHANGED <<cases, truths, razorpayVars, runVars, cur, result, crashes>>

LogVerdict(p) ==
  /\ Go(p, "verdict", "attempt")
  /\ Log(p, "policy_verdict", action[p].rationale,
         OrElse(action[p].payment_link_id, cur[p].active_payment_link_id))
  /\ UNCHANGED <<cases, truths, razorpayVars, runVars, caseVars, crashes>>

\* Mutant: an attempt is logged only when it names a link.
LogAttemptOnLink(p) ==
  /\ Go(p, "attempt", "dispatch")
  /\ IF HasLink(action[p].payment_link_id)
     THEN Log(p, "action_attempted", action[p].action_type, action[p].payment_link_id)
     ELSE UNCHANGED audit
  /\ UNCHANGED <<cases, truths, razorpayVars, runVars, caseVars, crashes>>

LogAttempt(p) ==
  /\ Go(p, "attempt", "dispatch")
  /\ Log(p, "action_attempted", action[p].action_type, action[p].payment_link_id)
  /\ UNCHANGED <<cases, truths, razorpayVars, runVars, caseVars, crashes>>

\* The executor's part of a turn, once it knows the reply of Razorpay.
Execute(p, reply) ==
  LET done == Dispatch(action[p], cur[p], reply)
  IN /\ cur' = [cur EXCEPT ![p] = done.case]
     /\ result' = [result EXCEPT ![p] = done.result]

\* The kill switch is checked again where the write would be made.
RefuseKilled(p) ==
  /\ Go(p, "dispatch", "save")
  /\ job[p].kill
  /\ result' = [result EXCEPT ![p] = Failed(NoLink, "kill_switch")]
  /\ UNCHANGED <<storeVars, razorpayVars, runVars, cur, step, action, crashes>>

\* Nothing to ask of Razorpay, or a dry run, which mints link ids of its own.
ExecuteLocally(p) ==
  /\ Go(p, "dispatch", "save")
  /\ ~job[p].kill
  /\ job[p].mode = "dry" \/ Calls(action[p], cur[p]) = "none"
  /\ Execute(p, Served(DryLink))
  /\ UNCHANGED <<storeVars, razorpayVars, runVars, step, action, crashes>>

\* --inject-timeout: every write fails without reaching Razorpay.
ExecuteInjected(p) ==
  /\ Go(p, "dispatch", "save")
  /\ ~job[p].kill
  /\ job[p].mode = "inject" /\ Calls(action[p], cur[p]) # "none"
  /\ Execute(p, ClientError)
  /\ UNCHANGED <<storeVars, razorpayVars, runVars, step, action, crashes>>

\* Mutant: the reference id is drawn afresh by each invocation.
ReferencePerRun(p) == job[p].by

\* The attempt number in the reference id of the link to make.
Reference(p) == cur[p].link_count + 1

ExecuteCreate(p) ==
  /\ Go(p, "dispatch", "save")
  /\ ~job[p].kill
  /\ job[p].mode = "live" /\ Calls(action[p], cur[p]) = "create"
  /\ \E reply \in Reply :
       /\ CreatePaymentLink(cur[p].case_id, Reference(p), reply)
       /\ Execute(p, reply)
  /\ UNCHANGED <<storeVars, runVars, step, action, crashes>>

ExecuteNotify(p) ==
  /\ Go(p, "dispatch", "save")
  /\ ~job[p].kill
  /\ job[p].mode = "live" /\ Calls(action[p], cur[p]) = "notify"
  /\ \E reply \in Reply :
       /\ NotifyPaymentLink(cur[p].case_id, RemindedLink(action[p], cur[p]), reply)
       /\ Execute(p, reply)
  /\ UNCHANGED <<storeVars, runVars, step, action, crashes>>

Save(p) ==
  /\ Go(p, "save", "result")
  /\ Upsert(cur[p])
  /\ UNCHANGED <<truths, audit, razorpayVars, runVars, caseVars, crashes>>

\* Mutant: a refused or failed action leaves no result on the trail.
LogSuccess(p) ==
  /\ Go(p, "result", "outcome")
  /\ IF result[p].ok
     THEN Log(p, "action_result", result[p].error_type, result[p].payment_link_id)
     ELSE UNCHANGED audit
  /\ UNCHANGED <<cases, truths, razorpayVars, runVars, caseVars, crashes>>

LogResult(p) ==
  /\ Go(p, "result", "outcome")
  /\ Log(p, "action_result", result[p].error_type, result[p].payment_link_id)
  /\ UNCHANGED <<cases, truths, razorpayVars, runVars, caseVars, crashes>>

-----------------------------------------------------------------------------
(* The end of a turn: stop, park, ask the customer, close or go round.      *)

StopKilled(p) ==
  /\ Go(p, "outcome", "close")
  /\ result[p].error_type = "kill_switch"
  /\ cur' = [cur EXCEPT ![p].status = "stopped"]
  /\ Upsert(cur'[p])
  /\ UNCHANGED <<truths, audit, razorpayVars, runVars, step, action, result, crashes>>

ParkFailed(p) ==
  /\ Go(p, "outcome", "next")
  /\ ~result[p].ok /\ result[p].error_type # "kill_switch"
  /\ cur[p].status \notin Terminal
  /\ Log(p, "case_terminal", "waiting", NoLink)
  /\ FinishCase(p)
  /\ UNCHANGED <<cases, truths, razorpayVars, job, snap, runs, caseVars, crashes>>

\* Mutant: a payment is believed without a link it could be made on.
AnsweredWithoutLink(case, answer) ==
  IF answer.kind = "opted_out" THEN [case EXCEPT !.opted_out = TRUE]
  ELSE IF answer.kind = "paid" THEN [case EXCEPT !.status = "recovered"]
  ELSE case

\* What the answer makes of the case in memory; it is saved in a step of its own.
Answered(case, answer) ==
  IF answer.kind = "opted_out" THEN [case EXCEPT !.opted_out = TRUE]
  ELSE IF answer.kind = "paid" /\ HasLink(answer.payment_link_id)
  THEN [case EXCEPT !.status = "recovered"]
  ELSE case

AskCustomer(p) ==
  /\ pc[p] = "outcome"
  /\ result[p].ok
  /\ truths[cur[p].case_id] # NoTruth
  /\ LET answer == Respond(cur[p], action[p], truths[cur[p].case_id])
     IN /\ Log(p, "customer_response", answer.kind, answer.payment_link_id)
        /\ cur' = [cur EXCEPT ![p] = Answered(@, answer)]
  /\ pc' = [pc EXCEPT ![p] = IF cur'[p] = cur[p] THEN "close" ELSE "apply"]
  /\ UNCHANGED <<cases, truths, razorpayVars, runVars, step, action, result, crashes>>

\* A detected case has no simulated customer.
NoCustomer(p) ==
  /\ Go(p, "outcome", "close")
  /\ result[p].ok
  /\ truths[cur[p].case_id] = NoTruth
  /\ UNCHANGED <<storeVars, razorpayVars, runVars, caseVars, crashes>>

\* Mutant: the answer changes the case in memory and is never saved.
KeepAnswerInMemory(p) ==
  /\ Go(p, "apply", "close")
  /\ UNCHANGED <<storeVars, razorpayVars, runVars, caseVars, crashes>>

SaveAnswer(p) ==
  /\ Go(p, "apply", "close")
  /\ Upsert(cur[p])
  /\ UNCHANGED <<truths, audit, razorpayVars, runVars, caseVars, crashes>>

\* Mutant: the raw status is written where an outcome belongs.
OutcomeIsStatus(case) == case.status

OutcomeOf(case) ==
  CASE case.status = "stopped" -> "stopped_by_policy"
    [] case.status \in Terminal \ {"stopped"} -> case.status
    [] OTHER -> "waiting"

CloseCase(p) ==
  /\ Go(p, "close", "next")
  /\ cur[p].status \in Terminal
  /\ Log(p, "case_terminal", OutcomeOf(cur[p]), NoLink)
  /\ FinishCase(p)
  /\ UNCHANGED <<cases, truths, razorpayVars, job, snap, runs, caseVars, crashes>>

NextTurn(p) ==
  /\ Go(p, "close", "diagnose")
  /\ cur[p].status \notin Terminal
  /\ step[p] < MaxSteps
  /\ UNCHANGED <<storeVars, razorpayVars, runVars, caseVars, crashes>>

\* The loop is spent: the case is released without a correlation id.
ParkExpired(p) ==
  /\ Go(p, "close", "next")
  /\ cur[p].status \notin Terminal
  /\ step[p] = MaxSteps
  /\ Append(Event(cur[p].case_id, "case_terminal", job[p].by, 0, "waiting", NoLink))
  /\ FinishCase(p)
  /\ UNCHANGED <<cases, truths, razorpayVars, job, snap, runs, caseVars, crashes>>

-----------------------------------------------------------------------------
\* The process dies: what it had not committed is gone.
Crash(p) ==
  /\ crashes < MaxCrashes
  /\ pc[p] # "idle"
  /\ pc' = [pc EXCEPT ![p] = "idle"]
  /\ todo' = [todo EXCEPT ![p] = {}]
  /\ crashes' = crashes + 1
  /\ UNCHANGED <<storeVars, razorpayVars, job, snap, runs, caseVars>>

Turn(p) ==
  \/ Diagnose(p) \/ LogVerdict(p) \/ LogAttempt(p)
  \/ RefuseKilled(p) \/ ExecuteLocally(p) \/ ExecuteInjected(p)
  \/ ExecuteCreate(p) \/ ExecuteNotify(p) \/ Save(p) \/ LogResult(p)

EndOfTurn(p) ==
  \/ StopKilled(p) \/ ParkFailed(p) \/ AskCustomer(p) \/ NoCustomer(p)
  \/ SaveAnswer(p) \/ CloseCase(p) \/ NextTurn(p) \/ ParkExpired(p)

Step(p) ==
  SkipTerminal(p) \/ OpenCase(p) \/ LogDetected(p) \/ Return(p) \/ Turn(p) \/ EndOfTurn(p)

\* Every invocation of the bound has been made and has ended.
Done ==
  /\ runs = MaxRuns
  /\ \A p \in Procs : pc[p] = "idle"
  /\ UNCHANGED vars

Next == (\E p \in Procs : StartRun(p) \/ Step(p) \/ Crash(p)) \/ Done

\* A started command is scheduled until it returns; nobody has to start or kill one.
Spec == Init /\ [][Next]_vars /\ \A p \in Procs : WF_vars(Step(p))
=============================================================================
