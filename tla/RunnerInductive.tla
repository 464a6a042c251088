-------------------------- MODULE RunnerInductive ---------------------------
(***************************************************************************)
(* The inductive invariant behind the properties of RunnerProperties that  *)
(* hold whatever processes overlap.  A row is copied from the store to a   *)
(* snapshot, from there to the memory of a process, and from there back to *)
(* the store, so what is true of each copy on its own (Shape) survives any *)
(* interleaving; TurnOK ties the copy in memory to the turn it is in.     *)
(***************************************************************************)
EXTENDS RunnerProperties

\* What is true of every copy of a case.
Shape(case) ==
  /\ case.link_count <= 1
  /\ case.link_count = 0 <=> case.active_payment_link_id = NoLink
  /\ case.reminder_count <= MAX_REMINDERS
  /\ case.reminder_count > 0 => HasLink(case.active_payment_link_id)
  /\ case.status = "exhausted" => case.reminder_count = MAX_REMINDERS
  /\ case.opted_out => case.status \notin {"recovered", "escalated", "exhausted"}
  /\ case.wait_completed => case.failure.error_reason \in TransientCauses
  /\ HighAmount(case) => case.link_count = 0

Open(case) == case.status \notin Terminal

\* A copy of case c, where F holds the failure each case comes from.
CopyOf(F, c, case) == case.case_id = c /\ Shape(case) /\ case.failure = F[c]

RowsInv(F) == \A c \in Rows : CopyOf(F, c, cases[c])

\* What Razorpay has done for a case; the first attempt is the only one made.
ServiceInv(F) ==
  \A c \in Cases :
    /\ F[c].amount_paise > ESCALATE_AMOUNT_PAISE => created[c] = 0 /\ notified[c] = 0
    /\ UniqueRefs => created[c] <= 1 /\ (created[c] = 1 => 1 \in refs[c])

SnapOK(F, p) == \A c \in Cases : snap[p][c] # NoCase => CopyOf(F, c, snap[p][c])

\* Only rows of the snapshot are selected.
Selected == \A p \in Procs : \A c \in todo[p] : snap[p][c] # NoCase

CurOK(F, p) ==
  pc[p] \notin {"idle", "next"} =>
    /\ cur[p].case_id \in Cases /\ CopyOf(F, cur[p].case_id, cur[p])
    /\ Opened(p) # NoCase

\* In turn n the case in memory is n - 1 rungs above where it was found until the
\* action has run, and then n, if it is still open.
Climbed(p, rungs) == Progress(cur[p]) = Progress(Opened(p)) + rungs

\* Before the action runs it is the one policy decides on the case in memory.
TurnOK(p) ==
  /\ pc[p] \in {"detect", "diagnose"} => Open(cur[p]) /\ Climbed(p, step[p])
  /\ pc[p] \in {"verdict", "attempt", "dispatch"} =>
       /\ Open(cur[p]) /\ Climbed(p, step[p] - 1)
       /\ \E d \in Diagnoses(cur[p].failure) :
            action[p] = Decide(cur[p], d, job[p].kill)
  /\ pc[p] \in {"save", "result", "outcome"} =>
       /\ result[p].ok /\ Open(cur[p]) => Climbed(p, step[p])
       /\ ~result[p].ok \/ action[p].action_type \in Contact => Open(cur[p])
       /\ result[p].error_type = "kill_switch" => ~result[p].ok
  /\ pc[p] \in {"apply", "close"} => (Open(cur[p]) => Climbed(p, step[p]))

\* What holds of every copy, whoever else writes rows of the same failures, and
\* whichever rows are missing.
Held(F) ==
  /\ TypeOK /\ Selected
  /\ RowsInv(F) /\ ServiceInv(F)
  /\ \A p \in Procs : SnapOK(F, p) /\ CurOK(F, p) /\ TurnOK(p)

RowFailures == [c \in Cases |-> cases[c].failure]

\* Where only runs write, no row is ever missing.
IInv == cases \in [Cases -> Case] /\ Held(RowFailures)

-----------------------------------------------------------------------------
(* What the trail holds already when a copy of a case says so.  Rows of the *)
(* trail are never taken back, so this too survives any interleaving.       *)

\* The audit rows that justify the status of this copy of a case.
Justified(case, trail) ==
  LET Verdicts == {e.what : e \in {f \in trail : /\ f.case_id = case.case_id
                                                 /\ f.event_type = "policy_verdict"}}
  IN /\ case.status \in Terminal => Verdicts \cap Rationale # {}
     /\ case.status = "recovered" =>
          \E e \in trail : /\ e.case_id = case.case_id
                           /\ e.event_type = "customer_response"
                           /\ e.what = "paid" /\ HasLink(e.link)
     /\ case.status = "escalated" => Verdicts \cap Grounds(case) # {}
     /\ case.status = "stopped" => Verdicts \cap StopRationales # {}
     /\ case.status = "exhausted" => "exhausted" \in Verdicts

Backed(case) == Justified(case, audit)

\* The rows p has written in this turn with one of the given payloads.
ThisTurn(p, type, what) ==
  {e \in EventsOf(cur[p].case_id) : /\ e.by = job[p].by /\ e.step = step[p]
                                    /\ e.event_type = type /\ e.what = what}

\* Once it is on the trail, the verdict of the turn says how the turn may end.
VerdictOK(p) ==
  /\ pc[p] \in {"attempt", "dispatch", "save", "result", "outcome", "apply", "close"} =>
       ThisTurn(p, "policy_verdict", action[p].rationale) # {}
  /\ pc[p] \in {"save", "result", "outcome", "apply", "close"} =>
       /\ cur[p].status = "escalated" => action[p].rationale \in Grounds(cur[p])
       /\ cur[p].status = "stopped" => action[p].rationale \in StopRationales
       /\ cur[p].status = "exhausted" => action[p].rationale = "exhausted"
       /\ cur[p].status = "recovered" =>
            \E e \in ThisTurn(p, "customer_response", "paid") : HasLink(e.link)

\* A failure is one of three, and on the trail before the case is parked for it.
ResultOK(p) ==
  /\ pc[p] \in {"save", "result", "outcome"} =>
       /\ ~result[p].ok => result[p].error_type \in {"kill_switch", "no_link", "razorpay"}
       /\ result[p].error_type = "kill_switch" => action[p].rationale = "kill_switch"
  /\ pc[p] = "outcome" =>
       ThisTurn(p, "action_result", result[p].error_type) # {}

RowsBacked == \A c \in Rows : Backed(cases[c])

SnapBacked(p) == \A c \in Cases : snap[p][c] # NoCase => Backed(snap[p][c])

\* The copies p holds, and the turn it is in.
TrailOK(p) ==
  /\ pc[p] # "idle" => SnapBacked(p)
  /\ pc[p] \notin {"idle", "next"} => Backed(cur[p])
  /\ pc[p] \in {"verdict", "attempt", "dispatch", "save", "result", "outcome", "apply",
                "close"} => step[p] > 0
  /\ VerdictOK(p)
  /\ ResultOK(p)

TrailInv ==
  /\ RowsBacked
  /\ TrailExplainsOutcome
  /\ \A p \in Procs : TrailOK(p)
=============================================================================
