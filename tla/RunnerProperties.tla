-------------------------- MODULE RunnerProperties --------------------------
(***************************************************************************)
(* What the `run` command must keep true.  The properties of the first     *)
(* part hold whatever processes overlap; those of the second are about     *)
(* invocations that follow one another, as an operator alone makes them;   *)
(* those of the third are sentences of the repository's documents that the *)
(* code does not keep.                                                     *)
(***************************************************************************)
EXTENDS Runner

Contacted(c) == created[c] + notified[c]

Progress(case) ==
  case.link_count + case.reminder_count + IF case.wait_completed THEN 1 ELSE 0

\* The rows that share the correlation id of e.
SameTurn(e, type, whats) ==
  {f \in EventsOf(e.case_id) : /\ f.by = e.by /\ f.step = e.step
                               /\ f.event_type = type /\ f.what \in whats}

EscalationRationales == {"high_amount", "ambiguous", "low_confidence"}

StopRationales == {"kill_switch", "opt_out"}

\* Why a case may go to a human: its amount if that is strictly above the
\* threshold, and otherwise only a doubtful diagnosis.
Grounds(case) ==
  IF case.failure.amount_paise > ESCALATE_AMOUNT_PAISE THEN {"high_amount"}
  ELSE {"ambiguous", "low_confidence"}

-----------------------------------------------------------------------------
(* Whatever overlaps.                                                       *)

\* README "a second recovery link is unreachable": although the cap is
\* MAX_LINKS, no row ever counts more than one link, and it counts one exactly
\* when it holds an id, because nothing ever clears active_payment_link_id.
SecondLinkUnreachable ==
  \A c \in Rows :
    /\ cases[c].link_count <= 1
    /\ cases[c].link_count = 0 <=> cases[c].active_payment_link_id = NoLink

\* A row climbs all the reminders on a usable link before it is given up as
\* exhausted, and never counts more of them than the cap.
ExhaustedMeansAllReminders ==
  \A c \in Rows :
    /\ cases[c].reminder_count <= MAX_REMINDERS
    /\ cases[c].reminder_count > 0 => HasLink(cases[c].active_payment_link_id)
    /\ cases[c].status = "exhausted" => cases[c].reminder_count = MAX_REMINDERS

\* A failure above the escalation amount goes to a human with its customer
\* untouched: Razorpay has made no link and sent no reminder for it, whatever
\* the diagnosis, the mode and the interleaving.
HighAmountNeverContacted ==
  \A c \in Rows :
    cases[c].failure.amount_paise > ESCALATE_AMOUNT_PAISE =>
      Contacted(c) = 0 /\ cases[c].link_count = 0

\* Opting out leads nowhere but to a policy stop: a row that is opted out is
\* never recovered, escalated or exhausted, in whichever turn the answer came.
OptOutIsAStop ==
  \A c \in Rows :
    cases[c].opted_out => cases[c].status \notin {"recovered", "escalated", "exhausted"}

\* The language model cannot mint a wait: a row has waited only if the failure
\* itself names a transient cause (diagnosis.py _sanitize_cause).
WaitIsEarned ==
  \A c \in Rows :
    cases[c].wait_completed => cases[c].failure.error_reason \in TransientCauses

\* The trail is written ahead of the row: whatever process dies wherever, a
\* terminal row has the audit rows that justify it, so that the report, which
\* reads the trail, never counts less than the rows do.  An amount sends a case to
\* a human only above the threshold: exactly at it, the case is the agent's.
StatusBackedByTrail ==
  \A c \in Rows :
    /\ cases[c].status = "recovered" =>
         \E e \in EventsOf(c) : /\ e.event_type = "customer_response"
                                /\ e.what = "paid" /\ HasLink(e.link)
    /\ cases[c].status = "escalated" =>
         Logged(c, "policy_verdict", Grounds(cases[c]))
    /\ cases[c].status = "stopped" => Logged(c, "policy_verdict", StopRationales)
    /\ cases[c].status = "exhausted" => Logged(c, "policy_verdict", {"exhausted"})

\* The row of the same correlation id that explains a case_terminal row: a
\* payment, the verdict that stopped or escalated, the write that failed.  A run
\* that has spent its turns has none.
Explained(e) ==
  \/ e.what = "recovered" /\ \E f \in SameTurn(e, "customer_response", {"paid"}) : HasLink(f.link)
  \/ e.what = "escalated" /\ SameTurn(e, "policy_verdict", EscalationRationales) # {}
  \/ e.what = "stopped_by_policy" /\ SameTurn(e, "policy_verdict", StopRationales) # {}
  \/ e.what = "exhausted" /\ SameTurn(e, "policy_verdict", {"exhausted"}) # {}
  \/ /\ e.what = "waiting" /\ e.step # 0
     /\ SameTurn(e, "action_result", {"razorpay", "no_link"}) # {}
  \/ e.what = "waiting" /\ e.step = 0

\* Every case_terminal row is explained: none is written on the strength of a
\* stale case, an earlier turn or another invocation.
TrailExplainsOutcome == \A e \in {f \in audit : f.event_type = "case_terminal"} : Explained(e)

\* docs/decisions.md: correlation_id "ties action_attempted to action_result".
\* An attempt lacks its result only while it is being executed, or because the
\* invocation died: never because of how the action ended.
AttemptsAnswered ==
  Cardinality({e \in audit : /\ e.event_type = "action_attempted"
                             /\ {f \in audit : /\ f.event_type = "action_result"
                                               /\ f.case_id = e.case_id
                                               /\ f.by = e.by /\ f.step = e.step} = {}})
    <= crashes + Cardinality({p \in Procs : pc[p] \in {"dispatch", "save", "result"}})

\* The case at hand as this invocation found it.
Opened(p) == snap[p][cur[p].case_id]

\* Each turn that leaves the case open moves it exactly one rung from where this
\* invocation found it: it waited, got its link, or a reminder.  The loop cannot
\* spin on a case without changing it, nor remind twice in a turn, also when
\* earlier invocations have brought the case some way up.
LoopMakesProgress ==
  \A p \in Procs :
    pc[p] = "close" /\ cur[p].status \notin Terminal =>
      Progress(cur[p]) = Progress(Opened(p)) + step[p]

\* max_steps=8 is enough for the caps: with one more turn than there are rungs
\* (a wait, one link, the reminders) no run ever releases a case for lack of turns.
BudgetSuffices ==
  MaxSteps > MAX_REMINDERS + 2 =>
    ~\E p \in Procs :
       pc[p] = "close" /\ cur[p].status \notin Terminal /\ step[p] = MaxSteps

\* README invariant 4, "Re-running a batch must not duplicate links": as long as
\* Razorpay refuses a reference_id it has seen, no lost answer, crash or overlap
\* makes it create two links for a case, because every attempt of every run
\* carries the same reference id.
RerunsNeverDuplicateLinks == UniqueRefs => \A c \in Cases : created[c] <= 1

-----------------------------------------------------------------------------
(* Invocations that follow one another.                                     *)

\* A row only advances: counters never fall, a wait served or an opt-out is
\* never undone, and a terminal row is never written differently again, over
\* any number of re-runs, crashes and failed writes.
RowsOnlyAdvance ==
  [][\A c \in Cases :
       /\ cases[c].link_count <= cases'[c].link_count
       /\ cases[c].reminder_count <= cases'[c].reminder_count
       /\ cases[c].opted_out => cases'[c].opted_out
       /\ cases[c].wait_completed => cases'[c].wait_completed
       /\ cases[c].status \in Terminal => cases'[c] = cases[c]]_vars

\* Razorpay makes a link or sends a reminder only for a row that is still open
\* and not opted out, in a turn whose audited verdict was to do so, under an
\* invocation without KILL_SWITCH.
ContactIsLicensed ==
  [][\A c \in Cases :
       (created'[c] # created[c] \/ notified'[c] # notified[c]) =>
         /\ cases[c].status \notin Terminal /\ ~cases[c].opted_out
         /\ \E p \in Procs :
              /\ cur[p].case_id = c /\ ~job[p].kill
              /\ \E e \in EventsOf(c) :
                   /\ e.event_type = "policy_verdict"
                   /\ e.what \in {"issue_link", "remind"}
                   /\ e.by = job[p].by /\ e.step = step[p]]_vars

\* Lost calls and crashes cost at most one contact each: what Razorpay did for
\* a case exceeds what its row counts by no more than the calls whose answer
\* was lost, the invocations that died, and the one write being saved.
ContactsAccounted ==
  \A c \in Rows :
    Contacted(c) <= cases[c].link_count + cases[c].reminder_count + faults + crashes
                    + Cardinality({p \in Procs : pc[p] = "save" /\ cur[p].case_id = c})

\* docs/decisions.md B4: "case_detected is emitted only when the case has no
\* prior row", and it comes before any diagnosis of the case.
DetectedOnce ==
  \A c \in Cases :
    LET detections == {e \in EventsOf(c) : e.event_type = "case_detected"}
    IN /\ Cardinality(detections) <= 1
       /\ detections = {} => ~\E e \in EventsOf(c) : e.event_type = "diagnosis_completed"

\* The report counts a case as paid from the trail; the row says recovered.
\* They disagree for at most as many cases as invocations died, beside the
\* case whose payment is being written.
PaidIsRecovered ==
  Cardinality({c \in Rows :
      /\ cases[c].status # "recovered"
      /\ \E e \in EventsOf(c) : /\ e.event_type = "customer_response"
                                /\ e.what = "paid" /\ HasLink(e.link)
      /\ ~\E p \in Procs : pc[p] = "apply" /\ cur[p].case_id = c})
    <= crashes

\* A started command comes back.
RunsReturn == \A p \in Procs : pc[p] # "idle" ~> pc[p] = "idle"

\* Where no call fails, a run that does not die settles every case it selected,
\* whatever earlier ones have left of it: paid, stopped, escalated or exhausted.
SelectedCasesSettle ==
  \A p \in Procs, c \in Cases :
    c \in todo[p] /\ crashes = MaxCrashes ~> c \in Rows /\ cases[c].status \in Terminal

-----------------------------------------------------------------------------
(* Sentences of the documents that the code does not keep.                  *)

\* README invariant 3, "max 3 reminders per case", of the reminders customers
\* are sent rather than of the counter.
RemindersSentWithinCap == \A c \in Cases : notified[c] <= MAX_REMINDERS

\* docs/decisions.md, "Waits and stops still get policy_verdict + case_terminal.
\* An unaudited no-op is a bug": a case that a run stops as already_terminal has
\* the case_terminal row that says how it ended.
StopsAreClosed ==
  \A c \in Cases :
    Logged(c, "policy_verdict", {"already_terminal"}) =>
      Logged(c, "case_terminal", Outcome \ {"waiting"})

\* README: detected cases "have no simulator ground truth, so they ... terminate
\* exhausted": at the least, once nothing dies any more, a run that selects one
\* ends it.
DetectedCasesTerminate ==
  \A p \in Procs, c \in Cases :
    (c \in todo[p] /\ truths[c] = NoTruth /\ crashes = MaxCrashes)
      ~> cases[c].status \in Terminal
=============================================================================
