---------------------------- MODULE CaseLifecycle ----------------------------
(***************************************************************************)
(* What PayRecover promises about a case, whatever commands, crashes and   *)
(* failed calls it takes to get there: a ladder with a wait, one link and  *)
(* the reminders on it, that a customer may leave by paying or opting out, *)
(* and that ends once.  Runner implements it (RunnerRefinement): one step  *)
(* of the ladder is one write of a row.                                    *)
(***************************************************************************)
EXTENDS Integers

CONSTANTS Cases,       \* the failed payments being recovered
          Reminders    \* the reminders a case is worth

VARIABLE ladder   \* where each case stands

Rung == [waited : BOOLEAN, link : {"none", "blank", "usable"}, reminders : 0..Reminders,
         opted_out : BOOLEAN,
         end : {"open", "recovered", "escalated", "exhausted", "stopped"}]

Bottom == [waited |-> FALSE, link |-> "none", reminders |-> 0, opted_out |-> FALSE,
           end |-> "open"]

Init == ladder = [c \in Cases |-> Bottom]

Climb(c, rung) == ladder' = [ladder EXCEPT ![c] = rung]

\* The rails are given time once, before the customer hears from anyone.
Wait(c, r) == ~r.waited /\ r.link = "none" /\ Climb(c, [r EXCEPT !.waited = TRUE])

\* One link for the life of the case; the service may have named it with nothing.
Link(c, r) ==
  /\ r.link = "none"
  /\ \E link \in {"blank", "usable"} : Climb(c, [r EXCEPT !.link = link])

Remind(c, r) ==
  /\ r.link = "usable" /\ r.reminders < Reminders
  /\ Climb(c, [r EXCEPT !.reminders = @ + 1])

OptOut(c, r) == Climb(c, [r EXCEPT !.opted_out = TRUE])

\* Nobody pays without a link to pay on.
Recover(c, r) == r.link = "usable" /\ Climb(c, [r EXCEPT !.end = "recovered"])

Escalate(c, r) == Climb(c, [r EXCEPT !.end = "escalated"])

\* Given up only after everything was tried.
Exhaust(c, r) ==
  /\ r.link # "none" /\ r.reminders = Reminders
  /\ Climb(c, [r EXCEPT !.end = "exhausted"])

\* The one way out of an opt-out, and the kill switch's for every open case.
Stop(c, r) == Climb(c, [r EXCEPT !.end = "stopped"])

Move(c, r) ==
  /\ r.end = "open"
  /\ \/ /\ ~r.opted_out
        /\ \/ Wait(c, r) \/ Link(c, r) \/ Remind(c, r) \/ OptOut(c, r)
           \/ Recover(c, r) \/ Escalate(c, r) \/ Exhaust(c, r)
     \/ Stop(c, r)

Next == \E c \in Cases : Move(c, ladder[c])

Spec == Init /\ [][Next]_ladder
=============================================================================
