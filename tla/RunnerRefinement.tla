-------------------------- MODULE RunnerRefinement ---------------------------
(***************************************************************************)
(* Runner implements CaseLifecycle: a row, read with the eyes of the       *)
(* ladder, only ever climbs it.                                            *)
(***************************************************************************)
EXTENDS RunnerInductive

LinkSeen(id) ==
  IF id = NoLink THEN "none" ELSE IF HasLink(id) THEN "usable" ELSE "blank"

\* The rung a row stands for.
RungOf(row) ==
  [waited |-> row.wait_completed, link |-> LinkSeen(row.active_payment_link_id),
   reminders |-> row.reminder_count, opted_out |-> row.opted_out,
   end |-> IF row.status \in Terminal THEN row.status ELSE "open"]

Lifecycle == INSTANCE CaseLifecycle
             WITH Reminders <- MAX_REMINDERS, ladder <- [c \in Cases |-> RungOf(cases[c])]

\* Invocations that follow one another, however they die and whatever calls they
\* lose, take each case up its ladder one rung at a time: never two rungs in one
\* write, never a rung twice, never off an opt-out but by a stop, never out of
\* an end.
ClimbsTheLadder == Lifecycle!Spec

-----------------------------------------------------------------------------
(* The inductive invariant of a process that works while the others are     *)
(* idle: what it has in memory and in its snapshot is what the rows say.    *)

Solo == \E p \in Procs : Procs = {p}

Alone(p) == \A q \in Procs \ {p} : pc[q] = "idle"

\* A move of the ladder, as a relation between two rungs.
Rises(r, s) ==
  /\ r.end = "open"
  /\ \/ /\ ~r.opted_out
        /\ \/ ~r.waited /\ r.link = "none" /\ s = [r EXCEPT !.waited = TRUE]
           \/ r.link = "none" /\ \E link \in {"blank", "usable"} : s = [r EXCEPT !.link = link]
           \/ /\ r.link = "usable" /\ r.reminders < MAX_REMINDERS
              /\ s = [r EXCEPT !.reminders = @ + 1]
           \/ s = [r EXCEPT !.opted_out = TRUE]
           \/ r.link = "usable" /\ s = [r EXCEPT !.end = "recovered"]
           \/ s = [r EXCEPT !.end = "escalated"]
           \/ /\ r.link # "none" /\ r.reminders = MAX_REMINDERS
              /\ s = [r EXCEPT !.end = "exhausted"]
     \/ s = [r EXCEPT !.end = "stopped"]

\* A link is made for a transient failure only after its wait.
WaitsFirst(case) ==
  case.failure.error_reason \in TransientCauses /\ case.link_count > 0 => case.wait_completed

Row(p) == cases[cur[p].case_id]

\* The row of the case in memory is that case, or one rung below it while the
\* rung is being saved.
InStep(p) ==
  /\ pc[p] \in {"detect", "diagnose", "verdict", "attempt", "dispatch", "result",
                "outcome", "close"} => Row(p) = cur[p]
  /\ pc[p] \in {"save", "apply"} =>
       /\ Row(p) # NoCase /\ Open(Row(p))
       /\ Row(p) = cur[p] \/ Rises(RungOf(Row(p)), RungOf(cur[p]))

\* What a process alone has in memory and in its snapshot.
SoloOK(p) ==
  /\ \A c \in todo[p] : pc[p] = "next" \/ c # cur[p].case_id => snap[p][c] = cases[c]
  /\ pc[p] = "idle" => todo[p] = {}
  /\ pc[p] \notin {"idle", "next"} => WaitsFirst(cur[p])
  /\ InStep(p)
  /\ pc[p] \in {"save", "result", "outcome"} =>
       action[p].payment_link_id \in {NoLink, cur[p].active_payment_link_id}

RowsWaitFirst == \A c \in Rows : WaitsFirst(cases[c])

SoloInv == RowsWaitFirst /\ \A p \in Procs : SoloOK(p)
=============================================================================
