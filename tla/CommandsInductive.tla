------------------------- MODULE CommandsInductive --------------------------
(***************************************************************************)
(* The inductive invariants behind the properties of CommandsProperties.   *)
(* detect and seed write rows beside the runs, so the failure of a case is *)
(* not read off its row but off what will fail and what seed will make.    *)
(***************************************************************************)
EXTENDS CommandsProperties

\* The failure of each case, settled before any command runs.
Failures ==
  [c \in Cases |-> IF c \in Payments THEN payments[c]
                   ELSE IF c \in Batch THEN batch[c].failure ELSE NoWork.failure]

\* The row detect is about to write back is a copy, and not of an ended case.
MergeOK(F) ==
  dpc = "write" =>
    /\ merging.id \in Payments
    /\ merging.row # NoCase => CopyOf(F, merging.id, merging.row) /\ Open(merging.row)

\* What report has read are copies.
SeenOK(F) == \A c \in Cases : seen.rows[c] # NoCase => CopyOf(F, c, seen.rows[c])

\* Every copy of a case, in the store, in a run, in detect or in report.
CommandsInv ==
  /\ CommandsTypeOK
  /\ Held(Failures)
  /\ MergeOK(Failures)
  /\ SeenOK(Failures)

\* A truth is the one of the batch, and seed leaves behind it cases with both.
SeedInv ==
  /\ \A c \in Cases : truths[c] # NoTruth => c \in Batch /\ truths[c] = batch[c].truth
  /\ spc \in {"drop", "delete"} => left = Batch
  /\ spc \in {"case", "truth"} =>
       \A c \in Batch \ left : cases[c] # NoCase /\ truths[c] = batch[c].truth
  /\ spc = "truth" => \A c \in left : First(c) => cases[c] # NoCase
  /\ RecordedBatchIsWhole

\* Only a customer of the batch whose profile pays is on the trail with a payment.
PayersOK(trail) ==
  \A e \in trail :
    e.event_type = "customer_response" /\ e.what = "paid" =>
      e.case_id \in Batch /\ batch[e.case_id].truth.profile \in RecoverableProfiles

PayersInv ==
  /\ PayersOK(audit) /\ PayersOK(seen.trail)
  /\ \A c \in Cases :
       seen.truths[c] # NoTruth => c \in Batch /\ seen.truths[c] = batch[c].truth

\* What report has read of a row, what it reads of the trail afterwards backs.
ReportInv ==
  \A c \in Cases : seen.rows[c] # NoCase =>
    /\ rpc = "trail" => Justified(seen.rows[c], audit)
    /\ rpc \in {"truths", "built"} => Justified(seen.rows[c], seen.trail)

\* An operator who never forces a seed keeps the trail whole.
UnforcedInv == spc \notin {"drop", "delete"} /\ TrailInv /\ ReportInv

\* At most one of the commands that write is at work.
OneAtATime ==
  /\ \A p \in Procs : pc[p] # "idle" => Alone(p) /\ dpc = "idle" /\ spc = "idle"
  /\ dpc # "idle" => spc = "idle"

\* Commands that follow one another find in memory what is in the rows.
TurnsInv == OneAtATime /\ SoloInv /\ (dpc = "write" => merging.row = cases[merging.id])

\* While nothing dies, the trail and the rows are only apart between the two
\* commits of a wipe.
AuditedInv ==
  /\ spc = "delete" => audit = {}
  /\ crashes = 0 /\ spc # "delete" => TrailInv

\* The commands that write take turns, and seed leaves report alone.
Orderly == OneAtATime /\ (rpc # "idle" => spc = "idle")

-----------------------------------------------------------------------------
(* Why a case is in the hands of a human: what report looks for.            *)

Diagnosed(c, trail) ==
  {e \in trail : e.case_id = c /\ e.event_type = "diagnosis_completed"}

Ruled(c, trail) ==
  {e \in trail : /\ e.case_id = c /\ e.event_type = "policy_verdict"
                 /\ e.what \in EscalateRationales}

Findings(c, trail) == Diagnosed(c, trail) \cup Ruled(c, trail)

At(e, by, turn) == e.by = by /\ e.step = turn

UpTo(e, by, turn) == e.by < by \/ (e.by = by /\ e.step <= turn)

\* A verdict for a human that policy gives on a diagnosis with this cause.
Fits(rationale, cause) ==
  /\ cause # "none"
  /\ rationale = "ambiguous" => cause = "ambiguous"
  /\ rationale = "low_confidence" => cause # "ambiguous"

\* The last diagnosis and the last such verdict are of one turn, and fit.
Told(c, trail) ==
  \E v \in Ruled(c, trail) :
    /\ \A e \in Findings(c, trail) : UpTo(e, v.by, v.step)
    /\ \E d \in Diagnosed(c, trail) : At(d, v.by, v.step)
    /\ \A d \in Diagnosed(c, trail), w \in Ruled(c, trail) :
         At(d, v.by, v.step) /\ At(w, v.by, v.step) => Fits(w.what, d.what)

\* What the invocation at work has found: nothing yet of the cases it has still
\* to take, and of the one at hand nothing beyond this turn.
TurnTold(p) ==
  pc[p] # "idle" =>
    LET c == cur[p].case_id
    IN /\ job[p].by = runs
       /\ \A d \in todo[p] : pc[p] = "next" \/ d # c =>
            \A e \in Findings(d, audit) : e.by < runs
       /\ pc[p] # "next" => \A e \in Findings(c, audit) : UpTo(e, runs, step[p])
       /\ pc[p] = "verdict" =>
            /\ \E d \in Diagnosed(c, audit) : At(d, runs, step[p])
            /\ \A v \in Ruled(c, audit) : ~At(v, runs, step[p])
            /\ action[p].rationale \in EscalateRationales =>
                 \A d \in Diagnosed(c, audit) :
                   At(d, runs, step[p]) => Fits(action[p].rationale, d.what)
       /\ /\ pc[p] \in {"attempt", "dispatch", "save", "result", "outcome", "apply", "close"}
          /\ action[p].rationale \in EscalateRationales
          => Told(c, audit)

\* Each escalated row is explained, in the store and as report has read it.
ReasonsInv ==
  /\ \A p \in Procs : TurnTold(p)
  /\ \A c \in Rows : cases[c].status = "escalated" => Told(c, audit)
  /\ \A c \in Cases : seen.rows[c] # NoCase /\ seen.rows[c].status = "escalated" =>
       /\ rpc = "trail" => cases[c] = seen.rows[c]
       /\ rpc \in {"truths", "built"} => Told(c, seen.trail)
=============================================================================
