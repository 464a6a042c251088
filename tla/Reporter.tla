------------------------------ MODULE Reporter -------------------------------
(***************************************************************************)
(* The `report` command (src/payrecover/metrics.py, cli.py): rows, trail   *)
(* and ground truths are read in three queries, in that order, with no     *)
(* transaction around them, and joined in memory.  Sums of money follow    *)
(* from the sets below; markdown and JSON are left out.                    *)
(***************************************************************************)
EXTENDS Store

CONSTANT MaxReports   \* bound: invocations

ASSUME ReporterAssumption == MaxReports \in Nat

VARIABLES rpc,       \* what report does next
          seen,      \* what it has read so far
          reports

reporterVars == <<rpc, seen, reports>>

NothingSeen == [rows |-> [c \in Cases |-> NoCase], trail |-> {},
                truths |-> [c \in Cases |-> NoTruth]]

ReporterTypeOK ==
  /\ rpc \in {"idle", "trail", "truths", "built"}
  /\ seen \in [rows : [Cases -> Case \cup {NoCase}], trail : SUBSET AuditEvent,
               truths : [Cases -> GroundTruth \cup {NoTruth}]]
  /\ reports \in 0..MaxReports

ReporterInit == rpc = "idle" /\ seen = NothingSeen /\ reports = 0

\* Mutant: the trail is read before the rows.
ReadTrailFirst(query) ==
  CASE query = "idle" -> [seen EXCEPT !.trail = audit]
    [] query = "trail" -> [seen EXCEPT !.rows = cases]
    [] query = "truths" -> [seen EXCEPT !.truths = truths]

\* The three queries, each named by what report was doing before it.
Read(query) ==
  CASE query = "idle" -> [seen EXCEPT !.rows = cases]
    [] query = "trail" -> [seen EXCEPT !.trail = audit]
    [] query = "truths" -> [seen EXCEPT !.truths = truths]

Query(from, to) ==
  /\ rpc = from /\ rpc' = to
  /\ seen' = Read(from)
  /\ UNCHANGED storeVars

ListRows ==
  Query("idle", "trail") /\ reports < MaxReports /\ reports' = reports + 1

ListTrail == Query("trail", "truths") /\ UNCHANGED reports

ListTruths == Query("truths", "built") /\ UNCHANGED reports

ReturnReport ==
  /\ rpc = "built"
  /\ rpc' = "idle" /\ seen' = NothingSeen
  /\ UNCHANGED <<storeVars, reports>>

ReportStep == ListTrail \/ ListTruths \/ ReturnReport

-----------------------------------------------------------------------------
(* build_report, over what was read.                                        *)

Reported == {c \in Cases : seen.rows[c] # NoCase}

InTrail(c, type) == {e \in seen.trail : e.case_id = c /\ e.event_type = type}

PaidIds ==
  {c \in Cases : \E e \in InTrail(c, "customer_response") :
                   e.what = "paid" /\ HasLink(e.link)}

RecoveredCases == Reported \cap PaidIds

ReportOutcome(c) ==
  IF c \in PaidIds THEN "recovered"
  ELSE CASE seen.rows[c].status = "stopped" -> "stopped_by_policy"
         [] seen.rows[c].status \in {"escalated", "exhausted", "recovered"} ->
              seen.rows[c].status
         [] OTHER -> "waiting"

WithStatus(status) == {c \in Reported : seen.rows[c].status = status}

PolicyStopList == WithStatus("stopped")

ExceptionList == {c \in Reported : seen.rows[c].status \notin Terminal} \ PaidIds

\* Mutant: the first verdict is taken for the last.
Earliest(events) ==
  IF events = {} THEN "none"
  ELSE (CHOOSE e \in events : \A f \in events :
          e.by < f.by \/ (f.by = e.by /\ e.step <= f.step)).what

\* events[-1]: the trail is listed by time.
Latest(events) ==
  IF events = {} THEN "none"
  ELSE (CHOOSE e \in events : \A f \in events :
          f.by < e.by \/ (f.by = e.by /\ f.step <= e.step)).what

EscalateRationales == {"high_amount", "ambiguous", "low_confidence"}

Escalations ==
  {[case_id |-> c,
    cause |-> Latest(InTrail(c, "diagnosis_completed")),
    rationale |-> Latest({e \in InTrail(c, "policy_verdict") :
                            e.what \in EscalateRationales})] :
     c \in WithStatus("escalated")}

ActionCount(events, type) ==
  Cardinality({e \in events : e.event_type = "action_attempted" /\ e.what = type})

\* Mutant: a profile that pays is not counted among those that would.
FewerRecoverable == {"pays_on_first_link", "pays_if_fast", "pays_after_wait"}

RecoverableProfiles ==
  {"pays_on_first_link", "pays_after_reminder", "pays_if_fast", "pays_after_wait"}

Recoverable ==
  {c \in Cases : seen.truths[c] # NoTruth /\ seen.truths[c].profile \in RecoverableProfiles}

Captured == Recoverable \cap PaidIds
=============================================================================
