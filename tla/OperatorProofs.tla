--------------------------- MODULE OperatorProofs ----------------------------
(***************************************************************************)
(* Proofs about the commands on one database, of what depends on how the   *)
(* operator uses them: who never forces a seed keeps the trail whole, who  *)
(* lets the commands that write take turns finds each row as he left it,   *)
(* and who does both reads for each escalation why it was made.            *)
(***************************************************************************)
EXTENDS CommandsProofs, LedgerProofs

\* The operator never says --force.
Unforced == TRUE \notin Forces

-----------------------------------------------------------------------------
(* Without --force: rows, trail and report.                                 *)

\* Beside the runs only open rows are written, or all are deleted.
LEMMA AsideWrites ==
  ASSUME CommandsInv, Detecting \/ Seeding \/ Reporting \/ Die \/ UNCHANGED allVars,
         NEW c \in Cases, cases'[c] # NoCase, cases'[c] # cases[c]
  PROVE  Open(cases'[c])
<1> USE DEF storeVars
<1>1. PICK F : F = Failures
  OBVIOUS
<1>2. /\ Held(F) /\ StoreTypeOK /\ SeederTypeOK
  BY <1>1 DEF CommandsInv, CommandsTypeOK, TypeOK
<1>3. ASSUME NEW new \in Case, Open(new), Upsert(new) PROVE Open(cases'[c])
  BY <1>2, <1>3 DEF StoreTypeOK, Upsert
<1>4. CASE WriteRow
  <2>1. PICK new : new = Merged(merging.id, merging.row, payments[merging.id])
    OBVIOUS
  <2> QED BY <1>1, <1>3, <1>4, <2>1, MergedRow DEF WriteRow
<1>5. CASE SeedCase
  <2>1. PICK d \in left : Upsert(NewCase(d, batch[d].failure))
    BY <1>5 DEF SeedCase
  <2>2. d \in Batch
    BY <1>2 DEF SeederTypeOK
  <2>3. /\ NewCase(d, batch[d].failure) \in Case /\ Open(NewCase(d, batch[d].failure))
    BY <1>1, <2>2, NewRow
  <2> QED BY <1>3, <2>1, <2>3
<1>6. CASE DeleteRows
  BY <1>6 DEF DeleteRows
<1> QED BY <1>4, <1>5, <1>6
        DEF Detecting, FailPayment, ListPayments, DetectStep, ReadRow, RejectForeign, ReturnDetect,
            Seeding, StartSeed, SeedStep, DropTrail, SeedTruth, RecordBatch,
            Reporting, ListRows, ReportStep, ListTrail, ListTruths, Query, ReturnReport,
            Die, DieDetecting, DieSeeding, allVars, vars

\* What they write needs nothing on the trail to back it.
LEMMA OpenRowsAside ==
  ASSUME CommandsInv, RowsBacked, Detecting \/ Seeding \/ Reporting \/ Die,
         UNCHANGED audit
  PROVE  RowsBacked'
BY AsideWrites, OpenJustified DEF RowsBacked, Rows, Backed

\* The trail goes on backing what report has read, while it grows.
LEMMA ReportStays ==
  ASSUME ReportInv, UNCHANGED <<rpc, seen>>, audit \subseteq audit'
  PROVE  ReportInv'
BY JustifiedGrows DEF ReportInv

\* report reads rows that are backed by the trail it reads next.
LEMMA ReportReads ==
  ASSUME CommandsInv, RowsBacked, ReportInv, Reporting
  PROVE  ReportInv'
<1> USE DEF storeVars
<1>1. PICK F : F = Failures
  OBVIOUS
<1>2. RowsInv(F) /\ ReporterTypeOK /\ UNCHANGED audit
  BY <1>1 DEF CommandsInv, CommandsTypeOK, Held, Reporting, ListRows, ReportStep, ListTrail,
              ListTruths, Query, ReturnReport
<1>3. CASE ListRows
  <2>1. rpc' = "trail" /\ seen'.rows = cases
    BY <1>2, <1>3 DEF ListRows, Query, Read, ReporterTypeOK
  <2> QED BY <1>2, <2>1 DEF ReportInv, RowsInv, Rows, CopyOf, RowsBacked, Backed
<1>4. CASE ListTrail
  <2>1. /\ rpc = "trail" /\ rpc' = "truths" /\ seen'.rows = seen.rows /\ seen'.trail = audit
    BY <1>2, <1>4 DEF ListTrail, Query, Read, ReporterTypeOK
  <2> QED BY <2>1 DEF ReportInv
<1>5. CASE ListTruths
  <2>1. /\ rpc = "truths" /\ rpc' = "built" /\ seen'.rows = seen.rows
        /\ seen'.trail = seen.trail
    BY <1>2, <1>5 DEF ListTruths, Query, Read, ReporterTypeOK
  <2> QED BY <2>1 DEF ReportInv
<1>6. CASE ReturnReport
  BY <1>6 DEF ReturnReport, ReportInv, NothingSeen
<1> QED BY <1>3, <1>4, <1>5, <1>6 DEF Reporting, ReportStep

\* Unless it is forced, seed touches the trail no more than the others do.
LEMMA UnforcedKept ==
  ASSUME Unforced, CommandsInv, UnforcedInv, [CommandsNext]_allVars
  PROVE  UnforcedInv'
<1> USE DEF storeVars
<1>1. PICK F : F = Failures
  OBVIOUS
<1>2. Held(F)
  BY <1>1 DEF CommandsInv
<1>3. CASE Run
  <2>1. PICK p \in Procs : StartRun(p) \/ Step(p) \/ Crash(p)
    BY <1>3 DEF Run
  <2>2. UNCHANGED <<spc, rpc, seen>>
    BY <1>3 DEF Run, seederVars, reporterVars
  <2>3. TrailInv'
    BY <1>2, <2>1, TrailStepKept DEF UnforcedInv
  <2>4. audit \subseteq audit'
    BY <2>1, OneEvent DEF Append
  <2> QED BY <2>2, <2>3, <2>4, ReportStays DEF UnforcedInv
<1>4. CASE Detecting \/ Seeding \/ Reporting \/ Die
  <2>1. /\ UNCHANGED <<audit, pc, runVars, caseVars>>
        /\ spc' \notin {"drop", "delete"}
        /\ Reporting \/ UNCHANGED <<rpc, seen>>
    BY <1>4 DEF UnforcedInv, Unforced,
            Detecting, FailPayment, ListPayments, DetectStep, ReadRow, RejectForeign, WriteRow,
            ReturnDetect,
            Seeding, StartSeed, SeedStep, DropTrail, DeleteRows, SeedCase, SeedTruth, RecordBatch,
            Reporting, ListRows, ReportStep, ListTrail, ListTruths, Query, ReturnReport,
            Die, DieDetecting, DieSeeding, runnerVars, seederVars, reporterVars
  <2>2. RowsBacked' /\ TrailInv'
    BY <1>4, <2>1, OpenRowsAside, TrailAside DEF UnforcedInv, TrailInv
  <2>3. ReportInv'
    BY <2>1, ReportReads, ReportStays DEF UnforcedInv, TrailInv
  <2> QED BY <2>1, <2>2, <2>3 DEF UnforcedInv
<1>5. CASE UNCHANGED allVars
  <2>1. UNCHANGED <<cases, audit, pc, runVars, caseVars, spc, rpc, seen>>
    BY <1>5 DEF allVars, vars, seederVars, reporterVars
  <2>2. TrailInv' /\ ReportInv'
    BY <2>1, TrailAside, ReportStays DEF UnforcedInv
  <2> QED BY <2>1, <2>2 DEF UnforcedInv
<1> QED BY <1>3, <1>4, <1>5 DEF CommandsNext, Rest

\* Without --force the trail backs every copy, whatever the commands overlap.
THEOREM UnforcedInvariant == ASSUME Unforced PROVE CommandsSpec => []UnforcedInv
<1>1. CommandsInit => UnforcedInv
  <2> SUFFICES ASSUME CommandsInit PROVE UnforcedInv
    OBVIOUS
  <2>1. /\ cases = [c \in Cases |-> NoCase] /\ audit = {} /\ pc = [p \in Procs |-> "idle"]
        /\ spc = "idle" /\ seen = NothingSeen
    BY DEF CommandsInit, Fresh, SeederInit, ReporterInit
  <2>2. RowsBacked /\ TrailExplainsOutcome /\ \A p \in Procs : TrailOK(p)
    BY <2>1 DEF RowsBacked, Rows, TrailExplainsOutcome, TrailOK, VerdictOK, ResultOK
  <2> QED BY <2>1, <2>2 DEF UnforcedInv, TrailInv, ReportInv, NothingSeen
<1> QED BY <1>1, UnforcedKept, CommandsInvariant, PTL DEF CommandsSpec

\* Beside detect and seed too, an ended row has the audit rows that justify it.
THEOREM StatusStaysBacked == ASSUME Unforced PROVE CommandsSpec => []StatusBackedByTrail
<1>1. CommandsInv /\ UnforcedInv => StatusBackedByTrail
  BY BackedRows DEF CommandsInv, UnforcedInv, Held, TrailInv
<1> QED BY <1>1, CommandsInvariant, UnforcedInvariant, PTL

\* report's two ways to count recoveries agree, while runs go on between its reads.
THEOREM ReportAgrees == ASSUME Unforced PROVE CommandsSpec => []RecoveriesAgree
<1>1. CommandsInv /\ UnforcedInv => RecoveriesAgree
  <2> SUFFICES ASSUME CommandsInv, UnforcedInv, rpc = "built" PROVE RecoveriesAgree
    BY DEF RecoveriesAgree
  <2>1. \A c \in Reported : seen.rows[c].status = "recovered" => c \in PaidIds
    <3> SUFFICES ASSUME NEW c \in Reported, seen.rows[c].status = "recovered"
                 PROVE  c \in PaidIds
      OBVIOUS
    <3>1. c \in Cases /\ seen.rows[c].case_id = c /\ Justified(seen.rows[c], seen.trail)
      BY DEF CommandsInv, SeenOK, CopyOf, UnforcedInv, ReportInv, Reported
    <3> QED BY <3>1 DEF Justified, PaidIds, InTrail
  <2>2. \A c \in Reported : ReportOutcome(c) = "recovered" <=> c \in PaidIds
    BY <2>1 DEF ReportOutcome
  <2>3. {c \in Reported : ReportOutcome(c) = "recovered"} = RecoveredCases
    BY <2>2 DEF RecoveredCases, Reported
  <2>4. ASSUME NEW c \in Reported
        PROVE  \/ c \in RecoveredCases \/ c \in ExceptionList \/ c \in PolicyStopList
               \/ c \in WithStatus("escalated") \/ c \in WithStatus("exhausted")
    BY <2>1 DEF RecoveredCases, ExceptionList, PolicyStopList, WithStatus, Terminal
  <2>5. /\ RecoveredCases \subseteq Reported /\ ExceptionList \subseteq Reported
        /\ PolicyStopList \subseteq Reported
        /\ WithStatus("escalated") \subseteq Reported /\ WithStatus("exhausted") \subseteq Reported
    BY DEF RecoveredCases, ExceptionList, PolicyStopList, WithStatus
  <2> QED BY <2>3, <2>4, <2>5 DEF RecoveriesAgree
<1> QED BY <1>1, CommandsInvariant, UnforcedInvariant, PTL

-----------------------------------------------------------------------------
(* Without --force: what the trail counts.                                  *)

\* Beside the runs nothing is attempted, asked of Razorpay or taken off the trail.
LEMMA BesideRuns ==
  ASSUME Unforced, CommandsInv, UnforcedInv,
         Detecting \/ Seeding \/ Reporting \/ Die \/ UNCHANGED allVars
  PROVE  /\ UNCHANGED <<audit, razorpayVars, pc, runVars, caseVars>>
         /\ crashes' \in {crashes, crashes + 1} /\ crashes \in Nat
<1>1. crashes \in Nat
  BY RunnerAssumption DEF CommandsInv, CommandsTypeOK, TypeOK
<1> QED BY <1>1
        DEF UnforcedInv, allVars, vars, storeVars,
            Detecting, FailPayment, ListPayments, DetectStep, ReadRow, RejectForeign, WriteRow,
            ReturnDetect,
            Seeding, StartSeed, SeedStep, DropTrail, DeleteRows, SeedCase, SeedTruth, RecordBatch,
            Reporting, ListRows, ReportStep, ListTrail, ListTruths, Query, ReturnReport,
            Die, DieDetecting, DieSeeding, runnerVars

\* The books of the runs balance beside detect, seed and report too.
THEOREM BooksBalance == ASSUME Unforced PROVE CommandsSpec => [](AnswerInv /\ CountInv)
<1>1. CommandsInit => AnswerInv /\ CountInv
  <2> SUFFICES ASSUME CommandsInit PROVE AnswerInv /\ CountInv
    OBVIOUS
  <2>1. /\ audit = {} /\ crashes = 0 /\ pc = [p \in Procs |-> "idle"]
        /\ created = [c \in Cases |-> 0] /\ notified = [c \in Cases |-> 0]
    BY DEF CommandsInit, Fresh, RazorpayInit
  <2>2. IsFiniteSet({}) /\ Cardinality({}) = 0
    BY FS_EmptySet
  <2>3. InFlight = {} /\ Unanswered = {}
    BY <2>1 DEF InFlight, Unanswered
  <2>4. \A p \in Procs : OwnRows(p)
    BY <2>1 DEF OwnRows
  <2>5. AnswerInv
    BY <2>1, <2>2, <2>3, <2>4 DEF AnswerInv
  <2>6. ASSUME NEW c \in Cases, NEW type \in Contacts PROVE CountOK(c, type)
    <3>1. Attempts(c, type) = {} /\ Trying(c, type) = {} /\ Made(c, type) = 0
      BY <2>1 DEF Attempts, EventsOf, Trying, Made
    <3> QED BY <2>2, <3>1 DEF CountOK
  <2> QED BY <2>5, <2>6 DEF CountInv
<1>2. CommandsInv /\ UnforcedInv /\ AnswerInv /\ CountInv /\ [CommandsNext]_allVars =>
        AnswerInv' /\ CountInv'
  <2> SUFFICES ASSUME CommandsInv, UnforcedInv, AnswerInv, CountInv, [CommandsNext]_allVars
               PROVE  AnswerInv' /\ CountInv'
    OBVIOUS
  <2>1. PICK F : Held(F)
    BY DEF CommandsInv
  <2>2. CASE Run
    <3>1. PICK p \in Procs : StartRun(p) \/ Step(p) \/ Crash(p)
      BY <2>2 DEF Run
    <3> QED BY <2>1, <3>1, AnswerStepKept, CountStepKept
  <2>3. CASE Detecting \/ Seeding \/ Reporting \/ Die \/ UNCHANGED allVars
    <3>1. /\ UNCHANGED <<audit, razorpayVars, pc, runVars, caseVars>>
          /\ crashes' \in {crashes, crashes + 1} /\ crashes \in Nat
      BY <2>3, BesideRuns
    <3> QED BY <3>1, AnswerAside, CountAside
  <2> QED BY <2>2, <2>3 DEF CommandsNext, Rest
<1> QED BY <1>1, <1>2, CommandsInvariant, UnforcedInvariant, PTL DEF CommandsSpec

\* Every link made and reminder sent is among the attempts that report counts.
THEOREM ContactsStayCounted == ASSUME Unforced PROVE CommandsSpec => []ContactsAreCounted
<1>1. CommandsInv /\ CountInv => ContactsAreCounted
  <2> SUFFICES ASSUME CommandsInv, CountInv, NEW c \in Cases
               PROVE  /\ created[c] <= ActionCount(EventsOf(c), "issue_link")
                      /\ notified[c] <= ActionCount(EventsOf(c), "remind")
    BY DEF ContactsAreCounted
  <2>1. created[c] \in Nat /\ notified[c] \in Nat
    BY DEF CommandsInv, CommandsTypeOK, TypeOK, RazorpayTypeOK
  <2>2. ASSUME NEW type \in Contacts
        PROVE  /\ Cardinality(Attempts(c, type)) \in Nat /\ Cardinality(Trying(c, type)) \in Nat
               /\ Made(c, type) + Cardinality(Trying(c, type)) <= Cardinality(Attempts(c, type))
               /\ ActionCount(EventsOf(c), type) = Cardinality(Attempts(c, type))
    BY FS_CardinalityType DEF CountInv, CountOK, ActionCount, Attempts
  <2>3. "issue_link" \in Contacts /\ "remind" \in Contacts
        /\ Made(c, "issue_link") = created[c] /\ Made(c, "remind") = notified[c]
    BY DEF Contacts, Made
  <2>4. created[c] <= ActionCount(EventsOf(c), "issue_link")
    BY <2>1, <2>2, <2>3
  <2>5. notified[c] <= ActionCount(EventsOf(c), "remind")
    BY <2>1, <2>2, <2>3
  <2> QED BY <2>4, <2>5
<1> QED BY <1>1, CommandsInvariant, BooksBalance, PTL

\* An attempt without its result is in flight or died, beside detect, seed and
\* report as well.
THEOREM AttemptsStayAnswered == ASSUME Unforced PROVE CommandsSpec => []AttemptsAnswered
<1>1. AnswerInv => AttemptsAnswered
  BY DEF AnswerInv, AttemptsAnswered, Unanswered, ResultsOf, InFlight
<1> QED BY <1>1, BooksBalance, PTL

-----------------------------------------------------------------------------
(* The commands that write take turns: what is in memory is in the rows.    *)

\* A process that makes a step is not idle.
LEMMA BusySteps ==
  ASSUME NEW F, Held(F), NEW p \in Procs, Step(p) \/ Crash(p)
  PROVE  pc[p] # "idle"
BY DEF Step, Turn, EndOfTurn, SkipTerminal, OpenCase, LogDetected, Return, Crash, Diagnose,
       LogVerdict, LogAttempt, RefuseKilled, ExecuteLocally, ExecuteInjected, ExecuteCreate,
       ExecuteNotify, Save, LogResult, StopKilled, ParkFailed, AskCustomer, NoCustomer,
       SaveAnswer, CloseCase, NextTurn, ParkExpired, Go

\* Who runs, runs alone.
LEMMA RunsAlone ==
  ASSUME OneAtATime, OneAtATime', NEW F, Held(F), NEW p \in Procs,
         StartRun(p) \/ Step(p) \/ Crash(p), UNCHANGED <<dpc, spc>>
  PROVE  Alone(p) /\ dpc = "idle" /\ spc = "idle"
<1>1. CASE StartRun(p)
  <2>1. pc'[p] = "next" /\ \A q \in Procs \ {p} : pc'[q] = pc[q]
    BY <1>1 DEF StartRun, Go, Held, TypeOK
  <2> QED BY <2>1 DEF OneAtATime, Alone
<1>2. CASE Step(p) \/ Crash(p)
  BY <1>2, BusySteps DEF OneAtATime
<1> QED BY <1>1, <1>2

\* The run command: its step is one of a process alone.
LEMMA RunTurns ==
  ASSUME CommandsInv, TurnsInv, OneAtATime', Run
  PROVE  /\ TurnsInv'
         /\ UNCHANGED cases \/ \E c \in Rows : Open(cases[c]) /\ Raises(c)
         /\ \A c \in Cases : cases[c] # NoCase => cases'[c] # NoCase
<1>1. PICK F : F = Failures
  OBVIOUS
<1>2. Held(F)
  BY <1>1 DEF CommandsInv
<1>3. PICK p \in Procs : StartRun(p) \/ Step(p) \/ Crash(p)
  BY DEF Run
<1>4. Alone(p) /\ dpc = "idle" /\ spc = "idle"
  BY <1>2, <1>3, RunsAlone DEF TurnsInv, Run, detectorVars, seederVars
<1>5. /\ SoloInv'
      /\ UNCHANGED cases \/ \E c \in Rows : Open(cases[c]) /\ Raises(c)
  BY <1>2, <1>3, <1>4, SoloStepKept DEF TurnsInv
<1>6. \A c \in Cases : cases[c] # NoCase => cases'[c] # NoCase
  BY <1>2, <1>3, RowsRemain
<1>7. dpc' = "idle"
  BY <1>4 DEF Run, detectorVars
<1> QED BY <1>5, <1>6, <1>7 DEF TurnsInv

\* While no run is at work, only the rows have to wait first.
LEMMA NobodyRuns ==
  ASSUME TurnsInv, \A p \in Procs : pc[p] = "idle", UNCHANGED <<pc, todo>>, RowsWaitFirst'
  PROVE  SoloInv'
<1>1. \A p \in Procs : pc'[p] = "idle" /\ todo'[p] = {}
  BY DEF TurnsInv, SoloInv, SoloOK
<1> QED BY <1>1 DEF SoloInv, SoloOK, InStep

\* A new row has no link to have waited for.
LEMMA NewRowWaits ==
  ASSUME CommandsInv, NEW c \in Payments \cup Batch
  PROVE  WaitsFirst(NewCase(c, Failures[c]))
<1>1. NewCase(c, Failures[c]).link_count = 0
  BY DEF NewCase
<1> QED BY <1>1 DEF WaitsFirst

\* Writing a case that waits first keeps it so for all.
LEMMA WaitingUpsert ==
  ASSUME RowsWaitFirst, StoreTypeOK, NEW new, WaitsFirst(new), Upsert(new)
  PROVE  RowsWaitFirst'
<1> SUFFICES ASSUME NEW c \in Cases, cases'[c] # NoCase PROVE WaitsFirst(cases'[c])
  BY DEF RowsWaitFirst, Rows
<1>1. cases'[c] = cases[c] \/ cases'[c] = new
  BY DEF Upsert, StoreTypeOK
<1> QED BY <1>1 DEF RowsWaitFirst, Rows

\* A detect that nothing overlaps writes each row back as it is, or a new one.
LEMMA DetectTurns ==
  ASSUME CommandsInv, TurnsInv, OneAtATime', Detecting
  PROVE  TurnsInv' /\ \A c \in Rows : cases'[c] = cases[c]
<1> USE DEF storeVars
<1>1. PICK F : F = Failures
  OBVIOUS
<1>2. Held(F) /\ StoreTypeOK /\ DetectorTypeOK
  BY <1>1 DEF CommandsInv, CommandsTypeOK, TypeOK
<1>3. UNCHANGED <<pc, todo, snap, cur, step, action, result, spc>>
  BY DEF Detecting, runnerVars, runVars, caseVars, seederVars
<1>4. CASE FailPayment
  <2>1. UNCHANGED <<cases, dpc, merging>>
    BY <1>4 DEF FailPayment
  <2> QED BY <1>3, <2>1 DEF TurnsInv, OneAtATime, Alone, SoloInv, RowsWaitFirst, Rows, SoloOK,
                            InStep, Row
<1>5. CASE ~FailPayment
  <2>1. ListPayments \/ DetectStep
    BY <1>5 DEF Detecting
  <2>2. (\A p \in Procs : pc[p] = "idle") /\ spc = "idle"
    <3>1. CASE ListPayments
      BY <1>3, <3>1 DEF ListPayments, OneAtATime
    <3>2. CASE DetectStep
      BY <3>2 DEF DetectStep, ReadRow, RejectForeign, WriteRow, ReturnDetect, TurnsInv, OneAtATime
    <3> QED BY <2>1, <3>1, <3>2
  <2>3. CASE WriteRow
    <3>1. PICK new : new = Merged(merging.id, merging.row, payments[merging.id])
      OBVIOUS
    <3>2. /\ merging.id \in Cases /\ new.case_id = merging.id
          /\ merging.row = NoCase => new = NewCase(merging.id, F[merging.id])
          /\ merging.row # NoCase => new = merging.row
          /\ Upsert(new) /\ merging.row = cases[merging.id] /\ dpc' = "read"
          /\ merging.id \in Payments
      BY <1>1, <2>3, <3>1, MergedRow DEF WriteRow, TurnsInv, CommandsInv, MergeOK
    <3>3. WaitsFirst(new)
      BY <1>1, <3>2, NewRowWaits DEF TurnsInv, SoloInv, RowsWaitFirst, Rows
    <3>4. RowsWaitFirst'
      BY <1>2, <3>2, <3>3, WaitingUpsert DEF TurnsInv, SoloInv
    <3>5. \A c \in Rows : cases'[c] = cases[c]
      BY <1>2, <3>2 DEF Upsert, Rows, StoreTypeOK
    <3>6. SoloInv'
      BY <1>3, <2>2, <3>4, NobodyRuns
    <3> QED BY <3>2, <3>5, <3>6 DEF TurnsInv
  <2>4. CASE ~WriteRow
    <3>1. UNCHANGED cases /\ (dpc' = "write" => merging'.row = cases[merging'.id])
      BY <2>1, <2>4 DEF ListPayments, DetectStep, ReadRow, RejectForeign, ReturnDetect
    <3>2. RowsWaitFirst'
      BY <3>1 DEF TurnsInv, SoloInv, RowsWaitFirst, Rows
    <3>3. SoloInv'
      BY <1>3, <2>2, <3>2, NobodyRuns
    <3> QED BY <3>1, <3>3 DEF TurnsInv
  <2> QED BY <2>3, <2>4
<1> QED BY <1>4, <1>5

\* A seed that nothing overlaps is its own turn: each of its steps shows.
LEMMA SeedTurns ==
  ASSUME CommandsInv, TurnsInv, OneAtATime', Seeding
  PROVE  TurnsInv' /\ spc' # spc
<1> USE DEF storeVars
<1>1. PICK F : F = Failures
  OBVIOUS
<1>2. StoreTypeOK /\ SeederTypeOK
  BY DEF CommandsInv, CommandsTypeOK, TypeOK
<1>3. UNCHANGED <<pc, todo, dpc, merging>>
  BY DEF Seeding, runnerVars, runVars, detectorVars
<1>4. (\A p \in Procs : pc[p] = "idle") /\ dpc = "idle"
  <2>1. CASE StartSeed
    BY <1>3, <2>1 DEF StartSeed, OneAtATime
  <2>2. CASE SeedStep
    BY <2>2 DEF SeedStep, DropTrail, DeleteRows, SeedCase, SeedTruth, RecordBatch, TurnsInv,
                OneAtATime
  <2> QED BY <2>1, <2>2 DEF Seeding
<1>5. spc' # spc
  BY DEF Seeding, StartSeed, SeedStep, DropTrail, DeleteRows, SeedCase, SeedTruth, RecordBatch
<1>6. RowsWaitFirst'
  <2>1. CASE SeedCase
    <3>1. PICK c \in left : Upsert(NewCase(c, batch[c].failure))
      BY <2>1 DEF SeedCase
    <3>2. c \in Batch /\ Upsert(NewCase(c, F[c]))
      BY <1>1, <1>2, <3>1, NewRow DEF SeederTypeOK
    <3>3. WaitsFirst(NewCase(c, F[c]))
      BY <1>1, <3>2, NewRowWaits
    <3> QED BY <1>2, <3>2, <3>3, WaitingUpsert DEF TurnsInv, SoloInv
  <2>2. CASE DeleteRows
    BY <2>2 DEF DeleteRows, RowsWaitFirst, Rows
  <2>3. CASE UNCHANGED cases
    BY <2>3 DEF TurnsInv, SoloInv, RowsWaitFirst, Rows
  <2> QED BY <2>1, <2>2, <2>3
          DEF Seeding, StartSeed, SeedStep, DropTrail, SeedTruth, RecordBatch
<1>7. SoloInv'
  BY <1>3, <1>4, <1>6, NobodyRuns
<1> QED BY <1>3, <1>4, <1>5, <1>7 DEF TurnsInv

\* Reading a report, dying and resting leave rows and memories alone.
LEMMA OthersTurn ==
  ASSUME TurnsInv, Reporting \/ Die \/ UNCHANGED allVars
  PROVE  TurnsInv' /\ UNCHANGED cases
<1>1. /\ UNCHANGED <<cases, pc, todo, snap, cur, step, action, result>>
      /\ dpc' = "idle" \/ UNCHANGED <<dpc, merging>>
      /\ spc' = "idle" \/ UNCHANGED spc
  BY DEF Reporting, ListRows, ReportStep, ListTrail, ListTruths, Query, ReturnReport,
         Die, DieDetecting, DieSeeding, allVars, vars, storeVars, runnerVars, detectorVars,
         seederVars, runVars, caseVars
<1>2. OneAtATime'
  BY <1>1 DEF TurnsInv, OneAtATime, Alone
<1>3. SoloInv'
  BY <1>1 DEF TurnsInv, SoloInv, RowsWaitFirst, Rows, SoloOK, InStep, Row
<1> QED BY <1>1, <1>2, <1>3 DEF TurnsInv

\* Nothing but a move of the ladder is made of a row, unless seed makes it.
LEMMA TurnsKept ==
  ASSUME CommandsInv, TurnsInv, OneAtATime', [CommandsNext]_allVars
  PROVE  /\ TurnsInv'
         /\ \/ spc' # spc
            \/ \A c \in Rows : cases'[c] = cases[c]
            \/ \E c \in Rows : Open(cases[c]) /\ Raises(c) /\ cases'[c] # NoCase
<1>1. CASE Run
  BY <1>1, RunTurns DEF Rows
<1>2. CASE Detecting
  BY <1>2, DetectTurns
<1>3. CASE Seeding
  BY <1>3, SeedTurns
<1>4. CASE Reporting \/ Die \/ UNCHANGED allVars
  BY <1>4, OthersTurn
<1> QED BY <1>1, <1>2, <1>3, <1>4 DEF CommandsNext, Rest

\* Commands that take turns find in memory what is in the rows, however each of
\* them ended.
THEOREM TurnsInvariant == CommandsSpec /\ []OneAtATime => []TurnsInv
<1>1. CommandsInit => TurnsInv
  <2> SUFFICES ASSUME CommandsInit PROVE TurnsInv
    OBVIOUS
  <2>1. /\ cases = [c \in Cases |-> NoCase] /\ pc = [p \in Procs |-> "idle"]
        /\ todo = [p \in Procs |-> {}] /\ dpc = "idle" /\ spc = "idle"
    BY DEF CommandsInit, Fresh, DetectorInit, SeederInit
  <2>2. RowsWaitFirst
    BY <2>1 DEF RowsWaitFirst, Rows
  <2> QED BY <2>1, <2>2, IdleInStep DEF TurnsInv, OneAtATime, SoloInv
<1> QED BY <1>1, TurnsKept, CommandsInvariant, PTL DEF CommandsSpec

\* detect and run, one after the other and however they die, take no row back.
THEOREM SeedAloneTakesBack == CommandsSpec /\ []OneAtATime => OnlySeedTakesBack
<1>0. CommandsInv' => CommandsTypeOK' /\ RowsStayWellFormed'
  BY CommandsSafe, PTL
<1>1. ASSUME CommandsInv, CommandsInv', TurnsInv, OneAtATime', [CommandsNext]_allVars,
             spc = spc', NEW c \in Rows
      PROVE  /\ cases'[c] # NoCase
             /\ cases[c].link_count <= cases'[c].link_count
             /\ cases[c].reminder_count <= cases'[c].reminder_count
             /\ cases[c].opted_out => cases'[c].opted_out
             /\ cases[c].wait_completed => cases'[c].wait_completed
             /\ cases[c].status \in Terminal => cases'[c] = cases[c]
  <2>2. /\ StoreTypeOK /\ c \in Cases /\ cases[c] # NoCase
        /\ RowsStayWellFormed /\ RowsStayWellFormed'
        /\ StoreTypeOK'
    BY <1>0, <1>1, CommandsSafe DEF CommandsTypeOK, TypeOK, Rows
  <2>3. \/ cases'[c] = cases[c]
        \/ \E d \in Rows : Open(cases[d]) /\ Raises(d) /\ cases'[d] # NoCase
    BY <1>1, TurnsKept
  <2>4. CASE cases'[c] = cases[c]
    <3>1. cases[c] \in Case
      BY <2>2 DEF StoreTypeOK
    <3> QED BY <2>2, <2>4, <3>1 DEF Case
  <2>5. CASE cases'[c] # cases[c]
    <3>1. PICK d \in Rows : Open(cases[d]) /\ Raises(d) /\ cases'[d] # NoCase
      BY <2>3, <2>5
    <3>2. c = d /\ Open(cases[c]) /\ Rises(RungOf(cases[c]), RungOf(cases'[c])) /\ cases'[c] # NoCase
      BY <2>2, <2>5, <3>1 DEF Raises, Rows
    <3>3. /\ cases[c] \in Case /\ Shape(cases[c])
          /\ cases'[c] \in Case /\ Shape(cases'[c])
      BY <2>2, <3>2 DEF StoreTypeOK, RowsStayWellFormed, Rows
    <3> QED BY <2>2, <3>2, <3>3, RisesAdvance DEF Open
  <2> QED BY <2>4, <2>5
<1>2. CommandsInv /\ CommandsInv' /\ TurnsInv /\ OneAtATime' /\ [CommandsNext]_allVars =>
        [spc = spc' =>
           \A c \in Rows :
             /\ cases'[c] # NoCase
             /\ cases[c].link_count <= cases'[c].link_count
             /\ cases[c].reminder_count <= cases'[c].reminder_count
             /\ cases[c].opted_out => cases'[c].opted_out
             /\ cases[c].wait_completed => cases'[c].wait_completed
             /\ cases[c].status \in Terminal => cases'[c] = cases[c]]_allVars
  BY <1>1
<1> QED BY <1>2, CommandsInvariant, TurnsInvariant, PTL DEF CommandsSpec, OnlySeedTakesBack

\* An operator who starts a command only when no other is at work is orderly,
\* so every theorem about turns holds of him.
THEOREM SerialIsOrderly == ASSUME Serial PROVE CommandsSpec => []Orderly
<1> DEFINE Still == rpc # "idle" => dpc = "idle" /\ \A p \in Procs : pc[p] = "idle"
<1>1. CommandsInit => Orderly /\ Still
  BY DEF CommandsInit, Fresh, DetectorInit, SeederInit, ReporterInit, Orderly, OneAtATime
<1>2. CommandsInv /\ Orderly /\ Still /\ [CommandsNext]_allVars => Orderly' /\ Still'
  <2> SUFFICES ASSUME CommandsInv, Orderly, Still, [CommandsNext]_allVars
               PROVE  Orderly' /\ Still'
    OBVIOUS
  <2>1. PICK F : F = Failures
    OBVIOUS
  <2>2. Held(F)
    BY <2>1 DEF CommandsInv
  <2>3. CASE Run
    <3>1. PICK p \in Procs : (MayStart /\ StartRun(p)) \/ Step(p) \/ Crash(p)
      BY <2>3 DEF Run
    <3>2. Alone(p) /\ dpc = "idle" /\ spc = "idle" /\ rpc = "idle"
      <4>1. CASE MayStart /\ StartRun(p)
        BY <4>1 DEF MayStart, Idle, Alone
      <4>2. CASE Step(p) \/ Crash(p)
        BY <2>2, <4>2, BusySteps DEF Orderly, OneAtATime
      <4> QED BY <3>1, <4>1, <4>2
    <3>3. \A q \in Procs \ {p} : pc'[q] = "idle"
      BY <2>2, <3>1, <3>2, OthersRest DEF Alone
    <3>4. dpc' = "idle" /\ spc' = "idle" /\ rpc' = "idle"
      BY <2>3, <3>2 DEF Run, detectorVars, seederVars, reporterVars
    <3> QED BY <3>3, <3>4 DEF Orderly, OneAtATime, Alone
  <2>4. CASE Detecting
    <3>1. UNCHANGED <<pc, spc, rpc>>
      BY <2>4 DEF Detecting, runnerVars, seederVars, reporterVars
    <3>2. \/ dpc' = dpc
          \/ (\A p \in Procs : pc[p] = "idle") /\ spc = "idle" /\ rpc = "idle"
      BY <2>4 DEF Detecting, FailPayment, ListPayments, MayStart, Idle, DetectStep, ReadRow,
                  RejectForeign, WriteRow, ReturnDetect, Orderly, OneAtATime
    <3> QED BY <3>1, <3>2 DEF Orderly, OneAtATime, Alone
  <2>5. CASE Seeding
    <3>1. UNCHANGED <<pc, dpc, rpc>>
      BY <2>5 DEF Seeding, runnerVars, detectorVars, reporterVars
    <3>2. (\A p \in Procs : pc[p] = "idle") /\ dpc = "idle" /\ rpc = "idle"
      BY <2>5 DEF Seeding, StartSeed, MayStart, Idle, SeedStep, DropTrail, DeleteRows, SeedCase,
                  SeedTruth, RecordBatch, Orderly, OneAtATime
    <3> QED BY <3>1, <3>2 DEF Orderly, OneAtATime
  <2>6. CASE Reporting
    <3>1. UNCHANGED <<pc, dpc, spc>>
      BY <2>6 DEF Reporting, runnerVars, detectorVars, seederVars
    <3>2. (\A p \in Procs : pc[p] = "idle") /\ dpc = "idle" /\ spc = "idle"
      BY <2>6 DEF Reporting, ListRows, MayStart, Idle, ReportStep, ListTrail, ListTruths, Query,
                  ReturnReport, Orderly
    <3> QED BY <3>1, <3>2 DEF Orderly, OneAtATime
  <2>7. CASE Die \/ UNCHANGED allVars
    <3>1. /\ UNCHANGED <<pc, rpc>>
          /\ dpc' \in {"idle", dpc} /\ spc' \in {"idle", spc}
      BY <2>7 DEF Die, DieDetecting, DieSeeding, reporterVars, allVars, vars, detectorVars,
                  seederVars
    <3> QED BY <3>1 DEF Orderly, OneAtATime, Alone
  <2> QED BY <2>3, <2>4, <2>5, <2>6, <2>7 DEF CommandsNext, Rest
<1> QED BY <1>1, <1>2, CommandsInvariant, PTL DEF CommandsSpec

-----------------------------------------------------------------------------
(* They take turns, and none dies: no end goes without its audit row.       *)

\* Only a forced seed takes audit rows away, and the rows go with them.
LEMMA AuditedKept ==
  ASSUME CommandsInv, TurnsInv, OneAtATime', AuditedInv, [CommandsNext]_allVars
  PROVE  AuditedInv'
<1> USE DEF storeVars
<1>1. PICK F : F = Failures
  OBVIOUS
<1>2. Held(F) /\ crashes \in Nat
  BY <1>1, RunnerAssumption DEF CommandsInv, Held, TypeOK
<1>3. CASE Run
  <2>1. PICK p \in Procs : StartRun(p) \/ Step(p) \/ Crash(p)
    BY <1>3 DEF Run
  <2>2. spc = "idle" /\ spc' = "idle"
    BY <1>2, <1>3, <2>1, RunsAlone DEF TurnsInv, Run, detectorVars, seederVars
  <2>3. crashes' = 0 => crashes = 0
    BY <1>2, <2>1
       DEF StartRun, Crash, Step, Turn, EndOfTurn, SkipTerminal, OpenCase, LogDetected, Return,
           Diagnose, LogVerdict, LogAttempt, RefuseKilled, ExecuteLocally, ExecuteInjected,
           ExecuteCreate, ExecuteNotify, Save, LogResult, StopKilled, ParkFailed, AskCustomer,
           NoCustomer, SaveAnswer, CloseCase, NextTurn, ParkExpired
  <2>4. TrailInv => TrailInv'
    BY <1>2, <2>1, TrailStepKept
  <2> QED BY <2>2, <2>3, <2>4 DEF AuditedInv
<1>4. CASE Seeding /\ DropTrail
  BY <1>4 DEF DropTrail, AuditedInv
<1>5. CASE Seeding /\ DeleteRows
  <2>1. /\ spc = "delete" /\ spc' = "case" /\ audit = {} /\ audit' = {}
        /\ cases' = [c \in Cases |-> NoCase] /\ UNCHANGED pc
    BY <1>5 DEF Seeding, DeleteRows, AuditedInv, runnerVars
  <2>2. \A p \in Procs : pc'[p] = "idle"
    BY <2>1 DEF TurnsInv, OneAtATime
  <2>3. RowsBacked' /\ TrailExplainsOutcome' /\ \A p \in Procs : TrailOK(p)'
    BY <2>1, <2>2 DEF RowsBacked, Rows, TrailExplainsOutcome, TrailOK, VerdictOK, ResultOK
  <2> QED BY <2>1, <2>3 DEF AuditedInv, TrailInv
<1>6. CASE Detecting \/ (Seeding /\ ~DropTrail /\ ~DeleteRows) \/ Reporting \/ Die
  <2>1. /\ UNCHANGED <<audit, pc, runVars, caseVars>>
        /\ spc' = "delete" => spc = "delete"
        /\ spc = "delete" /\ spc' # "delete" => crashes' # 0
        /\ crashes' \in {crashes, crashes + 1}
    BY <1>2, <1>6
       DEF Detecting, FailPayment, ListPayments, DetectStep, ReadRow, RejectForeign, WriteRow,
           ReturnDetect, Seeding, StartSeed, SeedStep, SeedCase, SeedTruth, RecordBatch,
           Reporting, ListRows, ReportStep, ListTrail, ListTruths, Query, ReturnReport,
           Die, DieDetecting, DieSeeding, runnerVars, seederVars, reporterVars
  <2>2. TrailInv => TrailInv'
    BY <1>6, <2>1, OpenRowsAside, TrailAside DEF TrailInv
  <2>3. crashes' = 0 => crashes = 0
    BY <1>2, <2>1
  <2> QED BY <2>1, <2>2, <2>3 DEF AuditedInv
<1>7. CASE UNCHANGED allVars
  <2>1. UNCHANGED <<cases, audit, pc, runVars, caseVars, spc, crashes>>
    BY <1>7 DEF allVars, vars, seederVars
  <2>2. TrailInv => TrailInv'
    BY <2>1, TrailAside
  <2> QED BY <2>1, <2>2 DEF AuditedInv
<1> QED BY <1>3, <1>4, <1>5, <1>6, <1>7 DEF CommandsNext, Rest

\* Commands that follow one another and do not die leave no ended row without
\* the verdict that ended it, also when seed wipes trail and rows in two commits.
THEOREM EndsStayAudited == CommandsSpec /\ []OneAtATime => []EndsAreAudited
<1>1. CommandsInit => AuditedInv
  <2> SUFFICES ASSUME CommandsInit PROVE AuditedInv
    OBVIOUS
  <2>1. /\ cases = [c \in Cases |-> NoCase] /\ audit = {} /\ pc = [p \in Procs |-> "idle"]
        /\ spc = "idle"
    BY DEF CommandsInit, Fresh, SeederInit
  <2>2. RowsBacked /\ TrailExplainsOutcome /\ \A p \in Procs : TrailOK(p)
    BY <2>1 DEF RowsBacked, Rows, TrailExplainsOutcome, TrailOK, VerdictOK, ResultOK
  <2> QED BY <2>1, <2>2 DEF AuditedInv, TrailInv
<1>2. CommandsInv /\ AuditedInv => EndsAreAudited
  BY BackedRows DEF CommandsInv, Held, AuditedInv, TrailInv, EndsAreAudited
<1> QED BY <1>1, <1>2, AuditedKept, CommandsInvariant, TurnsInvariant, PTL DEF CommandsSpec

-----------------------------------------------------------------------------
(* They take turns, and no seed overlaps a report: what a human is told.    *)

\* Only a diagnosis and a verdict for a human are findings.
LEMMA FindingsGrow ==
  ASSUME NEW F, Held(F), NEW p \in Procs, StartRun(p) \/ Step(p) \/ Crash(p), NEW c,
         c = cur[p].case_id => ~Diagnose(p) /\ ~LogVerdict(p)
  PROVE  Diagnosed(c, audit') = Diagnosed(c, audit) /\ Ruled(c, audit') = Ruled(c, audit)
<1>1. ASSUME NEW e, Append(e),
             \/ e.case_id # c
             \/ e.event_type \notin {"diagnosis_completed", "policy_verdict"}
             \/ e.what = "already_terminal" /\ e.event_type = "policy_verdict"
      PROVE  Diagnosed(c, audit') = Diagnosed(c, audit) /\ Ruled(c, audit') = Ruled(c, audit)
  BY <1>1 DEF Append, Diagnosed, Ruled, EscalateRationales
<1>2. CASE UNCHANGED audit
  BY <1>2
<1>3. CASE SkipTerminal(p)
  <2>1. PICK d, link : Append(Event(d, "policy_verdict", job[p].by, 0, "already_terminal", link))
    BY <1>3 DEF SkipTerminal
  <2> QED BY <1>1, <2>1 DEF Event
<1>4. CASE LogDetected(p)
  BY <1>1, <1>4 DEF LogDetected, Event
<1>5. CASE Diagnose(p)
  <2>1. PICK cause : Append(Event(cur[p].case_id, "diagnosis_completed", job[p].by,
                                  step[p] + 1, cause, NoLink))
    BY <1>5 DEF Diagnose
  <2> QED BY <1>1, <1>5, <2>1 DEF Event
<1>6. CASE LogVerdict(p)
  BY <1>1, <1>6 DEF LogVerdict, Log, Event
<1>7. CASE LogAttempt(p) \/ LogResult(p) \/ ParkFailed(p) \/ CloseCase(p) \/ AskCustomer(p)
  <2>1. PICK type, what, link :
          /\ Log(p, type, what, link)
          /\ type \in {"action_attempted", "action_result", "case_terminal", "customer_response"}
    BY <1>7 DEF LogAttempt, LogResult, ParkFailed, CloseCase, AskCustomer
  <2> QED BY <1>1, <2>1 DEF Log, Event
<1>8. CASE ParkExpired(p)
  BY <1>1, <1>8 DEF ParkExpired, Event
<1> QED BY <1>2, <1>3, <1>4, <1>5, <1>6, <1>7, <1>8
        DEF Crash, StartRun, Step, Turn, EndOfTurn, OpenCase, Return, RefuseKilled,
            ExecuteLocally, ExecuteInjected, ExecuteCreate, ExecuteNotify, Save, StopKilled,
            NoCustomer, SaveAnswer, NextTurn, storeVars

\* Who is told goes on being told while nothing new is found.
LEMMA ToldStays ==
  ASSUME NEW c, NEW s, NEW t, Diagnosed(c, s) = Diagnosed(c, t), Ruled(c, s) = Ruled(c, t)
  PROVE  Told(c, s) => Told(c, t)
BY DEF Told, Findings

\* Policy sends a case to a human for what the diagnosis says.
LEMMA DecideFits ==
  ASSUME NEW f \in Failure, NEW d \in Diagnoses(f), NEW case, NEW k,
         Decide(case, d, k).rationale \in EscalateRationales
  PROVE  Fits(Decide(case, d, k).rationale, d.cause)
<1>1. d.cause # "none"
  BY DiagnosesFacts DEF Cause, Reason
<1> QED BY <1>1
        DEF Decide, Ladder, Verdict, FromPolicy, EscalateRationales, Fits

\* A step that neither opens a case nor finds anything leaves what is found.
LEMMA TurnGoesOn ==
  ASSUME NEW p \in Procs, TurnTold(p), pc[p] \in PC \ {"idle"}, pc'[p] \notin {"idle", "verdict"},
         UNCHANGED <<job, runs>>, todo'[p] \subseteq todo[p],
         pc'[p] = "next" => pc[p] = "next" \/ cur[p].case_id \notin todo'[p],
         pc'[p] # "next" => /\ pc[p] # "next" /\ cur'[p].case_id = cur[p].case_id
                            /\ step'[p] = step[p] /\ action'[p] = action[p],
         pc'[p] \in {"next", "diagnose"} \/ pc[p] \notin {"next", "detect", "diagnose", "verdict"},
         \A c : Diagnosed(c, audit') = Diagnosed(c, audit) /\ Ruled(c, audit') = Ruled(c, audit)
  PROVE  TurnTold(p)'
<1>1. \A c : Findings(c, audit') = Findings(c, audit)
  BY DEF Findings
<1>2. \A c : Told(c, audit) => Told(c, audit')
  BY ToldStays
<1>3. CASE pc'[p] = "next"
  BY <1>1, <1>3 DEF TurnTold
<1>4. CASE pc'[p] # "next"
  <2>1. PICK c : c = cur[p].case_id
    OBVIOUS
  <2>2. /\ pc[p] # "next" /\ c = cur'[p].case_id /\ job'[p].by = runs'
        /\ step'[p] = step[p] /\ action'[p] = action[p] /\ runs' = runs
    BY <1>4, <2>1 DEF TurnTold
  <2>3. /\ \A d \in todo'[p] : d # c => \A e \in Findings(d, audit') : e.by < runs
        /\ \A e \in Findings(c, audit') : UpTo(e, runs, step[p])
    BY <1>1, <2>1, <2>2 DEF TurnTold
  <2>4. /\ pc'[p] \in {"attempt", "dispatch", "save", "result", "outcome", "apply", "close"}
        /\ action[p].rationale \in EscalateRationales
        => Told(c, audit')
    <3> SUFFICES ASSUME pc'[p] \in {"attempt", "dispatch", "save", "result", "outcome", "apply",
                                    "close"},
                        action[p].rationale \in EscalateRationales
                 PROVE  Told(c, audit')
      OBVIOUS
    <3>1. pc[p] \in {"attempt", "dispatch", "save", "result", "outcome", "apply", "close"}
      BY DEF PC
    <3> QED BY <1>2, <2>1, <3>1 DEF TurnTold
  <2> QED BY <1>4, <2>2, <2>3, <2>4 DEF TurnTold
<1> QED BY <1>3, <1>4

\* The steps of a case that find nothing.
LEMMA QuietTurn ==
  ASSUME NEW F, Held(F), NEW p \in Procs, TurnTold(p),
         LogDetected(p) \/ (Turn(p) /\ ~Diagnose(p) /\ ~LogVerdict(p)) \/ EndOfTurn(p)
  PROVE  TurnTold(p)'
<1> USE LocalTypes DEF runVars, caseVars
<1>1. Step(p) /\ pc[p] \notin {"idle", "next"} /\ ~Diagnose(p) /\ ~LogVerdict(p)
  BY DEF Step, Turn, EndOfTurn, LogDetected, RefuseKilled, ExecuteLocally, ExecuteInjected,
         ExecuteCreate, ExecuteNotify, Save, LogAttempt, LogResult, StopKilled, ParkFailed,
         AskCustomer, NoCustomer, SaveAnswer, CloseCase, NextTurn, ParkExpired, Diagnose,
         LogVerdict, Go
<1>2. \A c : Diagnosed(c, audit') = Diagnosed(c, audit) /\ Ruled(c, audit') = Ruled(c, audit)
  BY <1>1, FindingsGrow
<1>3. cur'[p].case_id = cur[p].case_id
  BY SameCase
<1>4. CASE LogDetected(p)
  <2>1. pc'[p] = "diagnose" /\ UNCHANGED <<job, runs, todo, step, action>>
    BY <1>4 DEF LogDetected, Go
  <2> QED BY <1>1, <1>2, <1>3, <2>1, TurnGoesOn
<1>5. CASE \/ LogAttempt(p) \/ RefuseKilled(p) \/ ExecuteLocally(p) \/ ExecuteInjected(p)
           \/ ExecuteCreate(p) \/ ExecuteNotify(p) \/ Save(p) \/ LogResult(p)
           \/ StopKilled(p) \/ AskCustomer(p) \/ NoCustomer(p) \/ SaveAnswer(p)
  <2>1. /\ pc'[p] \notin {"idle", "next", "verdict"}
        /\ pc[p] \notin {"detect", "diagnose", "verdict"}
        /\ UNCHANGED <<job, runs, todo, step, action>>
    BY <1>5 DEF RefuseKilled, ExecuteLocally, ExecuteInjected, ExecuteCreate, ExecuteNotify,
                Save, LogAttempt, LogResult, StopKilled, AskCustomer, NoCustomer, SaveAnswer, Go
  <2> QED BY <1>1, <1>2, <1>3, <2>1, TurnGoesOn
<1>6. CASE ParkFailed(p) \/ CloseCase(p) \/ ParkExpired(p)
  <2>1. /\ pc'[p] = "next" /\ UNCHANGED <<job, runs>>
        /\ todo'[p] = todo[p] \ {cur[p].case_id}
    BY <1>6 DEF ParkFailed, CloseCase, ParkExpired, FinishCase, Go, Held, TypeOK
  <2> QED BY <1>1, <1>2, <2>1, TurnGoesOn
<1>7. CASE NextTurn(p)
  <2>1. pc'[p] = "diagnose" /\ UNCHANGED <<job, runs, todo, step, action>>
    BY <1>7 DEF NextTurn, Go
  <2> QED BY <1>1, <1>2, <1>3, <2>1, TurnGoesOn
<1> QED BY <1>4, <1>5, <1>6, <1>7 DEF Turn, EndOfTurn

\* The steps between two cases.
LEMMA QuietBatch ==
  ASSUME NEW F, Held(F), AnswerInv, NEW p \in Procs, TurnTold(p),
         StartRun(p) \/ Crash(p) \/ Return(p) \/ SkipTerminal(p) \/ OpenCase(p)
  PROVE  TurnTold(p)'
<1> USE LocalTypes DEF runVars, caseVars
<1>1. /\ runs \in Nat /\ audit \subseteq AuditEvent
      /\ \A e \in audit : e.by \in Nat /\ e.step \in Nat /\ e.by <= runs
  BY RunnerAssumption DEF Held, TypeOK, StoreTypeOK, AuditEvent, AnswerInv
<1>2. \A c : Findings(c, audit) \subseteq audit
  BY DEF Findings, Diagnosed, Ruled
<1>3. CASE Crash(p) \/ Return(p)
  <2>1. pc'[p] = "idle"
    BY <1>3 DEF Crash, Return, Go
  <2> QED BY <2>1 DEF TurnTold
<1>4. CASE StartRun(p)
  <2>1. /\ pc'[p] = "next" /\ job'[p].by = runs + 1 /\ runs' = runs + 1 /\ UNCHANGED audit
    BY <1>4 DEF StartRun, Go, storeVars, Held, TypeOK
  <2> QED BY <1>1, <1>2, <2>1 DEF TurnTold
<1>5. CASE SkipTerminal(p)
  <2>1. pc[p] = "next" /\ pc'[p] = "next" /\ UNCHANGED <<job, runs>> /\ todo'[p] \subseteq todo[p]
    BY <1>5 DEF SkipTerminal, Go, Held, TypeOK
  <2>2. \A c : Diagnosed(c, audit') = Diagnosed(c, audit) /\ Ruled(c, audit') = Ruled(c, audit)
    BY <1>5, <2>1, FindingsGrow DEF Step, Diagnose, LogVerdict, Go
  <2> QED BY <2>1, <2>2, TurnGoesOn
<1>6. CASE OpenCase(p)
  <2>1. PICK c \in Cases : IsNext(p, c) /\ cur' = [cur EXCEPT ![p] = snap[p][c]]
    BY <1>6 DEF OpenCase
  <2>2. /\ pc[p] = "next" /\ pc'[p] \in {"detect", "diagnose"}
        /\ UNCHANGED <<job, runs, todo, audit>> /\ step'[p] = 0
    BY <1>6 DEF OpenCase, Go, AfterOpen, storeVars, Held, TypeOK
  <2>3. c \in todo[p] /\ cur'[p].case_id = c
    BY <2>1 DEF IsNext, Held, TypeOK, Selected, SnapOK, CopyOf
  <2>4. \A d \in todo[p] : \A e \in Findings(d, audit) : e.by < runs
    BY <2>2 DEF TurnTold
  <2> QED BY <2>2, <2>3, <2>4 DEF TurnTold, UpTo
<1> QED BY <1>3, <1>4, <1>5, <1>6

\* A diagnosis is the only one of its turn, and no verdict is there before it.
LEMMA DiagnosisTold ==
  ASSUME NEW F, Held(F), NEW p \in Procs, TurnTold(p), Diagnose(p)
  PROVE  TurnTold(p)'
<1> USE LocalTypes DEF runVars, caseVars
<1>1. PICK d \in Diagnoses(cur[p].failure) :
        /\ action' = [action EXCEPT ![p] = Decide(cur[p], d, job[p].kill)]
        /\ Append(Event(cur[p].case_id, "diagnosis_completed", job[p].by, step[p] + 1,
                        d.cause, NoLink))
  BY DEF Diagnose
<1>2. PICK c : c = cur[p].case_id
  OBVIOUS
<1>3. PICK new : new = Event(c, "diagnosis_completed", runs, step[p] + 1, d.cause, NoLink)
  OBVIOUS
<1>4. /\ pc[p] = "diagnose" /\ pc'[p] = "verdict" /\ UNCHANGED <<job, runs, todo, cur>>
      /\ step'[p] = step[p] + 1 /\ step[p] \in Nat /\ runs \in Nat
      /\ action'[p] = Decide(cur[p], d, job[p].kill)
  BY <1>1, RunnerAssumption DEF Diagnose, Go, Held, TypeOK
<1>5. /\ job[p].by = runs
      /\ \A x \in todo[p] : x # c => \A e \in Findings(x, audit) : e.by < runs
      /\ \A e \in Findings(c, audit) : UpTo(e, runs, step[p])
  BY <1>2, <1>4 DEF TurnTold
<1>6. /\ Diagnosed(c, audit') = Diagnosed(c, audit) \cup {new}
      /\ Ruled(c, audit') = Ruled(c, audit)
      /\ \A x : x # c => Findings(x, audit') = Findings(x, audit)
  BY <1>1, <1>2, <1>3, <1>5 DEF Append, Event, Diagnosed, Ruled, Findings
<1>7. At(new, runs, step[p] + 1) /\ UpTo(new, runs, step[p] + 1) /\ new.what = d.cause
  BY <1>3, <1>4 DEF At, UpTo, Event
<1>8. \A e \in Findings(c, audit) : UpTo(e, runs, step[p] + 1) /\ ~At(e, runs, step[p] + 1)
  <2> SUFFICES ASSUME NEW e \in Findings(c, audit)
               PROVE  UpTo(e, runs, step[p] + 1) /\ ~At(e, runs, step[p] + 1)
    OBVIOUS
  <2>1. e.by \in Nat /\ e.step \in Nat
    BY DEF Findings, Diagnosed, Ruled, Held, TypeOK, StoreTypeOK, AuditEvent
  <2> QED BY <1>4, <1>5, <2>1 DEF UpTo, At
<1>9. action'[p].rationale \in EscalateRationales => Fits(action'[p].rationale, d.cause)
  BY <1>4, DecideFits
<1> QED BY <1>2, <1>4, <1>5, <1>6, <1>7, <1>8, <1>9 DEF TurnTold, Findings

\* A verdict for a human is the last, of the turn of the last diagnosis.
LEMMA VerdictTold ==
  ASSUME NEW F, Held(F), NEW p \in Procs, TurnTold(p), LogVerdict(p)
  PROVE  TurnTold(p)'
<1> USE LocalTypes DEF runVars, caseVars
<1>1. PICK c : c = cur[p].case_id
  OBVIOUS
<1>2. PICK link : Log(p, "policy_verdict", action[p].rationale, link)
  BY DEF LogVerdict
<1>3. PICK new : new = Event(c, "policy_verdict", runs, step[p], action[p].rationale, link)
  OBVIOUS
<1>4. /\ pc[p] = "verdict" /\ pc'[p] = "attempt"
      /\ UNCHANGED <<job, runs, todo, cur, step, action>>
      /\ step[p] \in Nat /\ runs \in Nat
  BY RunnerAssumption DEF LogVerdict, Go, Held, TypeOK
<1>5. /\ job[p].by = runs
      /\ \A x \in todo[p] : x # c => \A e \in Findings(x, audit) : e.by < runs
      /\ \A e \in Findings(c, audit) : UpTo(e, runs, step[p])
      /\ \E d \in Diagnosed(c, audit) : At(d, runs, step[p])
      /\ \A v \in Ruled(c, audit) : ~At(v, runs, step[p])
      /\ action[p].rationale \in EscalateRationales =>
           \A d \in Diagnosed(c, audit) :
             At(d, runs, step[p]) => Fits(action[p].rationale, d.what)
  BY <1>1, <1>4 DEF TurnTold
<1>6. /\ Diagnosed(c, audit') = Diagnosed(c, audit)
      /\ Ruled(c, audit') = IF action[p].rationale \in EscalateRationales
                            THEN Ruled(c, audit) \cup {new} ELSE Ruled(c, audit)
      /\ \A x : x # c => Findings(x, audit') = Findings(x, audit)
  BY <1>1, <1>2, <1>3, <1>5 DEF Log, Append, Event, Diagnosed, Ruled, Findings
<1>7. /\ new.by = runs /\ new.step = step[p] /\ new.what = action[p].rationale
      /\ At(new, runs, step[p]) /\ UpTo(new, runs, step[p])
  BY <1>3, <1>4 DEF At, UpTo, Event
<1>8. \A e \in Findings(c, audit') : UpTo(e, runs, step[p])
  BY <1>5, <1>6, <1>7 DEF Findings
<1>9. action[p].rationale \in EscalateRationales => Told(c, audit')
  BY <1>5, <1>6, <1>7, <1>8 DEF Told
<1> QED BY <1>1, <1>4, <1>5, <1>6, <1>8, <1>9 DEF TurnTold

\* A row is written escalated after the verdict of its turn, and nothing is
\* found about it from then on.
LEMMA RowsTold ==
  ASSUME NEW F, Held(F), SoloInv, TrailInv, ReasonsInv,
         NEW p \in Procs, StartRun(p) \/ Step(p) \/ Crash(p),
         NEW c \in Cases, cases'[c] # NoCase, cases'[c].status = "escalated"
  PROVE  Told(c, audit')
<1> USE LocalTypes DEF runVars, caseVars
<1>1. CASE cases'[c] = cases[c]
  <2>1. Told(c, audit)
    BY <1>1 DEF ReasonsInv, Rows
  <2>2. c = cur[p].case_id => ~Diagnose(p) /\ ~LogVerdict(p)
    <3> SUFFICES ASSUME c = cur[p].case_id, pc[p] \in {"diagnose", "verdict"} PROVE FALSE
      BY DEF Diagnose, LogVerdict, Go
    <3>1. cases[c] = cur[p] /\ Open(cur[p])
      BY DEF SoloInv, SoloOK, InStep, Row, Held, TurnOK
    <3> QED BY <1>1, <3>1 DEF Open, Terminal
  <2> QED BY <2>1, <2>2, FindingsGrow, ToldStays
<1>2. CASE cases'[c] # cases[c]
  <2>1. /\ Save(p) \/ SaveAnswer(p) \/ StopKilled(p)
        /\ UNCHANGED audit /\ Upsert(cur'[p])
    BY <1>2 DEF StartRun, Crash, Step, Turn, EndOfTurn, SkipTerminal, OpenCase, LogDetected,
         Return, Diagnose, LogVerdict, LogAttempt, RefuseKilled, ExecuteLocally, ExecuteInjected,
         ExecuteCreate, ExecuteNotify, Save, LogResult, StopKilled, ParkFailed, AskCustomer,
         NoCustomer, SaveAnswer, CloseCase, NextTurn, ParkExpired, storeVars
  <2>2. ~StopKilled(p)
    <3> SUFFICES ASSUME StopKilled(p) PROVE FALSE
      OBVIOUS
    <3>1. cur' = [cur EXCEPT ![p] = [cur[p] EXCEPT !.status = "stopped"]]
      BY DEF StopKilled
    <3>2. cur'[p].status = "stopped"
      BY <3>1, StatusUpdate DEF CaseStatus, Held, TypeOK
    <3> QED BY <1>2, <2>1, <3>2 DEF Upsert, Held, TypeOK, StoreTypeOK
  <2>3. /\ pc[p] \in {"save", "apply"} /\ cur'[p] = cur[p]
        /\ cases'[c] = cur[p] /\ c = cur[p].case_id
    BY <1>2, <2>1, <2>2 DEF Save, SaveAnswer, Go, Upsert, Held, TypeOK, StoreTypeOK
  <2>4. action[p].rationale \in EscalateRationales
    BY <2>3, GroundsFacts
       DEF TrailInv, TrailOK, VerdictOK, EscalationRationales, EscalateRationales
  <2> QED BY <2>1, <2>3, <2>4 DEF ReasonsInv, TurnTold
<1> QED BY <1>1, <1>2

\* run explains what it escalates, and touches no escalated row report has read.
LEMMA ReasonsRun ==
  ASSUME CommandsInv, TurnsInv, OneAtATime', TrailInv, AnswerInv, ReasonsInv, Run
  PROVE  ReasonsInv'
<1>1. PICK F : F = Failures
  OBVIOUS
<1>2. Held(F) /\ SoloInv
  BY <1>1 DEF CommandsInv, TurnsInv
<1>3. PICK p \in Procs : StartRun(p) \/ Step(p) \/ Crash(p)
  BY DEF Run
<1>4. UNCHANGED <<rpc, seen>>
  BY DEF Run, reporterVars
<1>5. Alone(p)
  BY <1>2, <1>3, RunsAlone DEF TurnsInv, Run, detectorVars, seederVars
<1>6. \A q \in Procs \ {p} : TurnTold(q)'
  BY <1>2, <1>3, <1>5, OthersRest DEF Alone, TurnTold
<1>7. TurnTold(p)'
  <2>1. TurnTold(p)
    BY DEF ReasonsInv
  <2> QED BY <1>2, <1>3, <2>1, QuietBatch, QuietTurn, DiagnosisTold, VerdictTold
          DEF Step, Turn
<1>8. \A c \in Rows' : cases'[c].status = "escalated" => Told(c, audit')
  BY <1>2, <1>3, RowsTold DEF Rows
<1>9. ASSUME NEW c \in Cases, seen.rows[c] # NoCase, seen.rows[c].status = "escalated",
             rpc = "trail"
      PROVE  cases'[c] = seen.rows[c]
  <2>1. cases[c] = seen.rows[c] /\ ~Open(cases[c])
    BY <1>9 DEF ReasonsInv, Open, Terminal
  <2>2. UNCHANGED cases \/ \E d \in Rows : Open(cases[d]) /\ Raises(d)
    BY RunTurns
  <2> QED BY <2>1, <2>2 DEF Raises
<1>10. ASSUME NEW c \in Cases, seen.rows[c] # NoCase, seen.rows[c].status = "escalated",
              rpc \in {"truths", "built"}
       PROVE  Told(c, seen.trail)
  BY <1>10 DEF ReasonsInv
<1> QED BY <1>4, <1>6, <1>7, <1>8, <1>9, <1>10 DEF ReasonsInv

\* Beside the runs nothing is found; report reads rows that are explained.
LEMMA ReasonsAside ==
  ASSUME Unforced, CommandsInv, UnforcedInv, TurnsInv, Orderly, Orderly', ReasonsInv,
         Detecting \/ Seeding \/ Reporting \/ Die \/ UNCHANGED allVars
  PROVE  ReasonsInv'
<1> USE DEF storeVars
<1>1. UNCHANGED <<audit, pc, runVars, caseVars>>
  BY BesideRuns
<1>2. \A p \in Procs : TurnTold(p)'
  BY <1>1 DEF ReasonsInv, TurnTold, runVars, caseVars
<1>3. \A c \in Rows' : cases'[c].status = "escalated" => Told(c, audit')
  <2> SUFFICES ASSUME NEW c \in Cases, cases'[c] # NoCase, cases'[c].status = "escalated"
               PROVE  Told(c, audit)
    BY <1>1 DEF Rows
  <2>1. cases'[c] = cases[c]
    BY AsideWrites DEF Open, Terminal
  <2> QED BY <2>1 DEF ReasonsInv, Rows
<1>4. CASE Reporting
  <2>1. UNCHANGED cases
    BY <1>4 DEF Reporting, ListRows, ReportStep, ListTrail, ListTruths, Query, ReturnReport
  <2>2. rpc \in {"idle", "trail", "truths", "built"} /\ ReporterTypeOK
    BY DEF CommandsInv, CommandsTypeOK, ReporterTypeOK
  <2>3. CASE ListRows
    <3>1. rpc' = "trail" /\ seen'.rows = cases
      BY <2>2, <2>3 DEF ListRows, Query, Read, ReporterTypeOK
    <3> QED BY <1>2, <1>3, <2>1, <3>1 DEF ReasonsInv
  <2>4. CASE ListTrail
    <3>1. rpc = "trail" /\ rpc' = "truths" /\ seen'.rows = seen.rows /\ seen'.trail = audit
      BY <2>2, <2>4 DEF ListTrail, Query, Read, ReporterTypeOK
    <3> QED BY <1>2, <1>3, <3>1 DEF ReasonsInv, Rows
  <2>5. CASE ListTruths
    <3>1. /\ rpc = "truths" /\ rpc' = "built"
          /\ seen'.rows = seen.rows /\ seen'.trail = seen.trail
      BY <2>2, <2>5 DEF ListTruths, Query, Read, ReporterTypeOK
    <3> QED BY <1>2, <1>3, <3>1 DEF ReasonsInv
  <2>6. CASE ReturnReport
    BY <1>2, <1>3, <2>6 DEF ReturnReport, ReasonsInv
  <2> QED BY <1>4, <2>3, <2>4, <2>5, <2>6 DEF Reporting, ReportStep
<1>5. CASE Detecting \/ Die \/ UNCHANGED allVars
  <2>1. UNCHANGED <<rpc, seen>> /\ \A c \in Rows : cases'[c] = cases[c]
    BY <1>5, DetectTurns, OthersTurn
       DEF Orderly, Detecting, Die, allVars, reporterVars
  <2> QED BY <1>2, <1>3, <2>1 DEF ReasonsInv, Rows
<1>6. CASE Seeding
  <2>1. UNCHANGED <<rpc, seen>> /\ rpc = "idle"
    BY <1>6 DEF Seeding, StartSeed, SeedStep, DropTrail, DeleteRows, SeedCase, SeedTruth,
                RecordBatch, reporterVars, Orderly
  <2> QED BY <1>2, <1>3, <2>1 DEF ReasonsInv
<1> QED BY <1>4, <1>5, <1>6

\* While the commands take turns and no seed overlaps a report, each case in the
\* hands of a human has its last diagnosis and its last verdict from one turn.
THEOREM ReasonsInvariant == ASSUME Unforced PROVE CommandsSpec /\ []Orderly => []ReasonsInv
<1>1. CommandsInit => ReasonsInv
  <2> SUFFICES ASSUME CommandsInit PROVE ReasonsInv
    OBVIOUS
  <2>1. /\ cases = [c \in Cases |-> NoCase] /\ pc = [p \in Procs |-> "idle"]
        /\ seen = NothingSeen
    BY DEF CommandsInit, Fresh, ReporterInit
  <2> QED BY <2>1 DEF ReasonsInv, TurnTold, Rows, NothingSeen
<1>2. /\ CommandsInv /\ UnforcedInv /\ TurnsInv /\ AnswerInv /\ CountInv
      /\ Orderly /\ Orderly' /\ ReasonsInv /\ [CommandsNext]_allVars
      => ReasonsInv'
  <2> SUFFICES ASSUME CommandsInv, UnforcedInv, TurnsInv, AnswerInv, Orderly, Orderly',
                      ReasonsInv, [CommandsNext]_allVars
               PROVE  ReasonsInv'
    OBVIOUS
  <2>1. CASE Run
    BY <2>1, ReasonsRun DEF UnforcedInv, Orderly
  <2>2. CASE Detecting \/ Seeding \/ Reporting \/ Die \/ UNCHANGED allVars
    BY <2>2, ReasonsAside
  <2> QED BY <2>1, <2>2 DEF CommandsNext, Rest
<1>3. Orderly => OneAtATime
  BY DEF Orderly
<1> QED BY <1>1, <1>2, <1>3, CommandsInvariant, UnforcedInvariant, BooksBalance, TurnsInvariant,
           PTL DEF CommandsSpec

\* report gives each case in the hands of a human the cause and the rationale of
\* one decision, although it looks them up apart and runs go on between its reads.
THEOREM EscalationsStayExplained ==
  ASSUME Unforced PROVE CommandsSpec /\ []Orderly => []EscalationsExplained
<1>1. ASSUME NEW events, events \subseteq AuditEvent, NEW by \in Nat, NEW turn \in Nat,
             \A e \in events : UpTo(e, by, turn), \E e \in events : At(e, by, turn)
      PROVE  \E e \in events : At(e, by, turn) /\ Latest(events) = e.what
  <2>1. PICK e \in events : At(e, by, turn)
    BY <1>1
  <2> DEFINE Last(x) == \A f \in events : f.by < x.by \/ (f.by = x.by /\ f.step <= x.step)
  <2>2. Last(e)
    BY <1>1, <2>1 DEF UpTo, At
  <2>3. PICK x : x = CHOOSE y \in events : Last(y)
    OBVIOUS
  <2>4. x \in events /\ Last(x)
    BY <2>1, <2>2, <2>3
  <2>5. x.by \in Nat /\ x.step \in Nat
    BY <1>1, <2>4 DEF AuditEvent
  <2>6. At(x, by, turn)
    <3>1. UpTo(x, by, turn)
      BY <1>1, <2>4
    <3>2. e.by < x.by \/ (e.by = x.by /\ e.step <= x.step)
      BY <2>1, <2>4
    <3> QED BY <2>1, <2>5, <3>1, <3>2 DEF UpTo, At
  <2>7. Latest(events) = x.what
    BY <2>1, <2>3 DEF Latest
  <2> QED BY <2>4, <2>6, <2>7
<1>2. CommandsInv /\ ReasonsInv => EscalationsExplained
  <2> SUFFICES ASSUME CommandsInv, ReasonsInv, rpc = "built", NEW f \in Escalations
               PROVE  f.rationale # "none" /\ Fits(f.rationale, f.cause)
    BY DEF EscalationsExplained, Fits
  <2>0. PICK c \in WithStatus("escalated") :
          /\ f.cause = Latest(InTrail(c, "diagnosis_completed"))
          /\ f.rationale = Latest({e \in InTrail(c, "policy_verdict") :
                                     e.what \in EscalateRationales})
    BY DEF Escalations
  <2>1. seen.trail \subseteq AuditEvent
    BY DEF CommandsInv, CommandsTypeOK, ReporterTypeOK
  <2>2. Told(c, seen.trail)
    BY DEF ReasonsInv, WithStatus, Reported
  <2>3. /\ InTrail(c, "diagnosis_completed") = Diagnosed(c, seen.trail)
        /\ {e \in InTrail(c, "policy_verdict") : e.what \in EscalateRationales}
             = Ruled(c, seen.trail)
    BY DEF InTrail, Diagnosed, Ruled
  <2>4. PICK v \in Ruled(c, seen.trail) :
          /\ \A e \in Findings(c, seen.trail) : UpTo(e, v.by, v.step)
          /\ \E d \in Diagnosed(c, seen.trail) : At(d, v.by, v.step)
          /\ \A d \in Diagnosed(c, seen.trail), w \in Ruled(c, seen.trail) :
               At(d, v.by, v.step) /\ At(w, v.by, v.step) => Fits(w.what, d.what)
    BY <2>2 DEF Told
  <2>5. /\ v.by \in Nat /\ v.step \in Nat /\ At(v, v.by, v.step)
        /\ Diagnosed(c, seen.trail) \subseteq AuditEvent
        /\ Ruled(c, seen.trail) \subseteq AuditEvent
    BY <2>1 DEF Ruled, Diagnosed, AuditEvent, At
  <2>6. PICK d \in Diagnosed(c, seen.trail) : At(d, v.by, v.step) /\ f.cause = d.what
    BY <1>1, <2>0, <2>3, <2>4, <2>5 DEF Findings
  <2>7. PICK w \in Ruled(c, seen.trail) : At(w, v.by, v.step) /\ f.rationale = w.what
    <3>1. f.rationale = Latest(Ruled(c, seen.trail))
      BY <2>0, <2>3
    <3>2. /\ \A e \in Ruled(c, seen.trail) : UpTo(e, v.by, v.step)
          /\ \E e \in Ruled(c, seen.trail) : At(e, v.by, v.step)
      BY <2>4, <2>5 DEF Findings
    <3> QED BY <1>1, <2>5, <3>1, <3>2
  <2>8. w.what # "none"
    BY DEF Ruled, EscalateRationales
  <2> QED BY <2>4, <2>6, <2>7, <2>8
<1> QED BY <1>2, CommandsInvariant, ReasonsInvariant, PTL
=============================================================================
