--------------------------- MODULE CommandsProofs ----------------------------
(***************************************************************************)
(* Proofs about the commands on one database: what holds of every copy of  *)
(* a case and of the batch, however the commands overlap and die.          *)
(***************************************************************************)
EXTENDS CommandsInductive, SoloProofs

-----------------------------------------------------------------------------
(* The steps of the commands beside run.                                    *)

\* A step beside the runs that leaves the rows copies leaves every copy one.
LEMMA HeldAside ==
  ASSUME NEW F, Held(F), UNCHANGED <<razorpayVars, pc, runVars, caseVars>>,
         crashes' \in 0..MaxCrashes, StoreTypeOK', RowsInv(F)'
  PROVE  Held(F)'
<1>1. TypeOK' /\ Selected' /\ ServiceInv(F)'
  BY DEF Held, TypeOK, RazorpayTypeOK, razorpayVars, runVars, caseVars, Selected, ServiceInv
<1>2. \A p \in Procs : LocalKept(p)
  BY DEF runVars, caseVars, LocalKept
<1> QED BY <1>1, <1>2, OthersKeep DEF Held

\* What fails and what seed will make never changes.
LEMMA FailuresStay ==
  ASSUME CommandsInv, UNCHANGED <<payments, batch>>
  PROVE  Failures' = Failures
BY DEF Failures

\* A case as detect and seed create it is an open copy.
LEMMA NewRow ==
  ASSUME CommandsInv, NEW F, F = Failures, NEW c \in Payments \cup Batch
  PROVE  /\ NewCase(c, F[c]) \in Case /\ NewCase(c, F[c]).case_id = c
         /\ CopyOf(F, c, NewCase(c, F[c])) /\ Open(NewCase(c, F[c]))
         /\ c \in Payments => F[c] = payments[c]
         /\ c \in Batch => F[c] = batch[c].failure
<1>1. c \in Cases /\ c \in Nat
  BY DetectorAssumption, SeederAssumption, StoreAssumption
<1>2. /\ c \in Payments => F[c] = payments[c]
      /\ c \in Batch => F[c] = batch[c].failure
  BY <1>1, CommandsAssumption DEF Failures
<1>3. F[c] \in Failure
  BY <1>2 DEF CommandsInv, CommandsTypeOK, DetectorTypeOK, SeederTypeOK
<1> QED BY <1>1, <1>2, <1>3, NewCaseFacts DEF CopyOf, Open, Terminal

\* detect writes an open copy: a new case, or the row as it read it.
LEMMA MergedRow ==
  ASSUME CommandsInv, NEW F, F = Failures, dpc = "write",
         NEW new, new = Merged(merging.id, merging.row, payments[merging.id])
  PROVE  /\ merging.id \in Cases /\ new \in Case /\ new.case_id = merging.id
         /\ CopyOf(F, merging.id, new) /\ Open(new)
         /\ merging.row = NoCase => new = NewCase(merging.id, F[merging.id])
         /\ merging.row # NoCase => new = merging.row
<1>1. /\ merging.id \in Payments /\ merging.id \in Cases
      /\ merging.row \in Case \cup {NoCase}
      /\ merging.row # NoCase => CopyOf(F, merging.id, merging.row) /\ Open(merging.row)
  BY DetectorAssumption DEF CommandsInv, MergeOK, CommandsTypeOK, DetectorTypeOK
<1>2. F[merging.id] = payments[merging.id]
  BY <1>1, NewRow
<1>3. CASE merging.row = NoCase
  BY <1>1, <1>2, <1>3, NewRow DEF Merged
<1>4. CASE merging.row # NoCase
  <2>1. merging.row \in Case /\ merging.row.failure = F[merging.id]
    BY <1>1, <1>4 DEF CopyOf
  <2>2. [merging.row EXCEPT !.failure = F[merging.id]] = merging.row
    BY <2>1 DEF Case
  <2>3. new = merging.row
    BY <1>2, <1>4, <2>2 DEF Merged
  <2> QED BY <1>1, <1>4, <2>1, <2>3 DEF CopyOf
<1> QED BY <1>3, <1>4

\* detect writes only copies, and leaves the runs alone.
LEMMA DetectingKeeps ==
  ASSUME CommandsInv, NEW F, F = Failures, Detecting
  PROVE  Held(F)' /\ Failures' = F /\ MergeOK(F)' /\ SeenOK(F)' /\ DetectorTypeOK'
<1> USE DEF detectorVars, runnerVars, storeVars
<1>1. /\ Held(F) /\ DetectorTypeOK /\ TypeOK /\ StoreTypeOK /\ MergeOK(F)
      /\ RowsInv(F) /\ crashes \in 0..MaxCrashes
  BY DEF CommandsInv, CommandsTypeOK, TypeOK, Held
<1>2. /\ UNCHANGED <<razorpayVars, pc, runVars, caseVars, crashes, payments, batch>>
  BY DEF Detecting, seederVars, FailPayment, ListPayments, DetectStep, ReadRow,
         RejectForeign, WriteRow, ReturnDetect
<1>3. Failures' = F /\ SeenOK(F)'
  BY <1>2, FailuresStay DEF Detecting, reporterVars, CommandsInv, SeenOK
<1>4. CASE FailPayment \/ ListPayments \/ ReturnDetect \/ \E c \in Payments : RejectForeign(c)
  <2>1. UNCHANGED <<cases, truths, audit>>
    BY <1>4 DEF FailPayment, ListPayments, ReturnDetect, RejectForeign
  <2>2. Held(F)'
    BY <1>1, <1>2, <2>1, HeldAside DEF StoreTypeOK, RowsInv, Rows
  <2>3. MergeOK(F)'
    BY <1>1, <1>4 DEF FailPayment, ListPayments, ReturnDetect, RejectForeign, MergeOK
  <2>4. DetectorTypeOK'
    BY <1>1, <1>4, DetectorAssumption
       DEF FailPayment, ListPayments, ReturnDetect, RejectForeign, DetectorTypeOK
  <2> QED BY <1>3, <2>2, <2>3, <2>4
<1>5. ASSUME NEW c \in Payments, ReadRow(c)
      PROVE  Held(F)' /\ MergeOK(F)' /\ DetectorTypeOK'
  <2>1. UNCHANGED <<cases, truths, audit>> /\ c \in Cases /\ c \in Nat
    BY <1>5, DetectorAssumption, StoreAssumption DEF ReadRow
  <2>2. Held(F)'
    BY <1>1, <1>2, <2>1, HeldAside DEF StoreTypeOK, RowsInv, Rows
  <2>3. cases[c] # NoCase => CopyOf(F, c, cases[c])
    BY <1>1, <2>1 DEF RowsInv, Rows
  <2>4. MergeOK(F)'
    BY <1>1, <1>5, <2>3 DEF ReadRow, MergeOK, Open
  <2>5. DetectorTypeOK'
    <3>1. cases[c] \in Case \cup {NoCase}
      BY <1>1, <2>1 DEF StoreTypeOK
    <3>2. [id |-> c, row |-> cases[c]] \in [id : Nat, row : Case \cup {NoCase}]
      BY <2>1, <3>1
    <3> QED BY <1>1, <1>5, <3>2 DEF ReadRow, DetectorTypeOK
  <2> QED BY <2>2, <2>4, <2>5
<1>6. CASE WriteRow
  <2> DEFINE new == Merged(merging.id, merging.row, payments[merging.id])
  <2>1. /\ dpc = "write" /\ Upsert(new) /\ UNCHANGED <<truths, audit>>
        /\ dpc' = "read" /\ merging' = NoMerge /\ listed' \subseteq listed
        /\ UNCHANGED <<payments, failed, listings>>
    BY <1>6 DEF WriteRow
  <2>2. merging.id \in Cases /\ new \in Case /\ new.case_id = merging.id /\ CopyOf(F, merging.id, new)
    BY <2>1, MergedRow
  <2> HIDE DEF new
  <2>3. StoreTypeOK' /\ RowsInv(F)'
    BY <1>1, <2>1, <2>2, UpsertKeeps DEF StoreTypeOK
  <2>4. Held(F)'
    BY <1>1, <1>2, <2>3, HeldAside
  <2>5. MergeOK(F)' /\ DetectorTypeOK'
    <3>1. NoMerge \in [id : Nat, row : Case \cup {NoCase}]
      BY DEF NoMerge
    <3>2. DetectorTypeOK'
      BY <1>1, <2>1, <3>1 DEF DetectorTypeOK
    <3> QED BY <2>1, <3>2 DEF MergeOK
  <2> QED BY <1>3, <2>4, <2>5
<1> QED BY <1>3, <1>4, <1>5, <1>6 DEF Detecting, DetectStep

\* seed writes only copies, and leaves the runs alone.
LEMMA SeedingKeeps ==
  ASSUME CommandsInv, NEW F, F = Failures, Seeding
  PROVE  Held(F)' /\ Failures' = F /\ MergeOK(F)' /\ SeenOK(F)' /\ SeederTypeOK'
<1> USE DEF seederVars, runnerVars, storeVars
<1>1. /\ Held(F) /\ SeederTypeOK /\ TypeOK /\ StoreTypeOK /\ MergeOK(F)
      /\ RowsInv(F) /\ crashes \in 0..MaxCrashes
  BY DEF CommandsInv, CommandsTypeOK, TypeOK, Held
<1>2. UNCHANGED <<razorpayVars, pc, runVars, caseVars, crashes, payments, batch, dpc, merging>>
  BY DEF Seeding, detectorVars, StartSeed, SeedStep, DropTrail, DeleteRows, SeedCase,
         SeedTruth, RecordBatch
<1>3. Failures' = F /\ MergeOK(F)' /\ SeenOK(F)'
  BY <1>1, <1>2, FailuresStay DEF MergeOK, Seeding, reporterVars, CommandsInv, SeenOK
<1>4. SeederTypeOK'
  <2>1. CASE StartSeed
    BY <1>1, <2>1, SeederAssumption DEF StartSeed, SeederTypeOK
  <2>2. CASE SeedStep
    BY <1>1, <2>2
       DEF SeedStep, DropTrail, DeleteRows, SeedCase, SeedTruth, RecordBatch, SeederTypeOK
  <2> QED BY <2>1, <2>2 DEF Seeding
<1>5. StoreTypeOK' /\ RowsInv(F)'
  <2>1. CASE StartSeed \/ DropTrail \/ RecordBatch
    BY <1>1, <2>1 DEF StartSeed, DropTrail, RecordBatch, StoreTypeOK, RowsInv, Rows
  <2>2. CASE DeleteRows
    BY <1>1, <2>2 DEF DeleteRows, StoreTypeOK, RowsInv, Rows
  <2>3. CASE SeedCase
    <3>1. PICK c \in left : Upsert(NewCase(c, batch[c].failure))
      BY <2>3 DEF SeedCase
    <3>2. c \in Batch /\ c \in Cases
      BY <1>1, SeederAssumption DEF SeederTypeOK
    <3>3. /\ NewCase(c, F[c]) \in Case /\ NewCase(c, F[c]).case_id = c
          /\ CopyOf(F, c, NewCase(c, F[c])) /\ Upsert(NewCase(c, F[c]))
      BY <3>1, <3>2, NewRow
    <3>4. cases' \in [Cases -> Case \cup {NoCase}] /\ RowsInv(F)'
      BY <1>1, <3>2, <3>3, UpsertKeeps DEF StoreTypeOK
    <3> QED BY <1>1, <2>3, <3>4 DEF SeedCase, StoreTypeOK
  <2>4. CASE SeedTruth
    <3>1. PICK c \in left : truths' = [truths EXCEPT ![c] = batch[c].truth]
      BY <2>4 DEF SeedTruth
    <3>2. batch[c].truth \in GroundTruth
      BY <1>1, <3>1 DEF SeederTypeOK
    <3> QED BY <1>1, <2>4, <3>1, <3>2 DEF SeedTruth, StoreTypeOK, RowsInv, Rows
  <2> QED BY <2>1, <2>2, <2>3, <2>4 DEF Seeding, SeedStep
<1>6. Held(F)'
  BY <1>1, <1>2, <1>5, HeldAside
<1> QED BY <1>3, <1>4, <1>6

\* report writes nothing.
LEMMA ReportingKeeps ==
  ASSUME CommandsInv, NEW F, F = Failures, Reporting
  PROVE  Held(F)' /\ Failures' = F /\ MergeOK(F)' /\ SeenOK(F)' /\ ReporterTypeOK'
<1> USE DEF reporterVars, runnerVars, storeVars
<1>1. /\ Held(F) /\ ReporterTypeOK /\ TypeOK /\ StoreTypeOK /\ MergeOK(F)
      /\ SeenOK(F) /\ RowsInv(F) /\ crashes \in 0..MaxCrashes
  BY DEF CommandsInv, CommandsTypeOK, TypeOK, Held
<1>2. /\ UNCHANGED <<razorpayVars, pc, runVars, caseVars, crashes, payments, batch, dpc,
                     merging, cases, truths, audit>>
  BY DEF Reporting, detectorVars, seederVars, ListRows, ReportStep, ListTrail, ListTruths,
         Query, ReturnReport
<1>3. Failures' = F /\ MergeOK(F)'
  BY <1>1, <1>2, FailuresStay DEF MergeOK
<1>4. Held(F)'
  BY <1>1, <1>2, HeldAside DEF StoreTypeOK, RowsInv, Rows
<1>5. NothingSeen \in [rows : [Cases -> Case \cup {NoCase}], trail : SUBSET AuditEvent,
                       truths : [Cases -> GroundTruth \cup {NoTruth}]]
  BY DEF NothingSeen
<1>6. ReporterTypeOK'
  BY <1>1, <1>5, ReporterAssumption
     DEF Reporting, ListRows, ReportStep, ListTrail, ListTruths, Query, Read, ReturnReport,
         ReporterTypeOK, StoreTypeOK
<1>7. SeenOK(F)'
  <2>1. CASE ListRows
    <3>1. seen'.rows = cases
      BY <1>1, <2>1 DEF ListRows, Query, Read, ReporterTypeOK
    <3> QED BY <1>1, <3>1 DEF SeenOK, RowsInv, Rows
  <2>2. CASE ListTrail \/ ListTruths
    <3>1. seen'.rows = seen.rows
      BY <1>1, <2>2 DEF ListTrail, ListTruths, Query, Read, ReporterTypeOK
    <3> QED BY <1>1, <3>1 DEF SeenOK
  <2>3. CASE ReturnReport
    BY <2>3 DEF ReturnReport, NothingSeen, SeenOK
  <2> QED BY <2>1, <2>2, <2>3 DEF Reporting, ReportStep
<1> QED BY <1>3, <1>4, <1>6, <1>7

\* Every command keeps every copy, and dies without touching one.
LEMMA CommandsKeep == CommandsInv /\ [CommandsNext]_allVars => CommandsInv'
<1> SUFFICES ASSUME CommandsInv, [CommandsNext]_allVars PROVE CommandsInv'
  OBVIOUS
<1>1. PICK F : F = Failures
  OBVIOUS
<1>2. /\ Held(F) /\ MergeOK(F) /\ SeenOK(F)
      /\ TypeOK /\ DetectorTypeOK /\ SeederTypeOK /\ ReporterTypeOK
  BY <1>1 DEF CommandsInv, CommandsTypeOK
<1>3. SUFFICES /\ Held(F)' /\ Failures' = F /\ MergeOK(F)' /\ SeenOK(F)'
               /\ DetectorTypeOK' /\ SeederTypeOK' /\ ReporterTypeOK'
  BY DEF CommandsInv, CommandsTypeOK, Held
<1> USE DEF detectorVars, seederVars, reporterVars
<1>4. CASE Run
  <2>1. /\ Failures' = F /\ MergeOK(F)' /\ SeenOK(F)'
        /\ DetectorTypeOK' /\ SeederTypeOK' /\ ReporterTypeOK'
    BY <1>1, <1>2, <1>4, FailuresStay
       DEF Run, MergeOK, SeenOK, DetectorTypeOK, SeederTypeOK, ReporterTypeOK
  <2> QED BY <1>2, <1>4, <2>1, StepKeeps DEF Run
<1>5. CASE Detecting
  BY <1>1, <1>2, <1>5, DetectingKeeps DEF Detecting, SeederTypeOK, ReporterTypeOK
<1>6. CASE Seeding
  BY <1>1, <1>2, <1>6, SeedingKeeps DEF Seeding, DetectorTypeOK, ReporterTypeOK
<1>7. CASE Reporting
  BY <1>1, <1>2, <1>7, ReportingKeeps DEF Reporting, DetectorTypeOK, SeederTypeOK
<1>8. CASE Die
  <2>1. /\ UNCHANGED <<cases, truths, audit, razorpayVars, pc, runVars, caseVars,
                       payments, batch, reporterVars>>
        /\ crashes < MaxCrashes /\ crashes' = crashes + 1
        /\ dpc' = "idle" \/ UNCHANGED <<dpc, merging>>
    BY <1>8 DEF Die, DieDetecting, DieSeeding, storeVars
  <2>2. /\ crashes' \in 0..MaxCrashes /\ StoreTypeOK /\ RowsInv(F)
    BY <1>2, <2>1, RunnerAssumption DEF TypeOK, Held
  <2>3. Held(F)'
    BY <1>2, <2>1, <2>2, HeldAside DEF StoreTypeOK, RowsInv, Rows
  <2>4. Failures' = F /\ MergeOK(F)' /\ SeenOK(F)'
    BY <1>1, <1>2, <2>1, FailuresStay DEF MergeOK, SeenOK
  <2>5. NoMerge \in [id : Nat, row : Case \cup {NoCase}]
    BY DEF NoMerge
  <2>6. DetectorTypeOK' /\ SeederTypeOK' /\ ReporterTypeOK'
    BY <1>2, <1>8, <2>1, <2>5
       DEF Die, DieDetecting, DieSeeding, DetectorTypeOK, SeederTypeOK, ReporterTypeOK
  <2> QED BY <2>3, <2>4, <2>6
<1>9. CASE UNCHANGED allVars
  <2>1. UNCHANGED vars
    BY <1>9 DEF allVars
  <2>2. Held(F)' /\ Failures' = F /\ MergeOK(F)' /\ SeenOK(F)'
    BY <1>1, <1>2, <1>9, <2>1, StillKeeps, FailuresStay DEF allVars, MergeOK, SeenOK
  <2> QED BY <1>2, <1>9, <2>2
          DEF allVars, DetectorTypeOK, SeederTypeOK, ReporterTypeOK
<1> QED BY <1>4, <1>5, <1>6, <1>7, <1>8, <1>9 DEF CommandsNext, Rest

\* An empty database holds no copy that could be wrong.
LEMMA CommandsStart == CommandsInit => CommandsInv
<1> SUFFICES ASSUME CommandsInit PROVE CommandsInv
  OBVIOUS
<1>1. PICK F : F = Failures
  OBVIOUS
<1>2. /\ cases = [c \in Cases |-> NoCase] /\ truths = [c \in Cases |-> NoTruth] /\ Fresh
      /\ dpc = "idle" /\ spc = "idle" /\ rpc = "idle" /\ seen = NothingSeen
  BY DEF CommandsInit, DetectorInit, SeederInit, ReporterInit
<1>3. RowsInv(F)
  BY <1>2 DEF RowsInv, Rows
<1>4. Held(F)
  BY <1>2, <1>3, FreshHolds
<1>5. DetectorTypeOK
  BY DetectorAssumption, RunnerAssumption
     DEF CommandsInit, DetectorInit, DetectorTypeOK, NoMerge
<1>6. SeederTypeOK
  <2>1. {i \in Intake : i.truth # NoTruth} \subseteq [failure : Failure, truth : GroundTruth]
    BY RunnerAssumption
  <2>2. batch \in [Batch -> [failure : Failure, truth : GroundTruth]]
    BY <2>1 DEF CommandsInit
  <2>3. recorded \in BOOLEAN /\ spc \in {"idle", "drop", "delete", "case", "truth"}
    BY <1>2 DEF CommandsInit, SeederInit
  <2>4. left \subseteq Batch /\ seeds \in 0..MaxSeeds
    BY SeederAssumption DEF CommandsInit, SeederInit
  <2> QED BY <2>2, <2>3, <2>4 DEF SeederTypeOK
<1>7. ReporterTypeOK
  BY ReporterAssumption
     DEF CommandsInit, ReporterInit, ReporterTypeOK, NothingSeen
<1>8. SeenOK(F)
  BY <1>2 DEF SeenOK, NothingSeen
<1> QED BY <1>1, <1>2, <1>4, <1>5, <1>6, <1>7, <1>8 DEF CommandsInv, CommandsTypeOK, MergeOK, Held

\* What it says of the rows as they are.
LEMMA CommandsSafe ==
  CommandsInv => /\ CommandsTypeOK /\ RowsStayWellFormed
                 /\ SecondLinkUnreachable /\ ExhaustedMeansAllReminders
                 /\ HighAmountNeverContacted /\ RerunsNeverDuplicateLinks
                 /\ OptOutIsAStop /\ WaitIsEarned
<1> SUFFICES ASSUME CommandsInv
             PROVE  /\ CommandsTypeOK /\ RowsStayWellFormed
                    /\ SecondLinkUnreachable /\ ExhaustedMeansAllReminders
                    /\ HighAmountNeverContacted /\ RerunsNeverDuplicateLinks
                    /\ OptOutIsAStop /\ WaitIsEarned
  OBVIOUS
<1>1. PICK F : F = Failures
  OBVIOUS
<1>2. Held(F)
  BY <1>1 DEF CommandsInv
<1>3. RowsStayWellFormed
  BY <1>2 DEF Held, RowsInv, CopyOf, RowsStayWellFormed
<1> QED BY <1>2, <1>3, HeldSafe DEF CommandsInv

\* However the commands overlap and die, the invariant holds.
THEOREM CommandsInvariant == CommandsSpec => []CommandsInv
BY CommandsStart, CommandsKeep, PTL DEF CommandsSpec

\* Every variable of every command keeps its type.
THEOREM CommandsAreTyped == CommandsSpec => []CommandsTypeOK
BY CommandsSafe, CommandsInvariant, PTL

\* A row written back stale, or created anew, is still one the ladder knows.
THEOREM RowsAreWellFormed == CommandsSpec => []RowsStayWellFormed
BY CommandsSafe, CommandsInvariant, PTL

\* Wiping and seeding anew does not make Razorpay take a reference id twice.
THEOREM ReseededLinksAreUnique == CommandsSpec => []RerunsNeverDuplicateLinks
BY CommandsSafe, CommandsInvariant, PTL

\* What run promises of its rows when alone, it keeps beside detect and seed.
THEOREM RowsStaySafe ==
  CommandsSpec => [](/\ SecondLinkUnreachable /\ ExhaustedMeansAllReminders
                     /\ HighAmountNeverContacted /\ OptOutIsAStop /\ WaitIsEarned)
<1>1. CommandsInv => /\ SecondLinkUnreachable /\ ExhaustedMeansAllReminders
                     /\ HighAmountNeverContacted /\ OptOutIsAStop /\ WaitIsEarned
  BY CommandsSafe
<1> QED BY <1>1, CommandsInvariant, PTL

-----------------------------------------------------------------------------
(* The batch on record.                                                     *)

\* A step beside seed that deletes no row keeps what seed has done.
LEMMA SeedAside ==
  ASSUME SeedInv, SeederTypeOK, UNCHANGED <<truths, batch, recorded>>,
         UNCHANGED <<spc, left>> \/ spc' = "idle",
         \A c \in Cases : cases[c] # NoCase => cases'[c] # NoCase
  PROVE  SeedInv'
<1>1. Batch \subseteq Cases
  BY SeederAssumption
<1>2. RecordedBatchIsWhole'
  BY <1>1 DEF SeedInv, RecordedBatchIsWhole
<1>3. CASE UNCHANGED <<spc, left>>
  <2>1. \A c : First(c)' <=> First(c)
    BY <1>3 DEF First
  <2>2. spc' = "truth" => \A c \in left' : First(c)' => cases'[c] # NoCase
    <3> SUFFICES ASSUME spc' = "truth", NEW c \in left', First(c)' PROVE cases'[c] # NoCase
      OBVIOUS
    <3>1. cases[c] # NoCase
      BY <1>3, <2>1 DEF SeedInv
    <3> QED BY <1>1, <1>3, <3>1 DEF SeederTypeOK
  <2> QED BY <1>1, <1>2, <1>3, <2>2 DEF SeedInv
<1>4. CASE spc' = "idle"
  BY <1>2, <1>4 DEF SeedInv
<1> QED BY <1>3, <1>4

\* seed itself: what is behind it has a row and a truth, what is ahead is left.
LEMMA SeedKept == CommandsInv /\ SeedInv /\ Seeding => SeedInv'
<1> SUFFICES ASSUME CommandsInv, SeedInv, Seeding PROVE SeedInv'
  OBVIOUS
<1> USE DEF storeVars
<1>1. /\ SeederTypeOK /\ StoreTypeOK /\ Batch \subseteq Cases /\ NoCase \notin Case
  BY SeederAssumption, StoreAssumption
     DEF CommandsInv, CommandsTypeOK, TypeOK
<1>2. CASE StartSeed
  <2>1. UNCHANGED <<cases, truths, batch, recorded>> /\ left' = Batch /\ spc' \in {"drop", "case"}
    BY <1>2 DEF StartSeed
  <2> QED BY <2>1 DEF SeedInv, RecordedBatchIsWhole
<1>3. CASE DropTrail
  <2>1. /\ UNCHANGED <<cases, truths, batch, recorded>>
        /\ left' = left /\ spc = "drop" /\ spc' = "delete"
    BY <1>3 DEF DropTrail
  <2> QED BY <2>1 DEF SeedInv, RecordedBatchIsWhole
<1>4. CASE DeleteRows
  <2>1. /\ left' = left /\ spc = "delete" /\ spc' = "case" /\ ~recorded'
        /\ truths' = [c \in Cases |-> NoTruth]
        /\ batch' = batch
    BY <1>4 DEF DeleteRows
  <2> QED BY <1>1, <2>1 DEF SeedInv, RecordedBatchIsWhole
<1>5. CASE SeedCase
  <2>1. PICK c \in left : First(c) /\ Upsert(NewCase(c, batch[c].failure))
    BY <1>5 DEF SeedCase
  <2>2. /\ spc = "case" /\ spc' = "truth" /\ UNCHANGED <<truths, batch, recorded, left>>
    BY <1>5 DEF SeedCase
  <2>3. c \in Cases /\ batch[c].failure \in Failure /\ c \in Nat
    BY <1>1, StoreAssumption DEF SeederTypeOK
  <2>4. NewCase(c, batch[c].failure) # NoCase /\ NewCase(c, batch[c].failure).case_id = c
    BY <1>1, <2>3, NewCaseFacts
  <2>5. cases'[c] # NoCase /\ \A d \in Cases : cases[d] # NoCase => cases'[d] # NoCase
    BY <1>1, <2>1, <2>3, <2>4 DEF Upsert, StoreTypeOK
  <2>6. \A d : First(d)' => d = c
    BY <1>1, <2>1, <2>2, StoreAssumption DEF First, SeederTypeOK
  <2> QED BY <1>1, <2>2, <2>5, <2>6 DEF SeedInv, RecordedBatchIsWhole
<1>6. CASE SeedTruth
  <2>1. PICK c \in left : First(c) /\ truths' = [truths EXCEPT ![c] = batch[c].truth]
                          /\ left' = left \ {c}
    BY <1>6 DEF SeedTruth
  <2>2. /\ spc = "truth" /\ spc' = "case" /\ UNCHANGED <<cases, batch, recorded>>
    BY <1>6 DEF SeedTruth
  <2>3. c \in Batch /\ c \in Cases /\ truths'[c] = batch[c].truth
        /\ \A d \in Cases \ {c} : truths'[d] = truths[d]
    BY <1>1, <2>1 DEF SeederTypeOK, StoreTypeOK
  <2>4. cases[c] # NoCase
    BY <2>1, <2>2 DEF SeedInv
  <2>5. \A d \in Batch \ left' : cases'[d] # NoCase /\ truths'[d] = batch[d].truth
    BY <1>1, <2>1, <2>2, <2>3, <2>4 DEF SeedInv
  <2> QED BY <1>1, <2>2, <2>3, <2>5 DEF SeedInv, RecordedBatchIsWhole
<1>7. CASE RecordBatch
  <2>1. /\ spc = "case" /\ left = {} /\ spc' = "idle"
        /\ UNCHANGED <<cases, truths, batch>>
    BY <1>7 DEF RecordBatch, Written
  <2> QED BY <2>1 DEF SeedInv, RecordedBatchIsWhole
<1> QED BY <1>2, <1>3, <1>4, <1>5, <1>6, <1>7 DEF Seeding, SeedStep

\* Runs, detect and report delete no row and write no truth.
LEMMA SeedInvKept == CommandsInv /\ CommandsInv' /\ SeedInv /\ [CommandsNext]_allVars => SeedInv'
<1> SUFFICES ASSUME CommandsInv, CommandsInv', SeedInv, [CommandsNext]_allVars PROVE SeedInv'
  OBVIOUS
<1> USE DEF storeVars, seederVars
<1>1. SeederTypeOK /\ StoreTypeOK
  BY DEF CommandsInv, CommandsTypeOK, TypeOK
<1>2. PICK F : F = Failures
  OBVIOUS
<1>3. Held(F)
  BY <1>2 DEF CommandsInv
<1>4. CASE Run
  <2>1. PICK p \in Procs : StartRun(p) \/ Step(p) \/ Crash(p)
    BY <1>4 DEF Run
  <2>2. \A c \in Cases : cases[c] # NoCase => cases'[c] # NoCase
    BY <1>3, <2>1, RowsRemain
  <2>3. UNCHANGED truths
    BY <2>1 DEF Step, Turn, EndOfTurn, StartRun, SkipTerminal, OpenCase, LogDetected,
         Return, Crash, Diagnose, LogVerdict, LogAttempt, RefuseKilled, ExecuteLocally,
         ExecuteInjected, ExecuteCreate, ExecuteNotify, Save, LogResult, StopKilled,
         ParkFailed, AskCustomer, NoCustomer, SaveAnswer, CloseCase, NextTurn, ParkExpired
  <2> QED BY <1>1, <1>4, <2>2, <2>3, SeedAside DEF Run
<1>5. CASE Detecting
  <2>1. UNCHANGED <<truths, seederVars>>
    BY <1>5 DEF Detecting, FailPayment, ListPayments, DetectStep, ReadRow, RejectForeign,
                WriteRow, ReturnDetect
  <2>2. \A c \in Cases : cases[c] # NoCase => cases'[c] # NoCase
    <3>1. CASE WriteRow
      <4>1. PICK new : new = Merged(merging.id, merging.row, payments[merging.id])
        OBVIOUS
      <4>2. new \in Case /\ Upsert(new)
        BY <1>2, <3>1, <4>1, MergedRow DEF WriteRow
      <4> QED BY <1>1, <4>2, StoreAssumption DEF Upsert, StoreTypeOK
    <3>2. CASE ~WriteRow
      BY <1>5, <3>2 DEF Detecting, FailPayment, ListPayments, DetectStep, ReadRow,
                        RejectForeign, ReturnDetect
    <3> QED BY <3>1, <3>2
  <2> QED BY <1>1, <2>1, <2>2, SeedAside
<1>6. CASE Seeding
  BY <1>6, SeedKept
<1>7. CASE Reporting
  <2>1. UNCHANGED <<storeVars, seederVars>>
    BY <1>7 DEF Reporting, ListRows, ReportStep, ListTrail, ListTruths, Query, ReturnReport
  <2> QED BY <1>1, <2>1, SeedAside
<1>8. CASE Die
  <2>1. UNCHANGED <<storeVars, batch, recorded>> /\ (UNCHANGED <<spc, left>> \/ spc' = "idle")
    BY <1>8 DEF Die, DieDetecting, DieSeeding
  <2> QED BY <1>1, <2>1, SeedAside
<1>9. CASE UNCHANGED allVars
  BY <1>1, <1>9, SeedAside DEF allVars, vars
<1> QED BY <1>4, <1>5, <1>6, <1>7, <1>8, <1>9 DEF CommandsNext, Rest

\* What seed has put on record, and what it has left half-way, is what it knows.
THEOREM SeedInvariant == CommandsSpec => []SeedInv
<1>1. CommandsInit => SeedInv
  BY DEF CommandsInit, SeederInit, SeedInv, RecordedBatchIsWhole
<1> QED BY <1>1, SeedInvKept, CommandsInvariant, PTL DEF CommandsSpec

\* A batch on record is whole, although seed commits it case by case, may die
\* between any two commits, and may be forced over a running batch.
THEOREM BatchIsWhole == CommandsSpec => []RecordedBatchIsWhole
<1>1. SeedInv => RecordedBatchIsWhole
  BY DEF SeedInv
<1> QED BY <1>1, SeedInvariant, PTL

-----------------------------------------------------------------------------
(* Who pays.                                                                *)

\* Only a profile that counts as recoverable answers with a payment.
LEMMA PayersProfile ==
  ASSUME NEW case, NEW a, NEW truth, Respond(case, a, truth).kind = "paid"
  PROVE  truth.profile \in RecoverableProfiles
<1>1. Pays(case, a, truth)
  BY DEF Respond
<1> QED BY <1>1 DEF Pays, RecoverableProfiles

\* A payment is written by the step that asks the customer of the case at hand.
LEMMA PaymentsWritten ==
  ASSUME NEW F, Held(F), NEW p \in Procs, StartRun(p) \/ Step(p) \/ Crash(p),
         NEW e \in audit' \ audit, e.event_type = "customer_response", e.what = "paid"
  PROVE  /\ e.case_id \in Cases /\ truths[e.case_id] # NoTruth
         /\ truths[e.case_id].profile \in RecoverableProfiles
<1>1. CASE AskCustomer(p)
  <2> DEFINE truth == truths[cur[p].case_id]
             answer == Respond(cur[p], action[p], truth)
  <2>1. /\ pc[p] = "outcome" /\ truth # NoTruth
        /\ Log(p, "customer_response", answer.kind, answer.payment_link_id)
    BY <1>1 DEF AskCustomer
  <2> HIDE DEF answer
  <2>2. e.case_id = cur[p].case_id /\ answer.kind = "paid"
    BY <2>1 DEF Log, Append, Event
  <2>3. truth.profile \in RecoverableProfiles
    BY <2>2, PayersProfile DEF answer
  <2>4. cur[p].case_id \in Cases
    BY <2>1, LocalTypes DEF CurOK
  <2> QED BY <2>1, <2>2, <2>3, <2>4
<1>2. CASE \/ LogVerdict(p) \/ LogAttempt(p) \/ LogResult(p) \/ ParkFailed(p) \/ CloseCase(p)
  <2>1. PICK type \in {"policy_verdict", "action_attempted", "action_result", "case_terminal"} :
          \E what, link : Log(p, type, what, link)
    BY <1>2 DEF LogVerdict, LogAttempt, LogResult, ParkFailed, CloseCase
  <2> QED BY <2>1 DEF Log, Append, Event
<1>3. CASE SkipTerminal(p) \/ LogDetected(p) \/ Diagnose(p) \/ ParkExpired(p)
  <2>1. PICK type \in {"policy_verdict", "case_detected", "diagnosis_completed", "case_terminal"} :
          \E c, turn, what, link : Append(Event(c, type, job[p].by, turn, what, link))
    BY <1>3 DEF SkipTerminal, LogDetected, Diagnose, ParkExpired
  <2> QED BY <2>1 DEF Append, Event
<1>4. CASE UNCHANGED audit
  BY <1>4
<1> QED BY <1>1, <1>2, <1>3, <1>4
        DEF Step, Turn, EndOfTurn, StartRun, OpenCase, Return, Crash, RefuseKilled,
            ExecuteLocally, ExecuteInjected, ExecuteCreate, ExecuteNotify, Save, StopKilled,
            NoCustomer, SaveAnswer, NextTurn, storeVars

\* What report reads of the trail and of the truths is what was written there.
LEMMA PayersKept == CommandsInv /\ SeedInv /\ PayersInv /\ [CommandsNext]_allVars => PayersInv'
<1> SUFFICES ASSUME CommandsInv, SeedInv, PayersInv, [CommandsNext]_allVars PROVE PayersInv'
  OBVIOUS
<1> USE DEF storeVars, seederVars, reporterVars
<1>1. PICK F : F = Failures
  OBVIOUS
<1>2. Held(F)
  BY <1>1 DEF CommandsInv
<1>3. CASE Run
  <2>1. PICK p \in Procs : StartRun(p) \/ Step(p) \/ Crash(p)
    BY <1>3 DEF Run
  <2>2. UNCHANGED <<batch, seen>>
    BY <1>3 DEF Run
  <2>3. \A e \in audit' \ audit : e.event_type = "customer_response" /\ e.what = "paid" =>
          /\ e.case_id \in Cases /\ truths[e.case_id] # NoTruth
          /\ truths[e.case_id].profile \in RecoverableProfiles
    BY <1>2, <2>1, PaymentsWritten
  <2>4. PayersOK(audit)'
    BY <2>2, <2>3 DEF PayersInv, PayersOK, SeedInv
  <2> QED BY <2>2, <2>4 DEF PayersInv, PayersOK
<1>4. CASE Detecting \/ Die
  <2>1. UNCHANGED <<audit, batch, seen>>
    BY <1>4 DEF Detecting, FailPayment, ListPayments, DetectStep, ReadRow, RejectForeign,
                WriteRow, ReturnDetect, Die, DieDetecting, DieSeeding
  <2> QED BY <2>1 DEF PayersInv, PayersOK
<1>5. CASE Seeding
  <2>1. audit' \in {audit, {}} /\ UNCHANGED <<batch, seen>>
    BY <1>5 DEF Seeding, StartSeed, SeedStep, DropTrail, DeleteRows, SeedCase, SeedTruth,
                RecordBatch
  <2> QED BY <2>1 DEF PayersInv, PayersOK
<1>6. CASE Reporting
  <2>1. UNCHANGED <<audit, batch>>
    BY <1>6 DEF Reporting, ListRows, ReportStep, ListTrail, ListTruths, Query, ReturnReport
  <2>2. seen'.trail \in {seen.trail, audit, {}}
    BY <1>6 DEF CommandsInv, CommandsTypeOK, ReporterTypeOK, Reporting, ListRows, ReportStep,
                ListTrail, ListTruths, Query, Read, ReturnReport, NothingSeen
  <2>3. \A c \in Cases : seen'.truths[c] \in {seen.truths[c], truths[c], NoTruth}
    BY <1>6 DEF CommandsInv, CommandsTypeOK, ReporterTypeOK, Reporting, ListRows, ReportStep,
                ListTrail, ListTruths, Query, Read, ReturnReport, NothingSeen
  <2> QED BY <2>1, <2>2, <2>3 DEF PayersInv, PayersOK, SeedInv
<1>7. CASE UNCHANGED allVars
  BY <1>7 DEF allVars, vars, PayersInv, PayersOK
<1> QED BY <1>3, <1>4, <1>5, <1>6, <1>7 DEF CommandsNext, Rest

\* Every payment on the trail, and every one report has read, is of a payer.
THEOREM PayersInvariant == CommandsSpec => []PayersInv
<1>1. CommandsInit => PayersInv
  BY DEF CommandsInit, Fresh, ReporterInit, NothingSeen, PayersInv, PayersOK
<1> QED BY <1>1, PayersKept, CommandsInvariant, SeedInvariant, PTL DEF CommandsSpec

\* Every recovered simulated case that report reads is one it counts as
\* captured, also when seed wipes the database between its three queries.
THEOREM RecoveriesAreCaptured == CommandsSpec => []RecoveredAreCaptured
<1>1. PayersInv => RecoveredAreCaptured
  <2> SUFFICES ASSUME PayersInv, NEW c \in RecoveredCases, seen.truths[c] # NoTruth
               PROVE  c \in Captured
    BY DEF RecoveredAreCaptured
  <2>1. c \in PaidIds /\ c \in Cases
    BY DEF RecoveredCases, Reported
  <2>2. PICK e \in seen.trail : /\ e.case_id = c /\ e.event_type = "customer_response"
                                /\ e.what = "paid"
    BY <2>1 DEF PaidIds, InTrail
  <2>3. seen.truths[c].profile \in RecoverableProfiles
    BY <2>1, <2>2 DEF PayersInv, PayersOK
  <2> QED BY <2>1, <2>3 DEF Captured, Recoverable
<1> QED BY <1>1, PayersInvariant, PTL
=============================================================================
