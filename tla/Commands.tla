------------------------------ MODULE Commands -------------------------------
(***************************************************************************)
(* The commands of PayRecover on one SQLite file (src/payrecover/cli.py):  *)
(* payments fail, detect and seed write cases, run works them, report      *)
(* reads them.  Nothing keeps two commands from running at once (Serial is *)
(* the operator who never does that), and each that writes may die between *)
(* two of its commits; a report that dies leaves nothing behind.           *)
(***************************************************************************)
EXTENDS Runner, Detector, Seeder, Reporter

CONSTANT Serial   \* one command at a time

ASSUME CommandsAssumption == Serial \in BOOLEAN /\ Payments \cap Batch = {}

allVars == <<vars, detectorVars, seederVars, reporterVars>>

CommandsTypeOK == TypeOK /\ DetectorTypeOK /\ SeederTypeOK /\ ReporterTypeOK

\* An empty database.  What will fail, and what seed will make, is settled already.
CommandsInit ==
  /\ cases = [c \in Cases |-> NoCase]
  /\ truths = [c \in Cases |-> NoTruth]
  /\ Fresh
  /\ payments \in [Payments -> {i.failure : i \in Intake}]
  /\ batch \in [Batch -> {i \in Intake : i.truth # NoTruth}]
  /\ DetectorInit /\ SeederInit /\ ReporterInit

Idle == (\A p \in Procs : pc[p] = "idle") /\ dpc = "idle" /\ spc = "idle" /\ rpc = "idle"

MayStart == Serial => Idle

runnerVars == <<razorpayVars, pc, runVars, caseVars, crashes>>

Run ==
  /\ \E p \in Procs : (MayStart /\ StartRun(p)) \/ Step(p) \/ Crash(p)
  /\ UNCHANGED <<detectorVars, seederVars, reporterVars>>

Detecting ==
  /\ FailPayment \/ (MayStart /\ ListPayments) \/ DetectStep
  /\ UNCHANGED <<runnerVars, seederVars, reporterVars>>

Seeding ==
  /\ (MayStart /\ StartSeed) \/ SeedStep
  /\ UNCHANGED <<runnerVars, detectorVars, reporterVars>>

Reporting ==
  /\ (MayStart /\ ListRows) \/ ReportStep
  /\ UNCHANGED <<runnerVars, detectorVars, seederVars>>

Die ==
  /\ crashes < MaxCrashes /\ crashes' = crashes + 1
  /\ \/ DieDetecting /\ UNCHANGED seederVars
     \/ DieSeeding /\ UNCHANGED detectorVars
  /\ UNCHANGED <<razorpayVars, pc, runVars, caseVars, reporterVars>>

\* Between two commands the operator may leave it at that.
Rest == Idle /\ UNCHANGED allVars

CommandsNext == Run \/ Detecting \/ Seeding \/ Reporting \/ Die \/ Rest

\* A started command is scheduled until it returns.
CommandsSpec ==
  /\ CommandsInit /\ [][CommandsNext]_allVars
  /\ \A p \in Procs : WF_allVars(Step(p) /\ UNCHANGED <<detectorVars, seederVars, reporterVars>>)
  /\ WF_allVars(DetectStep /\ UNCHANGED <<runnerVars, seederVars, reporterVars>>)
  /\ WF_allVars(SeedStep /\ UNCHANGED <<runnerVars, detectorVars, reporterVars>>)
  /\ WF_allVars(ReportStep /\ UNCHANGED <<runnerVars, detectorVars, seederVars>>)
=============================================================================
