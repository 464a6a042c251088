SPECIFICATION Spec
CONSTANTS
  Cases <- OneCase
  Procs = {p1}
  Intake <- AllIntake
  LlmReplies <- SomeReplies
  Modes <- AllModes
  Kills <- AnyKill
  MaxRuns = 3
  MaxCrashes = 1
  MaxFaults = 1
  UniqueRefs = FALSE
  BlankIds = TRUE
  MaxSteps = 3
  MAX_REMINDERS = 3
  MAX_LINKS = 2
  ESCALATE_AMOUNT_PAISE = 500000
  NoCase = NoCase
  NoTruth = NoTruth
INVARIANTS TypeOK OptOutIsAStop WaitIsEarned StatusBackedByTrail ContactsAccounted DetectedOnce PaidIsRecovered LoopMakesProgress SoloInv
PROPERTIES RowsOnlyAdvance ContactIsLicensed ClimbsTheLadder RunsReturn
