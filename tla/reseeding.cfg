SPECIFICATION CommandsSpec
CONSTANTS
  Cases <- First1
  Payments <- NoIds
  Batch <- First1
  Foreign <- NoIds
  Forces <- MayForce
  MaxListings = 0
  MaxSeeds = 2
  MaxReports = 0
  Serial = FALSE
  Procs = {p1}
  Intake <- CommandIntake
  LlmReplies <- NoReplies
  Modes <- LiveOnly
  Kills <- NeverKilled
  MaxRuns = 2
  MaxCrashes = 1
  MaxFaults = 1
  UniqueRefs = TRUE
  BlankIds = FALSE
  MaxSteps = 4
  MAX_LINKS = 2
  MAX_REMINDERS = 1
  ESCALATE_AMOUNT_PAISE = 500000
  NoCase = NoCase
  NoTruth = NoTruth
INVARIANTS RecordedBatchIsWhole RerunsNeverDuplicateLinks
