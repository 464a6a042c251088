SPECIFICATION CommandsSpec
CONSTANTS
  Cases <- First1
  Payments <- NoIds
  Batch <- First1
  Foreign <- NoIds
  Forces <- NotForced
  MaxListings = 0
  MaxSeeds = 2
  MaxReports = 0
  Serial = TRUE
  Procs = {p1}
  Intake <- OneIntake
  LlmReplies <- NoReplies
  Modes <- DryOnly
  Kills <- NeverKilled
  MaxRuns = 1
  MaxCrashes = 1
  MaxFaults = 0
  UniqueRefs = FALSE
  BlankIds = FALSE
  MaxSteps = 8
  MAX_LINKS = 2
  MAX_REMINDERS = 1
  ESCALATE_AMOUNT_PAISE = 500000
  NoCase = NoCase
  NoTruth = NoTruth
PROPERTIES OptOutIsPermanent
