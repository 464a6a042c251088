SPECIFICATION CommandsSpec
CONSTANTS
  Cases <- Second2
  Payments <- Second2
  Batch <- NoIds
  Foreign <- NoIds
  Forces <- NotForced
  MaxListings = 2
  MaxSeeds = 0
  MaxReports = 0
  Serial = FALSE
  Procs = {p1, p2}
  Intake <- TwoIntake
  LlmReplies <- NoReplies
  Modes <- LiveOnly
  Kills <- NeverKilled
  MaxRuns = 2
  MaxCrashes = 1
  MaxFaults = 1
  UniqueRefs = FALSE
  BlankIds = FALSE
  MaxSteps = 4
  MAX_LINKS = 2
  MAX_REMINDERS = 1
  ESCALATE_AMOUNT_PAISE = 500000
  NoCase = NoCase
  NoTruth = NoTruth
INVARIANTS RowsStayWellFormed
