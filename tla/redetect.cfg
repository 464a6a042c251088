SPECIFICATION CommandsSpec
CONSTANTS
  Cases <- Second2
  Payments <- Second2
  Batch <- NoIds
  Foreign <- NoIds
  Forces <- NotForced
  MaxListings = 2
  MaxSeeds = 0
  MaxReports = 0
  Serial = FALSE
  Procs = {p1}
  Intake <- OneIntake
  LlmReplies <- NoReplies
  Modes <- DryOnly
  Kills <- NeverKilled
  MaxRuns = 1
  MaxCrashes = 0
  MaxFaults = 0
  UniqueRefs = FALSE
  BlankIds = FALSE
  MaxSteps = 8
  MAX_LINKS = 2
  MAX_REMINDERS = 1
  ESCALATE_AMOUNT_PAISE = 500000
  NoCase = NoCase
  NoTruth = NoTruth
PROPERTIES RedetectKeepsState
