SPECIFICATION CommandsSpec
CONSTANTS
  Cases <- First1
  Payments <- NoIds
  Batch <- First1
  Foreign <- NoIds
  Forces <- NotForced
  MaxListings = 0
  MaxSeeds = 1
  MaxReports = 1
  Serial = FALSE
  Procs = {p1}
  Intake <- ReportIntake
  LlmReplies <- DoubtfulReplies
  Modes <- LiveOnly
  Kills <- NeverKilled
  MaxRuns = 2
  MaxCrashes = 1
  MaxFaults = 0
  UniqueRefs = FALSE
  BlankIds = FALSE
  MaxSteps = 4
  MAX_LINKS = 2
  MAX_REMINDERS = 1
  ESCALATE_AMOUNT_PAISE = 500000
  NoCase = NoCase
  NoTruth = NoTruth
INVARIANTS RecoveriesAgree EscalationsExplained RecoveredAreCaptured ContactsAreCounted
