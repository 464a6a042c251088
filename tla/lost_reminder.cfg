SPECIFICATION Spec
CONSTANTS
  Cases <- OneCase
  Procs = {p1}
  Intake <- DetectedIntake
  LlmReplies <- NoReplies
  Modes <- LiveOnly
  Kills <- NeverKilled
  MaxRuns = 2
  MaxCrashes = 0
  MaxFaults = 1
  UniqueRefs = TRUE
  BlankIds = FALSE
  MaxSteps = 8
  MAX_LINKS = 2
  MAX_REMINDERS = 3
  ESCALATE_AMOUNT_PAISE = 500000
  NoCase = NoCase
  NoTruth = NoTruth
INVARIANT RemindersSentWithinCap
