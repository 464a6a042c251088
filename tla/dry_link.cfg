SPECIFICATION Spec
CONSTANTS
  Cases <- OneCase
  Procs = {p1}
  Intake <- DetectedIntake
  LlmReplies <- NoReplies
  Modes <- DryAndLive
  Kills <- NeverKilled
  MaxRuns = 2
  MaxCrashes = 1
  MaxFaults = 0
  UniqueRefs = FALSE
  BlankIds = FALSE
  MaxSteps = 8
  MAX_LINKS = 2
  MAX_REMINDERS = 3
  ESCALATE_AMOUNT_PAISE = 500000
  NoCase = NoCase
  NoTruth = NoTruth
PROPERTY DetectedCasesTerminate
