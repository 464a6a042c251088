SPECIFICATION Spec
CONSTANTS
  Cases <- OneCase
  Procs = {p1, p2}
  Intake <- FewIntake
  LlmReplies <- NoReplies
  Modes <- DryAndLive
  Kills <- AnyKill
  MaxRuns = 2
  MaxCrashes = 1
  MaxFaults = 0
  UniqueRefs = FALSE
  BlankIds = TRUE
  MaxSteps = 8
  MAX_LINKS = 2
  MAX_REMINDERS = 3
  ESCALATE_AMOUNT_PAISE = 500000
  NoCase = NoCase
  NoTruth = NoTruth
INVARIANTS BudgetSuffices SecondLinkUnreachable ExhaustedMeansAllReminders HighAmountNeverContacted TrailExplainsOutcome AttemptsAnswered IInv TrailInv
