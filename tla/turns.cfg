SPECIFICATION CommandsSpec
CONSTANTS
  Cases <- All3
  Payments <- SecondAndThird
  Batch <- First1
  Foreign <- Third3
  Forces <- MayForce
  MaxListings = 2
  MaxSeeds = 2
  MaxReports = 0
  Serial = TRUE
  Procs = {p1}
  Intake <- TurnIntake
  LlmReplies <- NoReplies
  Modes <- DryOnly
  Kills <- NeverKilled
  MaxRuns = 2
  MaxCrashes = 1
  MaxFaults = 0
  UniqueRefs = FALSE
  BlankIds = FALSE
  MaxSteps = 4
  MAX_LINKS = 2
  MAX_REMINDERS = 1
  ESCALATE_AMOUNT_PAISE = 500000
  NoCase = NoCase
  NoTruth = NoTruth
INVARIANTS CommandsTypeOK EndsAreAudited
PROPERTIES OnlySeedTakesBack SeedCompletes ListedBecomeCases SelectedCasesSettle
