SPECIFICATION CallsSpec
CONSTANTS
  ReadRetries = 5
  MaxCalls = 3
  Failures <- MCFailures
  Answers <- AllAnswers
  LlmReplies <- MCReplies
  MaxDiagnoses = 2
INVARIANTS TypeOK WritesApplyOnce LoopRaisesInside DiagnosesAreAllowed
PROPERTIES CallsReturn QuestionsEnd
