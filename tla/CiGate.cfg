SPECIFICATION MCSpec
CONSTANTS
  Self = self
  Consumer = consumer
  Repositories <- Callers
  Answers <- AllAnswers
INVARIANTS Justified ReportKeepsDecision PassSurvivesSuppression
PROPERTIES OneVerdict Concludes
CHECK_DEADLOCK FALSE
