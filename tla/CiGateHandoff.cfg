SPECIFICATION Spec
CONSTANTS
  Self = self
  Consumer = consumer
  Repositories <- Callers
  Answers <- AllAnswers
INVARIANTS RejectionsSurviveSuppression
CHECK_DEADLOCK FALSE
