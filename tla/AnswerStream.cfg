CONSTANTS
  QueueSize = 2
  MaxRetries = 1
  HasFallback = TRUE
  Batch = 2
  StoreFails = TRUE
  MaxStages = 2
  MaxTokens = 3
SPECIFICATION Spec
INVARIANTS
  TypeOK
  SuccessHasAnswer
  DeltasAreTheAnswer
  FailureReported
  OneError
PROPERTIES
  StreamEnds
  OutcomeSpec
