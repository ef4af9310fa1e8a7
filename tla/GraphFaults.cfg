CONSTANTS
  MaxRetries = 2
  MaxAttempts = 2
  MaxSql <- MCMaxSql
  Faults <- MCFaultsReported
SPECIFICATION FairSpec
INVARIANTS
  TypeOK
  NewExecutionFullyChecked
  AnswerOfNewExecution
  OutcomeRecorded
PROPERTIES
  FinishedExecutionDoesNothing
  AttemptEnds
CHECK_DEADLOCK FALSE
