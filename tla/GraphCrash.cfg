CONSTANTS
  MaxRetries = 1
  MaxAttempts = 2
  MaxSql <- MCMaxSql
  Faults <- MCFaultsCrash
SPECIFICATION Spec
INVARIANTS
  DatabaseValidated
  SequentialProgressKept
CHECK_DEADLOCK FALSE
