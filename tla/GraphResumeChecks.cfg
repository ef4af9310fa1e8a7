CONSTANTS
  MaxRetries = 1
  MaxAttempts = 2
  MaxSql <- MCMaxSql
  Faults <- MCFaultsCrash
SPECIFICATION Spec
INVARIANT
  FullyChecked
CHECK_DEADLOCK FALSE
