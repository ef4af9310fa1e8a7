CONSTANTS
  MaxRetries = 1
  MaxAttempts = 2
  MaxSql <- MCMaxSql
  Faults <- MCFaultsCrash
SPECIFICATION Spec
INVARIANT
  ResumeKeepsUpdates
CHECK_DEADLOCK FALSE
