SPECIFICATION Spec
CONSTANTS
  Schedules <- ReadThenWritten
  IgnoreViolations = FALSE
  BalanceOptions = {TRUE}
INVARIANT LegalMeansResolved
CHECK_DEADLOCK FALSE
