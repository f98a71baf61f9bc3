SPECIFICATION Spec
CONSTANTS
  Schedules <- ReusedArgument
  IgnoreViolations = FALSE
  BalanceOptions = {TRUE}
INVARIANT ForkKeepsReads
CHECK_DEADLOCK FALSE
