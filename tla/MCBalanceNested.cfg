SPECIFICATION Spec
CONSTANTS
  Schedules <- NestedBypass
  IgnoreViolations = FALSE
  BalanceOptions = {TRUE}
INVARIANT ExternalBufferInTopSchedule
CHECK_DEADLOCK FALSE
