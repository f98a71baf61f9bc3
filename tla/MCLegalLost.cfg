SPECIFICATION Spec
CONSTANTS
  Schedules <- DeadInputOnly
  IgnoreViolations = FALSE
  BalanceOptions = {TRUE}
INVARIANT ResolvedMeansLegal
CHECK_DEADLOCK FALSE
