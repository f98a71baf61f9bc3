SPECIFICATION Spec
CONSTANTS
  Schedules <- RewrittenArgument
  IgnoreViolations = FALSE
  BalanceOptions = {TRUE}
INVARIANT DramDependencesHaveTokens
CHECK_DEADLOCK FALSE
