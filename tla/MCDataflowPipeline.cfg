SPECIFICATION Spec
CONSTANTS
  Schedules <- MCSchedules
  IgnoreViolations = FALSE
  BalanceOptions = {TRUE, FALSE}
INVARIANTS
  TypeOK
  MeaningPreserved
  LevelsStayOrdered
  FlowsGoDown
  ViolationsStayEliminated
  EdgesBalanced
  LegalMeansVerified
  DramBuffersHaveTokens
PROPERTY
  BalancedRunsEnd
CHECK_DEADLOCK FALSE
