SPECIFICATION Spec
CONSTANTS
  Schedules <- DiamondOnly
  IgnoreViolations = FALSE
  BalanceOptions = {FALSE}
PROPERTY EveryRunEnds
CHECK_DEADLOCK FALSE
