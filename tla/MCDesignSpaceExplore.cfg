SPECIFICATION Spec
CONSTANTS
  Forests <- MCForests
  Outcomes <- MCOutcomes
  MaxNestParallel = 12
  MaxDspNum = 5
  MaxInitParallel = 1
  MaxExplParallel = 6
  MaxLoopParallel = 6
  MaxIterNum = 3
  MaxDistanceSquare = 1
  DirectiveOptions = {TRUE, FALSE}
INVARIANTS
  TypeOK
  NestsOutsideIn
  NeverFullyUnrolled
  ParetoPointsAreFrontier
  ExploredToTheEnd
  CombinationsCovered
  AppliedIsBest
PROPERTIES
  ExplorationEnds
  ImplementsBestDesign
CHECK_DEADLOCK FALSE
