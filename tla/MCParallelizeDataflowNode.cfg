SPECIFICATION Spec
CONSTANTS
  Programs <- MCPrograms
  Top = Top
  NodeA = NodeA
  NodeB = NodeB
  NodeC = NodeC
  Outer = Outer
  Inner = Inner
INVARIANTS
  FactorsDivideTrips
  WorkPreserved
  BudgetSpent
  FactorsFollowWork
  CrashHasCause
PROPERTIES
  SeedsOnlyGrow
  ParallelizationEnds
CHECK_DEADLOCK FALSE
