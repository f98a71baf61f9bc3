SPECIFICATION Spec
CONSTANTS
  Programs <- Shapes
  Many = 4
  NoLevel = NoLevel
  A = A
  B = B
INVARIANTS
  ForwardOrder
  AccessesFitII
  CarriedRespected
PROPERTIES
  ImplementsPortSchedule
  EstimationEnds
CHECK_DEADLOCK FALSE
