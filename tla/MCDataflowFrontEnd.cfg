SPECIFICATION Spec
CONSTANTS
    None = None
    Programs <- MCPrograms
INVARIANTS UsesDominated ReadyToLower StopsForACause
PROPERTIES MeaningLostForACause FrontEndEnds
CHECK_DEADLOCK FALSE
