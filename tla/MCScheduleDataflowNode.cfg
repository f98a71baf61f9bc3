SPECIFICATION ScheduleSpec
CONSTANTS
  Schedules <- MCSchedules
  IgnoreViolations = FALSE
INVARIANTS
  LevelsSettled
  LevelAboveDependents
  LevelIsLongestPath
  UnscheduledForACause
PROPERTIES
  ScheduleTerminates
CHECK_DEADLOCK FALSE
