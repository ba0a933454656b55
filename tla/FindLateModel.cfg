CONSTANTS
  Periods = {1}
  MaxTime = 3
  MaxTimers = 3
  MaxQueries = 0
  MaxMessages = 0
SPECIFICATION Spec
CHECK_DEADLOCK FALSE
PROPERTIES UpdateBeforeNextRun
