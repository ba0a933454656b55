CONSTANTS
  Periods = {1, 2}
  MaxTime = 2
  MaxTimers = 4
  MaxQueries = 0
  MaxMessages = 0
SPECIFICATION Spec
CHECK_DEADLOCK FALSE
PROPERTIES PausedStopsTheTimer
