CONSTANTS
  Periods = {1, 2}
  MaxTime = 3
  MaxTimers = 3
  MaxQueries = 1
  MaxMessages = 1
SPECIFICATION Spec
CHECK_DEADLOCK FALSE
INVARIANTS TypeOK ViewNeverLags PauseStopsSoon MessagesAccounted OneModelUpdatePerRun PlayingHasItsTimer
PROPERTIES QuitEnds PlayAdvances
