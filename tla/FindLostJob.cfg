CONSTANTS
  Workers = {w1, w2}
  w1 = w1
  w2 = w2
  Suites = {1, 2}
  Examples = {3}
  Skips = {}
  Undecodable = FALSE
  MaxLaunchFailures = 1
SPECIFICATION Spec
CHECK_DEADLOCK FALSE
PROPERTIES EveryRunEnds
