CONSTANTS
  Queues = {q1}
  q1 = q1
  DevMaxSize = 1
  Sizes = {1, 2}
  Limit = 2
  Second = 4
  Rate = 64
  Burst = 3
  PeakRate = 0
  Mtu = 2
  Horizon = 2
  MaxArrivals = 4
SPECIFICATION Spec
CHECK_DEADLOCK FALSE
PROPERTIES AcceptedPacketsLeave
