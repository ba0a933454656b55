CONSTANTS
  Queues = {q1, q2}
  q1 = q1
  q2 = q2
  DevMaxSize = 1
  Sizes = {1, 2}
  Limit = 2
  Second = 4
  Rate = 20
  Burst = 3
  PeakRate = 24
  Mtu = 2
  Horizon = 5
  MaxArrivals = 4
SPECIFICATION Spec
CHECK_DEADLOCK FALSE
INVARIANTS EveryPacketInOnePlace SentInOrderWithHeader RateIsKept
PROPERTIES AcceptedPacketsLeave
