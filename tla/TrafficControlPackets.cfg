CONSTANTS
  Unit = "packets"
  MaxSize = 2
  HasFilters = TRUE
  Hashes = {3, 5, 7}
  HashModulus = 8
  Sizes = {2}
  StabilizedRedMode = 2
  MaxZombies = 1
  PMaxNum = 1
  PMaxDen = 2
  POverwriteNum = 1
  POverwriteDen = 2
  HitUnit = 4
  Alpha = 32
  MaxArrivals = 6
  DevUnit = "packets"
  DevMaxSize = 2
  Mtu = 4
  PppHeader = 1
  Quota = 1
  UintMax = 7
SPECIFICATION SystemSpec
CHECK_DEADLOCK FALSE
INVARIANTS OneFatePerPacket InternalQueueNeverRefuses BacklogWillBeServed WorkConserving
PROPERTIES ZapOnlyUnderLoad ImplementsLossyQueueEndToEnd
