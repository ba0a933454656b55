CONSTANTS
  Unit = "bytes"
  MaxSize = 4
  HasFilters = FALSE
  Hashes = {5}
  HashModulus = 8
  Sizes = {1, 3}
  StabilizedRedMode = 1
  MaxZombies = 1
  PMaxNum = 1
  PMaxDen = 2
  POverwriteNum = 1
  POverwriteDen = 2
  HitUnit = 4
  Alpha = 32
  MaxArrivals = 5
  DevUnit = "bytes"
  DevMaxSize = 8
  Mtu = 4
  PppHeader = 1
  Quota = 1
  UintMax = 7
SPECIFICATION SystemSpec
CHECK_DEADLOCK FALSE
PROPERTIES AcceptedPacketsAreSent
