CONSTANTS
  Unit = "bytes"
  MaxSize = 8
  HasFilters = FALSE
  Hashes = {5}
  HashModulus = 8
  Sizes = {4}
  StabilizedRedMode = 1
  MaxZombies = 1
  PMaxNum = 1
  PMaxDen = 2
  POverwriteNum = 1
  POverwriteDen = 2
  HitUnit = 4
  Alpha = 32
  MaxArrivals = 6
  DevUnit = "bytes"
  DevMaxSize = 9
  Mtu = 4
  PppHeader = 1
  Quota = 4
  UintMax = 7
SPECIFICATION SystemSpec
CHECK_DEADLOCK FALSE
INVARIANTS DeviceNeverDiscards
