CONSTANTS
  Unit = "bytes"
  MaxSize = 6
  HasFilters = TRUE
  Hashes = {3, 5, 7}
  HashModulus = 8
  Sizes = {1, 3}
  StabilizedRedMode = 2
  MaxZombies = 1
  PMaxNum = 1
  PMaxDen = 2
  POverwriteNum = 2
  POverwriteDen = 2
  HitUnit = 4
  Alpha = 64
  MaxArrivals = 5
SPECIFICATION Spec
CHECK_DEADLOCK FALSE
INVARIANTS OneFatePerPacket 
PROPERTIES ZapOnlyUnderLoad
