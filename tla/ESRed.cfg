CONSTANTS
  Unit = "bytes"
  MaxSize = 4
  HasFilters = FALSE
  Hashes = {5, 7}
  HashModulus = 8
  Sizes = {1}
  StabilizedRedMode = 1
  MaxZombies = 2
  PMaxNum = 1
  PMaxDen = 2
  POverwriteNum = 1
  POverwriteDen = 2
  HitUnit = 4
  Alpha = 16
  MaxArrivals = 5
  MaxTime = 2
SPECIFICATION Spec
CHECK_DEADLOCK FALSE
PROPERTIES OverwritingOnlyGetsRarer StampFollowsRecord ImplementsStabilizedRed
