CONSTANTS
  Unit = "bytes"
  MaxSize = 5
  HasFilters = FALSE
  Hashes = {5, 7}
  HashModulus = 8
  Sizes = {1}
  StabilizedRedMode = 2
  MaxZombies = 1
  PMaxNum = 1
  PMaxDen = 2
  POverwriteNum = 1
  POverwriteDen = 2
  HitUnit = 4
  Alpha = 32
  MaxArrivals = 5
SPECIFICATION Spec
CHECK_DEADLOCK FALSE
INVARIANTS ZapAtMostPMax
