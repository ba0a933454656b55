CONSTANTS
  Unit = "packets"
  MaxSize = 3
  HasFilters = FALSE
  Hashes = {5, 7}
  HashModulus = 8
  Sizes = {1, 2}
  StabilizedRedMode = 1
  MaxZombies = 2
  PMaxNum = 1
  PMaxDen = 2
  POverwriteNum = 0
  POverwriteDen = 2
  HitUnit = 4
  Alpha = 0
  MaxArrivals = 5
SPECIFICATION Spec
CHECK_DEADLOCK FALSE
INVARIANTS BytesMatchItems InternalQueueNeverRefuses
