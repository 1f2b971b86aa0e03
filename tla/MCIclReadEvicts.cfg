CONSTANTS
  SetSize = 1
  WaySize = 1
  LCAs = 2
  MaxVersion = 4
  PrefetchCount = 1
  PrefetchRatio = 2
  Configs <- ReadAndWrite
  Ranges <- SomeRanges
SPECIFICATION Spec
CHECK_DEADLOCK FALSE
PROPERTY DirtyReachesFlash
