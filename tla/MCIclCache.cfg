CONSTANTS
  SetSize = 2
  WaySize = 2
  LCAs = 6
  MaxVersion = 4
  PrefetchCount = 1
  PrefetchRatio = 2
  Configs <- SomeConfigs
  Ranges <- SomeRanges
SPECIFICATION Spec
CHECK_DEADLOCK FALSE
INVARIANTS OneCopy EvictionFreesSet NewestKept
