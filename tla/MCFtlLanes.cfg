CONSTANTS
  TotalPhysicalBlocks = 6
  TotalLogicalPages = 2
  PagesInBlock = 2
  PageCountToMaxPerf = 2
  RandomTweak = FALSE
  IOUnitInPage = 2
  GCThreshold = 40
  BadBlockThreshold = 2
  GCMode = 0
  GCReclaimBlocks = 1
  GCReclaimThreshold = 50
  EvictPolicy = "greedy"
  DChoiceParam = 1
  FillingMode = 0
  PagesToWarmup = 0
  InvalidPages = 0
  UInt64Range = 1000
  FormatRanges <- NoFormat
SPECIFICATION Spec
CHECK_DEADLOCK FALSE
INVARIANT LanesOpen
