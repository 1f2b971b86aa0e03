CONSTANTS
  TotalPhysicalBlocks = 5
  TotalLogicalPages = 4
  PagesInBlock = 2
  PageCountToMaxPerf = 1
  RandomTweak = FALSE
  IOUnitInPage = 2
  GCThreshold = 40
  BadBlockThreshold = 2
  GCMode = 0
  GCReclaimBlocks = 1
  GCReclaimThreshold = 50
  EvictPolicy = "greedy"
  DChoiceParam = 1
  FillingMode = 0
  PagesToWarmup = 4
  InvalidPages = 1
  UInt64Range = 1000
  FormatRanges <- NoFormat
SPECIFICATION Spec
CHECK_DEADLOCK FALSE
INVARIANTS TypeOK FreeListSound NoBlockLost SanityChecks CollectionKeepsUp
PROPERTIES WearLevelled ImplementsLogicalSpace
