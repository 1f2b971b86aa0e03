CONSTANTS
  TotalPhysicalBlocks = 6
  TotalLogicalPages = 2
  PagesInBlock = 2
  PageCountToMaxPerf = 2
  RandomTweak = TRUE
  IOUnitInPage = 2
  GCThreshold = 40
  BadBlockThreshold = 1
  GCMode = 1
  GCReclaimBlocks = 1
  GCReclaimThreshold = 70
  EvictPolicy = "cost-benefit"
  DChoiceParam = 1
  FillingMode = 1
  PagesToWarmup = 1
  InvalidPages = 2
  UInt64Range = 1000
  FormatRanges <- AllPages
SPECIFICATION Spec
CHECK_DEADLOCK FALSE
INVARIANTS MappingExact ProgramOrder
PROPERTIES FillTargetsMet GCTerminates
