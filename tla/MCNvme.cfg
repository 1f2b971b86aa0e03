SPECIFICATION Spec
CONSTANTS
  LastSQ = 1
  LastCQ = 1
  SqSize = 3
  CqSize = 3
  CqOf <- MCCqOf
  Vector <- MCOneVector
  Priority <- MCPriority
  Arbitration = {"round robin", "weighted"}
  WrrHigh = 2
  WrrMedium = 2
  MaxRequest = 1
  Threshold = 1
  AdminOps = {"delete SQ", "create SQ", "delete CQ", "create CQ", "abort", "coalesce", "shutdown"}
  HostDrains = TRUE
  Start = 2
  MaxCommands = 3
INVARIANTS
  InOnePlace
  NeverPanics
  NoFetchFromDeleted
PROPERTIES
  AfterShutdown
  AllDone
  ShutdownCompletes
CHECK_DEADLOCK FALSE
