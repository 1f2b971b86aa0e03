SPECIFICATION Spec
CONSTANTS
  PageSize = 2
  ListLength = 3
  Pointers <- MCPointers
  Slot = {1, 2}
  MaxCommands = 4
  TotalLogicalPages = 4
  LogicalPageSize = 2
  LBASize <- MCLBASize
  DefaultLBASize = 1
  DefaultNamespaces = 1
  NewNamespace <- MCNewNamespace
  AdminOps <- HealthOnly
  IORequests <- MCIORequests
  Chunks = 2
  Pages = 2
  WriteSize = 2
  Requests20 <- MCRequests20
  Requests12 <- MCRequests12
  Kinds = {"nvm"}
INVARIANT PassedOnUnanswered
CHECK_DEADLOCK FALSE
