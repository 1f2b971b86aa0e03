\* A chunk of more pages than the mask of writeInternal() has bits: FlashInOrder is
\* violated, as README.md says.
SPECIFICATION Spec
CONSTANTS
  PageSize = 2
  ListLength = 3
  Pointers <- MCLongPointers
  Slot = {1}
  MaxCommands = 2
  TotalLogicalPages = 4
  LogicalPageSize = 2
  LBASize <- MCLBASize
  DefaultLBASize = 1
  DefaultNamespaces = 1
  NewNamespace <- MCNewNamespace
  AdminOps <- MCAdminOps
  IORequests <- MCIORequests
  Chunks = 1
  Pages = 66
  WriteSize = 1
  Requests20 <- MCLongWrite
  Requests12 <- MCRequests12
  Kinds = {"ocssd20"}
INVARIANT FlashInOrder
CHECK_DEADLOCK FALSE
