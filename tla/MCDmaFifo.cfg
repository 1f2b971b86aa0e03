SPECIFICATION Spec
CONSTANTS
  Capacity <- MCCapacity
  TransferUnit = 2
  Size = {0, 1, 3, 11}
  MaxRequests = 3
INVARIANTS
  UsageExact
PROPERTIES
  ImplementsPort
  AllAnswered
CHECK_DEADLOCK FALSE
