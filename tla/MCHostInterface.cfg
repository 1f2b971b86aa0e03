SPECIFICATION Spec
CONSTANTS
  Slots = {0, 1}
  SataOperations <- QueuedAndAlone
  MaxCommands = 2
  MaxResets = 2
  UfsOperations = {"nop", "scsiRead"}
  MaxTransfers = 3
  MaxUIC = 2
  Programs <- MCPrograms
INVARIANTS
  ResponseWakes
  UfsInOnePlace
  ReadyToWork
PROPERTIES
  ImplementsSlots
CHECK_DEADLOCK FALSE
