CONSTANTS
  Size <- MCSize
  PageAllocation <- MCPageAllocation
  Superblock <- MCSuperblock
  MultiPlane = FALSE
  FlashType = "MLC"
  Timing <- MCTiming
  ChannelKeys = {1, 2, 3}
  DieKeys = {4, 7}
  FlushPeriod = 9
  FlushRange = 2
  PageLatency = 1
  RefreshPeriod = 4
  RefreshLatency = 2
  MaxWork = 4
  Delay = {0, 7}
SPECIFICATION Spec
INVARIANTS
  OneAtATime
  DieHeldThroughout
  AddressesApart
CHECK_DEADLOCK FALSE
