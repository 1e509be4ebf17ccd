SPECIFICATION VmmSpec
CONSTANTS
  B = 4
  LastFrame = 24
  Reached = 21
  KERNEL_VMA_BASE = 128
  Frames <- MCFrames
  current_pml4 = 1
  BootMem <- MCBootMem
  BootPool <- MCPool
  KVas <- MCKVas
  PAddrs <- MCPAddrs
  KFlags <- MCKFlags
  Counts <- MCCounts
INVARIANTS TablesFormTree MapPagesAllOrUnmapped
PROPERTIES ImplementsAddressMap
CHECK_DEADLOCK FALSE
