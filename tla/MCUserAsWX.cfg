SPECIFICATION UserSpec
CONSTANTS
  B = 4
  LastFrame = 31
  Reached = 31
  KERNEL_VMA_BASE = 128
  Frames <- MCFrames
  current_pml4 = 1
  BootMem <- MCBootMem
  BootPool <- MCPool
  KVas <- MCKVas
  PAddrs <- MCPAddrs
  KFlags <- MCKFlags
  Counts <- MCCounts
  CODE_VA = 1
  STACK_VA = 8
  UM_CODE_VA = 4
  MaxProcs = 2
INVARIANT WriteXorExecute
CHECK_DEADLOCK FALSE
