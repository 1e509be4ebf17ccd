SPECIFICATION UserSpec
CONSTANTS
  B = 4
  LastFrame = 45
  Reached = 41
  KERNEL_VMA_BASE = 128
  Frames <- MCFrames
  current_pml4 = 1
  BootMem <- MCBootMem
  BootPool <- MCPool
  KVas <- MCKVas
  PAddrs <- MCPAddrs
  KFlags <- MCKFlags
  Counts <- MCCounts
  CODE_VA = 1
  STACK_VA = 8
  UM_CODE_VA = 4
  MaxProcs = 2
INVARIANTS UserPagesIsolated ProcessLayout KernelHalfShared TlbNeverStale
CHECK_DEADLOCK FALSE
