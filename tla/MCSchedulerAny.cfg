SPECIFICATION Spec
CONSTANTS
  HEAP_START = 128
  HEAP_SIZE = 24584
  U64 = 131072
  Sizes <- MCSizes
  MAX_THREADS = 3
  DEFAULT_TIME_SLICE = 2
  CLEANUP_PERIOD = 2
  U32 = 5
  MaxNesting = 2
  Protocol = "any"
INVARIANTS
  TypeOK
  CurrentIsRunning
  ExecutingSlotKept
  TidsFresh
  StacksOwned
  HeapSound
