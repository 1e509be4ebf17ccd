SPECIFICATION BootSpec
CONSTANTS
  HEAP_START = 4096
  HEAP_SIZE = 1048576
  U64 = 16777216
  Sizes <- MCSizes
  MAX_THREADS = 8
  DEFAULT_TIME_SLICE = 10
  CLEANUP_PERIOD = 100
  U32 = 65536
  MaxNesting = 1
  Protocol = "one"
  Numbers <- MCNumbers
  Sleeps <- MCSleeps
  MaxSyscalls = 20
  Programs <- MCPrograms
  JunkWords <- MCJunkWords
INVARIANT
  WorkersRunOnce
PROPERTIES
  BootUsesSyscalls
  BootEnds
CHECK_DEADLOCK FALSE
