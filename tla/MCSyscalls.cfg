SPECIFICATION CooperativeSyscallSpec
CONSTANTS
  HEAP_START = 128
  HEAP_SIZE = 32776
  U64 = 131072
  Sizes <- MCSizes
  MAX_THREADS = 3
  DEFAULT_TIME_SLICE = 2
  CLEANUP_PERIOD = 3
  U32 = 7
  MaxNesting = 2
  Protocol = "one"
  Numbers <- MCNumbers
  Sleeps <- MCSleeps
  MaxSyscalls = 2
INVARIANTS
  RunningAccountedFor
  NeverTwiceAtOnce
  PidIsOwn
PROPERTIES
  CompletionIsTrue
  RunExecutesAll
  ReadyGetsTurn
