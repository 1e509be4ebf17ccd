SPECIFICATION Spec
CONSTANTS
  MAX_PAGES = 9
  TOTAL_MEMORY = 16
  FREE_MEMORY = 12
  Counts <- MCCounts
INVARIANT HintBelowFree
PROPERTY ImplementsPageAllocator
