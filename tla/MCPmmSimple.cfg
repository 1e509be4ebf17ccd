SPECIFICATION Spec
CONSTANTS
  START_PAGE = 2
  END_PAGE = 8
  MAX_FREE_PAGES = 3
  ADDR_PAGES = 64
  Counts <- MCCounts
INVARIANTS
  TypeOK
  NoAliasing
  StatsAddUp
PROPERTIES
  LostOnlyWhenFull
  ImplementsPageAllocator
