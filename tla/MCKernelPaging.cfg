SPECIFICATION KSpec
CONSTANTS
  B = 2
  Page = 4
  data_start = 8
  bss_start = 12
  bss_end = 18
  kernel_end = 24
INVARIANTS NoWriteFault BssClearedExactly
PROPERTY MappedImageBoots
CHECK_DEADLOCK FALSE
