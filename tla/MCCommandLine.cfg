SPECIFICATION Spec
CONSTANTS
  Calls <- MCCalls
  MaxSourceBlocks = 8
  TargetBlocks = 3
  Word = 4096
  Megabyte = 16
  LongWord = 65536
  Narrow = FALSE
  Physical <- MCPhysical
INVARIANTS
  OrderFree
  BlockSizeLeast
  LimitsKept
CHECK_DEADLOCK FALSE
