CONSTANTS
  BlockSize = 5
  FileSizes <- MCFileSizes
  Boundary = 7
  SkipLeaway = 1
  SkipData = {TRUE, FALSE}
SPECIFICATION Spec
INVARIANTS WholeWindowTrue FileHashesTrue
PROPERTY SkipsOnlyFar
CHECK_DEADLOCK FALSE
