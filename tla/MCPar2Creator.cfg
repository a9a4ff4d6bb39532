CONSTANTS
  file1 = file1
  file2 = file2
  None = None
  Torn = Torn
  Workers = {w1, w2}
  Jobs <- MCJobs
  Foreign <- MCForeign
  Boundary = 5
  ReadBuffer = 6
  MaxChunk = 100
  MaxBlocks = 4
SPECIFICATION Spec
INVARIANTS PacketsTrue AllocationTrue SuccessComplete Reproducible
PROPERTY OthersKept
CHECK_DEADLOCK FALSE
