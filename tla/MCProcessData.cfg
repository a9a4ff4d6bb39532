\* The call returns and the threads go idle, so the system may stop; a thread
\* that is stuck before that violates Terminates.
CHECK_DEADLOCK FALSE
SPECIFICATION FairSpec
CONSTANTS
  NumThreads = 2
  NumChunks  = 3
  NumOutputs = 2
  TiesDown   = {}
  NumAreas   = 2
  BatchSize  = 2
  Buffers    <- MCBuffers
  Garbage    = Garbage
  NumInputs  = 5
  NumPasses  = 2
INVARIANTS
  BufferExclusive
  StagingExclusive
  RegionExclusive
  CleanTeardown
PROPERTIES
  Terminates
  ImplementsSliceWriter
