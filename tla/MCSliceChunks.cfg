SPECIFICATION Spec
CONSTANTS
  Stride = 2
  IdealChunks <- MCIdealChunks
  MaxSlice = 24
  MaxThreads = 5
  MaxOutputs = 4
INVARIANTS
  ChunksTile
  KernelPartition
