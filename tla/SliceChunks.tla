---------------------------- MODULE SliceChunks ----------------------------
(***************************************************************************)
(* How PAR2ProcCPU lays a slice out in chunks (calcChunkSize,               *)
(* setCurrentSliceSize) and shares the chunks among its workers (RunKernel),*)
(* over the sequences of calls the repairer and the creator make: init once,*)
(* then a slice size per pass and, in the creator, a number of outputs per  *)
(* group of recovery blocks.  chunkLen is input and output of calcChunkSize,*)
(* so what a call computes depends on the calls before it.                  *)
(***************************************************************************)
EXTENDS Integers, Sequences

CONSTANTS
  Stride,       \* info.stride, a power of two
  IdealChunks,  \* the ideal chunk lengths of the multiply methods
  MaxSlice, MaxThreads, MaxOutputs   \* bounds of the instance

VARIABLES
  numThreads,
  sliceSize,               \* the allocation is made for this size
  alignedCurrentSliceSize,
  chunkLen,
  numChunks,
  numOutputs               \* outputExponents.size()

vars == <<numThreads, sliceSize, alignedCurrentSliceSize, chunkLen, numChunks, numOutputs>>

CeilDiv(a, b)  == (a + b - 1) \div b
RoundDiv(a, b) == (a + b \div 2) \div b
AlignToStride(len) == CeilDiv(len, Stride) * Stride
AtLeastOne(n) == IF n < 1 THEN 1 ELSE n

\* One stride more than the data: it holds the checksum.
Aligned(size) == AlignToStride(size) + Stride

\* The number of chunks calcChunkSize aims at, from the old chunk length.
TargetChunks(aligned, len, threads) ==
  LET perThread == CeilDiv(aligned, threads)
  IN  IF perThread <= len \div 2
      THEN AtLeastOne(RoundDiv(aligned, len))
      ELSE AtLeastOne(RoundDiv(perThread, len)) * threads

\* calcChunkSize without the final correction of numChunks.
CalcChunkSizeUncorrected(aligned, len, threads) ==
  LET target == TargetChunks(aligned, len, threads)
  IN  [chunkLen |-> AlignToStride(CeilDiv(aligned, target)), numChunks |-> target]

\* calcChunkSize: the count is corrected because the length was aligned.
CalcChunkSize(aligned, len, threads) ==
  LET newLen == AlignToStride(CeilDiv(aligned, TargetChunks(aligned, len, threads)))
  IN  [chunkLen |-> newLen, numChunks |-> CeilDiv(aligned, newLen)]

\* PAR2ProcCPU::init and the first setRecoverySlices.
Init ==
  \E threads \in 1..MaxThreads, size \in 1..MaxSlice, len \in IdealChunks, outs \in 1..MaxOutputs :
    LET layout == CalcChunkSize(Aligned(size), len, threads)
    IN  /\ numThreads = threads
        /\ sliceSize = size
        /\ alignedCurrentSliceSize = Aligned(size)
        /\ chunkLen = layout.chunkLen
        /\ numChunks = layout.numChunks
        /\ numOutputs = outs

\* A pass works on a slice that is no longer than the first one.
SetCurrentSliceSize(size) ==
  LET layout == CalcChunkSize(Aligned(size), chunkLen, numThreads) IN
  /\ size <= sliceSize
  /\ alignedCurrentSliceSize' = Aligned(size)
  /\ chunkLen' = layout.chunkLen
  /\ numChunks' = layout.numChunks
  /\ UNCHANGED <<numThreads, sliceSize, numOutputs>>

\* The creator's last group of recovery blocks may be smaller.
SetRecoverySlices(outs) ==
  /\ outs <= numOutputs
  /\ numOutputs' = outs
  /\ UNCHANGED <<numThreads, sliceSize, alignedCurrentSliceSize, chunkLen, numChunks>>

Next ==
  \/ \E size \in 1..MaxSlice : SetCurrentSliceSize(size)
  \/ \E outs \in 1..MaxOutputs : SetRecoverySlices(outs)

Spec == Init /\ [][Next]_vars

----------------------------------------------------------------------------
Kernel(t, c, o, ties) ==
  INSTANCE RunKernel WITH NumThreads <- t, NumChunks <- c, NumOutputs <- o, TiesDown <- ties

\* However the calls are ordered the chunks cover the slice and its checksum
\* with no empty chunk at the end (req->len would wrap below zero), whole
\* strides long, and never more than was allocated.
ChunksTile ==
  /\ chunkLen > 0 /\ chunkLen % Stride = 0
  /\ numChunks >= 1
  /\ (numChunks - 1) * chunkLen < alignedCurrentSliceSize
  /\ alignedCurrentSliceSize <= numChunks * chunkLen
  /\ alignedCurrentSliceSize <= Aligned(sliceSize)

\* With every layout the calls can produce, the requests of a batch share the
\* chunks of the outputs out exactly once (RunKernel), whichever way ties are rounded.
KernelPartition ==
  \A ties \in SUBSET (1 .. numOutputs - 1) :
    Kernel(numThreads, numChunks, numOutputs, ties)!KernelPartition
=============================================================================
