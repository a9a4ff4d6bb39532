----------------------------- MODULE RunKernel -----------------------------
(***************************************************************************)
(* PAR2ProcCPU::run_kernel (parpar/gf16/controller_cpu.cpp): how a batch of  *)
(* inputs is cut into the compute requests of the worker threads.  A region *)
(* is one chunk of one output slice in the recovery memory.                  *)
(***************************************************************************)
EXTENDS Integers, Sequences

CONSTANTS
  NumThreads,   \* numThreads
  NumChunks,    \* numChunks
  NumOutputs,   \* outputExponents.size(); run_kernel does nothing when it is 0
  TiesDown      \* the cuts at which the float for an exact half is a little too small

ASSUME KernelAssumption ==
  /\ NumThreads \in Nat \ {0}
  /\ NumChunks \in Nat \ {0}
  /\ NumOutputs \in Nat \ {0}

Threads == 0..NumThreads-1
Chunks  == 0..NumChunks-1
Outputs == 0..NumOutputs-1

FullChunksPerThread == NumChunks \div NumThreads
LeftoverChunks      == NumChunks % NumThreads

\* Threads a leftover chunk is split over.
ThreadsPerChunk ==
  IF LeftoverChunks = 0 THEN 0
  ELSE LET share == NumThreads \div LeftoverChunks
       IN  IF share < NumOutputs THEN share ELSE NumOutputs

UsedThreads == ThreadsPerChunk * LeftoverChunks

\* (unsigned)(outputsPerThread * tc + 0.5), the outputs below the tc-th cut: the nearest
\* integer to NumOutputs * tc / ThreadsPerChunk. An exact half is rounded up, unless the
\* 32-bit outputsPerThread makes the product too small (31 outputs, 14 threads, cut 7).
\* Nothing else is rounded wrongly while NumOutputs * ThreadsPerChunk < 2^22: the product
\* is wrong by at most NumOutputs / 2^23.
NearestCut(tc) == (2 * NumOutputs * tc + ThreadsPerChunk) \div (2 * ThreadsPerChunk)
Tie(tc) == (2 * NumOutputs * tc + ThreadsPerChunk) % (2 * ThreadsPerChunk) = 0
OutputCut(tc) == IF tc \in TiesDown /\ Tie(tc) THEN NearestCut(tc) - 1 ELSE NearestCut(tc)

\* A leftover chunk goes to ThreadsPerChunk threads, a range of outputs each.
LeftoverRegions(thread) ==
  LET tc == thread % ThreadsPerChunk
  IN  {thread \div ThreadsPerChunk} \X (OutputCut(tc)..OutputCut(tc + 1) - 1)

\* A run that is one chunk too long.
FullRegionsOverlap(thread) ==
  LET first == LeftoverChunks + thread * FullChunksPerThread
  IN  (first..first + FullChunksPerThread) \X Outputs

\* The other chunks go to the threads in equal runs, with all outputs.
FullRegions(thread) ==
  LET first == LeftoverChunks + thread * FullChunksPerThread
  IN  (first..first + FullChunksPerThread - 1) \X Outputs

FullSends == IF FullChunksPerThread > 0 THEN NumThreads ELSE 0

\* The requests of one batch in the order run_kernel sends them.
KernelSends ==
  [i \in 1..UsedThreads + FullSends |->
     IF i <= UsedThreads
     THEN [thread |-> i - 1, regions |-> LeftoverRegions(i - 1)]
     ELSE [thread |-> i - UsedThreads - 1, regions |-> FullRegions(i - UsedThreads - 1)]]

\* The count with a reference of the sender that is never given back.
KernelRefsExtra == FullSends + UsedThreads + 1

\* What run_kernel stores in procRefs before it sends them.
KernelRefs ==
  IF LeftoverChunks > 0 THEN FullSends + UsedThreads ELSE NumThreads

\* The requests of a batch compute every chunk of every output exactly once,
\* none is empty, each goes to a thread that exists, and procRefs counts them.
KernelPartition ==
  /\ \A region \in Chunks \X Outputs :
       \E i \in DOMAIN KernelSends : region \in KernelSends[i].regions
  /\ \A i, j \in DOMAIN KernelSends :
       i # j => KernelSends[i].regions \cap KernelSends[j].regions = {}
  /\ \A i \in DOMAIN KernelSends :
       /\ KernelSends[i].thread \in Threads
       /\ KernelSends[i].regions # {}
       /\ KernelSends[i].regions \subseteq Chunks \X Outputs
  /\ KernelRefs = Len(KernelSends)
=============================================================================
