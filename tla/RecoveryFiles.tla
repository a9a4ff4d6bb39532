--------------------------- MODULE RecoveryFiles ---------------------------
(* How the creator divides its work: the number of recovery files, the blocks *)
(* that go into each of them, and the part of a block one pass computes.      *)
EXTENDS Integers, Sequences

NUM_TRANSFER_BUFFERS == 2
NUM_PARPAR_BUFFERS == 12

LeastOf(a, b) == IF a < b THEN a ELSE b
Ceil(a, b) == (a + b - 1) \div b

\* The number of binary digits of n: for (t = n; t > 0; t >>= 1).
BitLength(n) == LET bits[t \in 0..n] == IF t = 0 THEN 0 ELSE 1 + bits[t \div 2] IN bits[n]

----------------------------------------------------------------------------
(* ComputeRecoveryFileCount; 0 stands for none specified, -1 for an error *)

\* The files of the limited scheme that are as large as the largest source file.
Whole(recoveryblocks, largest) ==
  IF recoveryblocks \div largest >= 1 THEN recoveryblocks \div largest - 1 ELSE 0

ComputeRecoveryFileCount(scheme, filecount, recoveryblocks, largest) ==
  IF recoveryblocks = 0 THEN 0
  ELSE IF scheme = "limited"
  THEN Whole(recoveryblocks, largest)
         + BitLength(recoveryblocks - Whole(recoveryblocks, largest) * largest)
  ELSE LET n == IF filecount = 0 THEN BitLength(recoveryblocks) ELSE filecount
       IN  IF n > recoveryblocks THEN -1 ELSE n

----------------------------------------------------------------------------
(* InitialiseOutputFiles: the blocks of each file *)

\* Roughly the same number in each file.
UniformCounts(recoveryblocks, files) ==
  [n \in 1..files |-> (recoveryblocks \div files)
                        + (IF n <= recoveryblocks % files THEN 1 ELSE 0)]

\* Twice as many in each file as in the one before, as long as there are any.
DoublingCounts(low, recoveryblocks, files) ==
  [n \in 1..files |-> LET before == low * (2 ^ (n - 1) - 1) IN
     IF before >= recoveryblocks THEN 0
     ELSE LeastOf(low * 2 ^ (n - 1), recoveryblocks - before)]

\* The smallest doubling of one block for which the files hold all of them.
LowBlockCount(recoveryblocks, files) ==
  2 ^ (CHOOSE k \in 0..recoveryblocks :
         /\ 2 ^ k * (2 ^ files - 1) >= recoveryblocks
         /\ \A j \in 0 .. k - 1 : 2 ^ j * (2 ^ files - 1) < recoveryblocks)

\* A bug to check the properties with: files are filled until less than one is left over.
TopFilesAll(recoveryblocks, files, largest) ==
  CHOOSE k \in 0..files :
    /\ k = files \/ recoveryblocks - k * largest < largest
    /\ \A j \in 0 .. k - 1 : recoveryblocks - j * largest >= largest

\* The number of files at the top that are filled with as many blocks as the largest
\* source file has.
TopFiles(recoveryblocks, files, largest) ==
  CHOOSE k \in 0..files :
    /\ k = files \/ recoveryblocks - k * largest < 2 * largest
    /\ \A j \in 0 .. k - 1 : recoveryblocks - j * largest >= 2 * largest

\* The exponents of files that are filled one after the other.
Ascending(first, counts) ==
  LET exponent[n \in 1 .. Len(counts) + 1] ==
        IF n = 1 THEN first ELSE exponent[n - 1] + counts[n - 1]
  IN  [n \in 1..Len(counts) |-> [exponent |-> exponent[n], count |-> counts[n]]]

\* The files at the top are filled downwards from the last block, the others upwards
\* from the first.
LimitedFiles(first, recoveryblocks, files, largest) ==
  LET top == TopFiles(recoveryblocks, files, largest)
  IN  Ascending(first, DoublingCounts(1, recoveryblocks - top * largest, files - top))
        \o [n \in 1..top |-> [exponent |-> first + recoveryblocks - (top - n + 1) * largest,
                              count    |-> largest]]

\* The recovery files, without the one that has no recovery blocks.
FileAllocations(scheme, first, recoveryblocks, files, largest) ==
  IF files = 0 THEN <<>>
  ELSE CASE scheme = "uniform"  -> Ascending(first, UniformCounts(recoveryblocks, files))
         [] scheme = "variable" -> Ascending(first,
                                     DoublingCounts(LowBlockCount(recoveryblocks, files),
                                                    recoveryblocks, files))
         [] scheme = "limited"  -> LimitedFiles(first, recoveryblocks, files, largest)

----------------------------------------------------------------------------
(* CalculateProcessBlockSize, and AllocateBuffers of the repairer *)

BlockOverhead(sourceblocks) ==
  NUM_TRANSFER_BUFFERS + LeastOf(NUM_PARPAR_BUFFERS * 2, sourceblocks + 1)

\* How much of each of so many blocks one pass computes: the whole block if that fits in
\* the memory, and no more than maxchunk.
PassSize(memory, maxchunk, blocksize, sourceblocks, blocks) ==
  LET units == blocks + BlockOverhead(sourceblocks)
      part  == memory \div units
      chunk == IF blocksize * units > memory THEN part - (part % 4) ELSE blocksize
  IN  LeastOf(chunk, maxchunk)

ChunkSize(memory, maxchunk, blocksize, sourceblocks, recoveryblocks) ==
  IF recoveryblocks = 0 THEN 0
  ELSE PassSize(memory, maxchunk, blocksize, sourceblocks, recoveryblocks)

\* Hashes are computed while the data is processed if one pass is enough.
DeferHashes(memory, maxchunk, blocksize, sourceblocks, recoveryblocks) ==
  /\ recoveryblocks > 0
  /\ blocksize * (recoveryblocks + BlockOverhead(sourceblocks)) <= memory
  /\ blocksize <= maxchunk
=============================================================================
