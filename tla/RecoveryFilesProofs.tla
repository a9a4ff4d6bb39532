------------------------ MODULE RecoveryFilesProofs ------------------------
(* The part of a block that one pass of a creation or a repair computes, for   *)
(* every memory limit and number of blocks that the command line accepts.      *)
EXTENDS RecoveryFiles, TLAPS

\* What the command line multiplies its memory limit by.
Megabyte == 1048576

\* The quotient of a division, times the divisor, is the dividend but for less than
\* the divisor.
LEMMA Quotient ==
  ASSUME NEW a \in Nat, NEW b \in Nat, b > 0
  PROVE  /\ a \div b \in Nat
         /\ (a \div b) * b <= a
         /\ a < (a \div b) * b + b
  BY Z3

\* Multiplication keeps the order of natural numbers.
LEMMA Product ==
  ASSUME NEW a \in Nat, NEW b \in Nat, NEW c \in Nat, a <= b
  PROVE  a * c <= b * c
  BY Z3

\* The number rounded down to a multiple of four.
LEMMA WholeWords ==
  ASSUME NEW a \in Nat
  PROVE  /\ a - (a % 4) \in Nat /\ (a - (a % 4)) % 4 = 0
         /\ a - (a % 4) <= a /\ a < a - (a % 4) + 4
  BY Z3

\* Whatever memory limit of at least a megabyte, block size and number of recovery or
\* missing blocks CalculateProcessBlockSize and AllocateBuffers are given, a pass makes
\* progress and stays within the limit: it computes a positive whole number of 4-byte
\* words, at most a block, at most what the backend takes, and the buffers for that much
\* of every block fit in the memory.
THEOREM PassFits ==
  ASSUME NEW memory \in Nat, memory >= Megabyte,
         NEW maxchunk \in Nat, maxchunk >= 4, maxchunk % 4 = 0,
         NEW blocksize \in Nat, blocksize >= 4, blocksize % 4 = 0,
         NEW sourceblocks \in Nat,
         NEW blocks \in Nat, blocks < 65536,
         NEW units, units = blocks + BlockOverhead(sourceblocks),
         NEW result, result = PassSize(memory, maxchunk, blocksize, sourceblocks, blocks)
  PROVE  /\ result \in Nat /\ result >= 4 /\ result % 4 = 0
         /\ result <= blocksize /\ result <= maxchunk
         /\ result * units <= memory
<1>1. units \in Nat /\ units > 0 /\ units <= 65561
  BY DEF BlockOverhead, LeastOf, NUM_TRANSFER_BUFFERS, NUM_PARPAR_BUFFERS
<1> DEFINE part  == memory \div units
           chunk == IF blocksize * units > memory THEN part - (part % 4) ELSE blocksize
           least == LeastOf(chunk, maxchunk)
<1>2. result = least
  BY DEF PassSize
<1>3. part \in Nat /\ part * units <= memory /\ memory < part * units + units
  BY <1>1, Quotient
<1> HIDE DEF part
<1>4. part >= 15
  <2>1. SUFFICES ASSUME part <= 14 PROVE FALSE
    BY <1>3
  <2>2. part * units <= 14 * units
    BY <2>1, <1>1, <1>3, Product
  <2>3. memory < 15 * 65561
    BY <2>2, <1>1, <1>3
  <2> QED
    BY <2>3 DEF Megabyte
<1>5. /\ part - (part % 4) \in Nat /\ (part - (part % 4)) % 4 = 0
      /\ part - (part % 4) <= part /\ part < part - (part % 4) + 4
  BY <1>3, WholeWords
<1>6. chunk \in Nat /\ chunk >= 4 /\ chunk % 4 = 0 /\ chunk <= blocksize /\ chunk * units <= memory
  <2>1. CASE blocksize * units > memory
    <3> DEFINE whole == part - (part % 4)
    <3>1. whole \in Nat /\ whole % 4 = 0 /\ whole <= part /\ whole >= 4
      BY <1>4, <1>5, <1>3
    <3> HIDE DEF whole
    <3>2. whole * units <= memory
      <4>1. whole * units <= part * units
        BY <3>1, <1>1, <1>3, Product
      <4>2. whole * units \in Nat /\ part * units \in Nat
        BY <3>1, <1>1, <1>3
      <4> QED
        BY <4>1, <4>2, <1>3
    <3>3. whole <= blocksize
      <4>1. SUFFICES ASSUME blocksize <= whole PROVE FALSE
        BY <3>1, <2>1, <3>2
      <4>2. blocksize * units <= whole * units
        BY <4>1, <3>1, <1>1, Product
      <4> QED
        BY <4>2, <3>2, <2>1, <3>1, <1>1
    <3>4. chunk = whole
      BY <2>1 DEF whole
    <3> QED
      BY <3>1, <3>2, <3>3, <3>4
  <2>2. CASE ~(blocksize * units > memory)
    <3>1. chunk = blocksize
      BY <2>2
    <3> QED
      BY <3>1, <2>2, <1>1
  <2> QED
    BY <2>1, <2>2
<1> HIDE DEF chunk
<1>7. least \in Nat /\ least >= 4 /\ least % 4 = 0 /\ least <= blocksize /\ least <= maxchunk /\ least <= chunk
  BY <1>6 DEF LeastOf
<1> HIDE DEF least
<1>8. least * units <= memory
  <2>1. least * units <= chunk * units
    BY <1>6, <1>7, <1>1, Product
  <2>2. least * units \in Nat /\ chunk * units \in Nat
    BY <1>6, <1>7, <1>1
  <2> QED
    BY <2>1, <2>2, <1>6
<1> QED
  BY <1>2, <1>7, <1>8
=============================================================================
