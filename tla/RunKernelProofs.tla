-------------------------- MODULE RunKernelProofs --------------------------
(***************************************************************************)
(* The distribution of run_kernel is a partition of the recovery memory for *)
(* every number of threads, chunks and outputs.                             *)
(***************************************************************************)
EXTENDS RunKernel, TLAPS

\* Quotient and remainder, as C++ computes them for unsigned operands.
LEMMA DivMod ==
  ASSUME NEW a \in Nat, NEW b \in Nat \ {0}
  PROVE  /\ a \div b \in Nat
         /\ a % b \in 0..b-1
         /\ a = b * (a \div b) + (a % b)
OBVIOUS

\* A product grows with its first factor.
LEMMA MulMono ==
  ASSUME NEW a \in Nat, NEW b \in Nat, NEW c \in Nat, a <= b
  PROVE  a * c \in Nat /\ b * c \in Nat /\ a * c <= b * c
OBVIOUS

\* An integer quotient grows with its dividend.
LEMMA DivMono ==
  ASSUME NEW a \in Nat, NEW b \in Nat, NEW c \in Nat \ {0}, a <= b
  PROVE  a \div c <= b \div c
OBVIOUS

\* The chunks are the leftover ones and a run of equal length per thread.
LEMMA ChunkCount ==
  /\ FullChunksPerThread \in Nat
  /\ LeftoverChunks \in 0..NumThreads-1
  /\ NumThreads * FullChunksPerThread \in Nat
  /\ NumChunks = LeftoverChunks + NumThreads * FullChunksPerThread
<1> DEFINE q == NumChunks \div NumThreads
           r == NumChunks % NumThreads
<1>1. NumThreads \in Nat \ {0} /\ NumChunks \in Nat
  BY KernelAssumption
<1>2. q \in Nat /\ r \in 0..NumThreads-1 /\ NumChunks = NumThreads * q + r
  BY <1>1, DivMod
<1>3. q = FullChunksPerThread /\ r = LeftoverChunks
  BY DEF FullChunksPerThread, LeftoverChunks
<1> HIDE DEF q, r
<1> QED
  BY <1>1, <1>2, <1>3

\* A leftover chunk is shared by at least one thread and no more threads than
\* outputs, and there are enough threads for all of them (the assertions in
\* run_kernel).
LEMMA Shares ==
  ASSUME LeftoverChunks > 0
  PROVE  /\ ThreadsPerChunk \in 1..NumOutputs
         /\ UsedThreads \in 1..NumThreads
<1> DEFINE share == NumThreads \div LeftoverChunks
<1>1. LeftoverChunks \in Nat \ {0} /\ LeftoverChunks < NumThreads /\ NumThreads \in Nat \ {0}
  BY ChunkCount, KernelAssumption
<1>2. share \in Nat /\ LeftoverChunks * share <= NumThreads /\ share # 0
  <2>1. /\ share \in Nat
        /\ NumThreads % LeftoverChunks \in 0..LeftoverChunks-1
        /\ NumThreads = LeftoverChunks * share + (NumThreads % LeftoverChunks)
    BY <1>1, DivMod
  <2>2. share # 0
    BY <1>1, <2>1
  <2> QED
    BY <1>1, <2>1, <2>2
<1>3. ThreadsPerChunk = IF share < NumOutputs THEN share ELSE NumOutputs
  BY <1>1 DEF ThreadsPerChunk
<1>4. ThreadsPerChunk \in 1..NumOutputs /\ ThreadsPerChunk <= share
  BY <1>2, <1>3, KernelAssumption
<1>5. UsedThreads \in Nat /\ UsedThreads <= share * LeftoverChunks
  BY <1>1, <1>2, <1>4, MulMono DEF UsedThreads
<1>6. UsedThreads >= 1
  BY <1>1, <1>4 DEF UsedThreads
<1> QED
  BY <1>1, <1>2, <1>4, <1>5, <1>6

\* Rounded to the nearest integer, the cuts start at 0, end at the number of outputs and
\* leave every share at least one output.
LEMMA NearestCuts ==
  ASSUME LeftoverChunks > 0
  PROVE  /\ \A tc \in 0..ThreadsPerChunk : NearestCut(tc) \in 0..NumOutputs
         /\ NearestCut(0) = 0
         /\ NearestCut(ThreadsPerChunk) = NumOutputs
         /\ \A tc \in 0..ThreadsPerChunk-1 : NearestCut(tc) < NearestCut(tc + 1)
         /\ \A s, tc \in 0..ThreadsPerChunk : s <= tc => NearestCut(s) <= NearestCut(tc)
<1> DEFINE T == ThreadsPerChunk
           N == NumOutputs
           W(tc) == 2 * N * tc + T
<1>1. T \in Nat \ {0} /\ N \in Nat \ {0} /\ T <= N
  BY Shares, KernelAssumption
<1>2. \A tc \in 0..T : W(tc) \in Nat /\ NearestCut(tc) = W(tc) \div (2 * T)
  BY <1>1 DEF NearestCut
<1> HIDE DEF T, N
<1>3. W(0) \div (2 * T) = 0
  BY <1>1
<1>4. W(T) \div (2 * T) = N
  BY <1>1
<1>5. \A s, tc \in 0..T : s <= tc => W(s) \div (2 * T) <= W(tc) \div (2 * T)
  <2> SUFFICES ASSUME NEW s \in 0..T, NEW tc \in 0..T, s <= tc
               PROVE  W(s) \div (2 * T) <= W(tc) \div (2 * T)
    OBVIOUS
  <2>1. W(s) \in Nat /\ W(tc) \in Nat /\ W(s) <= W(tc)
    BY <1>1
  <2> QED
    BY <1>1, <2>1, DivMono
<1>6. \A tc \in 0..T-1 : W(tc) \div (2 * T) < W(tc + 1) \div (2 * T)
  <2> SUFFICES ASSUME NEW tc \in 0..T-1
               PROVE  W(tc) \div (2 * T) < W(tc + 1) \div (2 * T)
    OBVIOUS
  <2>1. W(tc) \in Nat /\ W(tc + 1) = W(tc) + 2 * N /\ W(tc) + 2 * T <= W(tc + 1)
    BY <1>1
  <2>2. (W(tc) + 2 * T) \div (2 * T) = (W(tc) \div (2 * T)) + 1
    BY <1>1, <2>1
  <2>3. (W(tc) + 2 * T) \div (2 * T) <= W(tc + 1) \div (2 * T)
    BY <1>1, <2>1, DivMono
  <2> QED
    BY <1>1, <2>1, <2>2, <2>3, DivMod
<1>7. NearestCut(0) = 0 /\ NearestCut(T) = N
  BY <1>1, <1>2, <1>3, <1>4
<1>8. \A s, tc \in 0..T : s <= tc => NearestCut(s) <= NearestCut(tc)
  BY <1>2, <1>5
<1>9. \A tc \in 0..T-1 : NearestCut(tc) < NearestCut(tc + 1)
  <2> SUFFICES ASSUME NEW tc \in 0..T-1
               PROVE  NearestCut(tc) < NearestCut(tc + 1)
    OBVIOUS
  <2>1. tc \in 0..T /\ tc + 1 \in 0..T
    BY <1>1
  <2> QED
    BY <2>1, <1>2, <1>6
<1>10. \A tc \in 0..T : NearestCut(tc) \in 0..N
  <2> SUFFICES ASSUME NEW tc \in 0..T
               PROVE  NearestCut(tc) \in 0..N
    OBVIOUS
  <2>1. NearestCut(tc) \in Nat
    <3>1. W(tc) \in Nat /\ 2 * T \in Nat \ {0} /\ NearestCut(tc) = W(tc) \div (2 * T)
      BY <1>1, <1>2
    <3> HIDE DEF W
    <3> QED
      BY <3>1, DivMod
  <2>2. NearestCut(tc) <= NearestCut(T)
    BY <1>1, <1>8
  <2> QED
    BY <1>1, <1>7, <2>1, <2>2
<1> QED
  BY <1>7, <1>8, <1>9, <1>10 DEF T, N

\* Every output falls between two successive nearest cuts; the share it belongs to can
\* be computed from it.
LEMMA NearestCutOf ==
  ASSUME LeftoverChunks > 0, NEW o \in Outputs
  PROVE  \E tc \in 0..ThreadsPerChunk-1 : o \in NearestCut(tc)..NearestCut(tc + 1) - 1
<1> DEFINE T  == ThreadsPerChunk
           N  == NumOutputs
           w  == (2 * o + 1) * T - 1
           tc == w \div (2 * N)
<1>1. T \in Nat \ {0} /\ N \in Nat \ {0} /\ T <= N /\ o \in 0..N-1
  BY Shares, KernelAssumption DEF Outputs
<1> HIDE DEF T, N
<1>2. w \in Nat /\ 2 * N \in Nat \ {0} /\ w < 2 * N * T
  <2>1. (2 * o + 1) * T \in Nat /\ (2 * o + 1) * T >= 1
    BY <1>1
  <2>2. (2 * o + 1) * T <= (2 * N) * T
    BY <1>1, MulMono
  <2> QED
    BY <1>1, <2>1, <2>2
<1>3. tc \in Nat /\ (2 * N) * tc <= w /\ w < (2 * N) * tc + 2 * N
  <2>1. tc \in Nat /\ w % (2 * N) \in 0..(2 * N)-1 /\ w = (2 * N) * tc + (w % (2 * N))
    BY <1>2, DivMod
  <2> HIDE DEF tc
  <2> QED
    BY <1>1, <1>2, <2>1
<1> HIDE DEF tc
<1>4. tc \in 0..T-1
  <2>1. (2 * N) * tc < (2 * N) * T
    BY <1>1, <1>2, <1>3
  <2> QED
    BY <1>1, <1>3, <2>1
<1>5. NearestCut(tc) \in 0..N /\ NearestCut(tc + 1) \in 0..N
  BY <1>1, <1>4, NearestCuts DEF T, N
<1>6. NearestCut(tc) <= o
  <2>1. 2 * N * tc + T \in Nat /\ 2 * N * tc + T < (o + 1) * (2 * T)
    BY <1>1, <1>3, <1>4
  <2>2. NearestCut(tc) = (2 * N * tc + T) \div (2 * T)
    BY DEF NearestCut, T, N
  <2> QED
    BY <1>1, <2>1, <2>2
<1>7. NearestCut(tc + 1) >= o + 1
  <2>1. 2 * N * (tc + 1) + T \in Nat /\ (o + 1) * (2 * T) <= 2 * N * (tc + 1) + T
    BY <1>1, <1>3, <1>4
  <2>2. NearestCut(tc + 1) = (2 * N * (tc + 1) + T) \div (2 * T)
    BY DEF NearestCut, T, N
  <2> QED
    BY <1>1, <2>1, <2>2
<1>8. o \in NearestCut(tc)..NearestCut(tc + 1) - 1
  BY <1>1, <1>5, <1>6, <1>7
<1> QED
  BY <1>4, <1>8 DEF T

\* A quotient without remainder.
LEMMA DivExact ==
  ASSUME NEW a \in Nat, NEW b \in Nat \ {0}, a % b = 0
  PROVE  a \div b \in Nat /\ a = b * (a \div b)
<1> DEFINE q == a \div b
<1>1. q \in Nat /\ a = b * q + (a % b)
  BY DivMod
<1> HIDE DEF q
<1>2. a = b * q
  BY <1>1
<1> QED
  BY <1>1, <1>2 DEF q

\* An odd multiple of a number is not an even multiple of it.
LEMMA CancelFactor ==
  ASSUME NEW t \in Nat \ {0}, NEW a \in Nat, NEW b \in Nat, t * (2 * a + 1) = t * (2 * b)
  PROVE  FALSE
<1>1. 2 * a + 1 = 2 * b
  OBVIOUS
<1> QED
  BY <1>1

\* A tie, where a cut may be rounded down instead, is neither the first nor the last
\* cut, and the outputs do not divide evenly then.
LEMMA Ties ==
  ASSUME LeftoverChunks > 0, NEW tc \in 0..ThreadsPerChunk, Tie(tc)
  PROVE  /\ tc \in 1..ThreadsPerChunk-1
         /\ NumOutputs > ThreadsPerChunk
<1> DEFINE T == ThreadsPerChunk
           N == NumOutputs
           w == 2 * N * tc + T
           q == w \div (2 * T)
<1>1. T \in Nat \ {0} /\ N \in Nat \ {0} /\ T <= N /\ tc \in 0..T
  BY Shares, KernelAssumption
<1>2. w % (2 * T) = 0
  BY DEF Tie
<1> HIDE DEF T, N
<1>3. w \in Nat /\ 2 * T \in Nat \ {0}
  BY <1>1
<1>4. q \in Nat /\ w = (2 * T) * q
  BY <1>2, <1>3, DivExact
<1> HIDE DEF q
<1>5. tc # 0
  <2> SUFFICES ASSUME tc = 0 PROVE FALSE
    OBVIOUS
  <2>1. T * (2 * 0 + 1) = T * (2 * q)
    BY <1>1, <1>4
  <2> QED
    BY <1>1, <1>4, <2>1, CancelFactor
<1>6. tc # T
  <2> SUFFICES ASSUME tc = T PROVE FALSE
    OBVIOUS
  <2>1. T * (2 * N + 1) = T * (2 * q)
    BY <1>1, <1>4
  <2> QED
    BY <1>1, <1>4, <2>1, CancelFactor
<1>7. N # T
  <2> SUFFICES ASSUME N = T PROVE FALSE
    OBVIOUS
  <2>1. T * (2 * tc + 1) = T * (2 * q)
    BY <1>1, <1>4
  <2> QED
    BY <1>1, <1>4, <2>1, CancelFactor
<1> QED
  BY <1>1, <1>5, <1>6, <1>7 DEF T, N

\* Before a tie the nearest cut is two outputs lower or more.
LEMMA TieGap ==
  ASSUME LeftoverChunks > 0, NEW tc \in 0..ThreadsPerChunk-1, Tie(tc + 1)
  PROVE  NearestCut(tc) + 1 < NearestCut(tc + 1)
<1> DEFINE T == ThreadsPerChunk
           N == NumOutputs
           v == 2 * N * tc + T
           w == 2 * N * (tc + 1) + T
           q == w \div (2 * T)
           p == v \div (2 * T)
<1>1. T \in Nat \ {0} /\ N \in Nat \ {0} /\ tc \in 0..T-1 /\ tc + 1 \in 0..T
  BY Shares, KernelAssumption
<1>2. N > T /\ w % (2 * T) = 0
  BY <1>1, Ties DEF Tie
<1>3. p = NearestCut(tc) /\ q = NearestCut(tc + 1)
  BY DEF NearestCut
<1> HIDE DEF T, N
<1>4. v \in Nat /\ w \in Nat /\ 2 * T \in Nat \ {0} /\ w = v + 2 * N
  BY <1>1
<1>5. q \in Nat /\ w = (2 * T) * q
  BY <1>2, <1>4, DivExact
<1>6. p \in Nat /\ (2 * T) * p <= v
  <2>1. p \in Nat /\ v % (2 * T) \in 0..(2 * T)-1 /\ v = (2 * T) * p + (v % (2 * T))
    BY <1>4, DivMod
  <2> HIDE DEF p, v
  <2> QED
    BY <1>1, <1>4, <2>1
<1> HIDE DEF p, q, v, w
<1>7. (2 * T) * (p + 1) < (2 * T) * q
  BY <1>1, <1>2, <1>4, <1>5, <1>6
<1>8. p + 1 < q
  BY <1>1, <1>5, <1>6, <1>7
<1> QED
  BY <1>3, <1>8

\* The cuts as the code rounds them: they start at 0, end at the number of outputs and
\* leave every share at least one output.
LEMMA Cuts ==
  ASSUME LeftoverChunks > 0
  PROVE  /\ \A tc \in 0..ThreadsPerChunk : OutputCut(tc) \in 0..NumOutputs
         /\ OutputCut(0) = 0
         /\ OutputCut(ThreadsPerChunk) = NumOutputs
         /\ \A tc \in 0..ThreadsPerChunk-1 : OutputCut(tc) < OutputCut(tc + 1)
         /\ \A s, tc \in 0..ThreadsPerChunk : s <= tc => OutputCut(s) <= OutputCut(tc)
<1> DEFINE T == ThreadsPerChunk
           N == NumOutputs
<1>1. T \in Nat \ {0} /\ N \in Nat \ {0} /\ T <= N
  BY Shares, KernelAssumption
<1>2. \A tc \in 0..T : /\ NearestCut(tc) \in 0..N
                       /\ OutputCut(tc) \in {NearestCut(tc), NearestCut(tc) - 1}
  BY NearestCuts DEF OutputCut
<1>3. OutputCut(0) = 0 /\ OutputCut(T) = N
  <2>1. 0 \in 0..T /\ T \in 0..T /\ ~(0 \in 1..T-1) /\ ~(T \in 1..T-1)
    BY <1>1
  <2>2. ~Tie(0) /\ ~Tie(T)
    BY <2>1, Ties
  <2> QED
    BY <2>2, NearestCuts DEF OutputCut
<1>4. \A tc \in 0..T-1 : NearestCut(tc) < OutputCut(tc + 1)
  <2> SUFFICES ASSUME NEW tc \in 0..T-1
               PROVE  NearestCut(tc) < OutputCut(tc + 1)
    OBVIOUS
  <2>1. tc \in 0..T /\ tc + 1 \in 0..T
    BY <1>1
  <2>2. CASE ~Tie(tc + 1)
    BY <2>2, NearestCuts DEF OutputCut
  <2>3. CASE Tie(tc + 1)
    <3>1. NearestCut(tc) + 1 < NearestCut(tc + 1)
      BY <2>3, TieGap
    <3> QED
      BY <1>2, <2>1, <3>1
  <2> QED
    BY <2>2, <2>3
<1>5. \A tc \in 0..T-1 : OutputCut(tc) < OutputCut(tc + 1)
  <2> SUFFICES ASSUME NEW tc \in 0..T-1
               PROVE  OutputCut(tc) < OutputCut(tc + 1)
    OBVIOUS
  <2>1. tc \in 0..T /\ tc + 1 \in 0..T
    BY <1>1
  <2>2. NearestCut(tc) < OutputCut(tc + 1)
    BY <1>4
  <2> QED
    BY <1>2, <2>1, <2>2
<1>6. \A s, tc \in 0..T : s <= tc => OutputCut(s) <= OutputCut(tc)
  <2> SUFFICES ASSUME NEW s \in 0..T, NEW tc \in 0..T, s < tc
               PROVE  OutputCut(s) <= OutputCut(tc)
    BY <1>2
  <2>1. tc - 1 \in 0..T /\ tc - 1 \in 0..T-1 /\ s <= tc - 1 /\ (tc - 1) + 1 = tc
    BY <1>1
  <2>2. NearestCut(s) <= NearestCut(tc - 1)
    BY <2>1, NearestCuts
  <2>3. NearestCut(tc - 1) < OutputCut(tc)
    BY <1>4, <2>1
  <2> QED
    BY <1>2, <2>1, <2>2, <2>3
<1>7. \A tc \in 0..T : OutputCut(tc) \in 0..N
  <2> SUFFICES ASSUME NEW tc \in 0..T
               PROVE  OutputCut(tc) \in 0..N
    OBVIOUS
  <2>1. 0 \in 0..T /\ OutputCut(0) <= OutputCut(tc)
    BY <1>1, <1>6
  <2> QED
    BY <1>1, <1>2, <1>3, <2>1
<1> QED
  BY <1>3, <1>5, <1>6, <1>7

\* Every output falls between two successive cuts: those nearest to it, or the next two
\* when the upper one is rounded down to the output.
LEMMA CutOf ==
  ASSUME LeftoverChunks > 0, NEW o \in Outputs
  PROVE  \E tc \in 0..ThreadsPerChunk-1 : o \in OutputCut(tc)..OutputCut(tc + 1) - 1
<1> DEFINE T == ThreadsPerChunk
<1>1. T \in Nat \ {0} /\ o \in Nat
  BY Shares, KernelAssumption DEF Outputs
<1>2. PICK tc \in 0..T-1 : o \in NearestCut(tc)..NearestCut(tc + 1) - 1
  BY NearestCutOf
<1>3. tc \in 0..T /\ tc + 1 \in 0..T
  BY <1>1
<1>4. /\ NearestCut(tc) \in Nat /\ NearestCut(tc + 1) \in Nat
      /\ OutputCut(tc) \in Nat /\ OutputCut(tc + 1) \in Nat
      /\ OutputCut(tc) <= NearestCut(tc)
  BY <1>3, NearestCuts, Cuts, KernelAssumption DEF OutputCut
<1>5. CASE OutputCut(tc + 1) = NearestCut(tc + 1)
  <2>1. o \in OutputCut(tc)..OutputCut(tc + 1) - 1
    BY <1>1, <1>2, <1>4, <1>5
  <2> QED
    BY <2>1
<1>6. CASE OutputCut(tc + 1) # NearestCut(tc + 1)
  <2>1. Tie(tc + 1) /\ OutputCut(tc + 1) = NearestCut(tc + 1) - 1
    BY <1>6 DEF OutputCut
  <2>2. tc + 1 \in 0..T-1
    BY <1>1, <1>3, <2>1, Ties
  <2>3. (tc + 1) + 1 \in 0..T
    BY <1>1, <2>2
  <2>4. OutputCut(tc + 1) < OutputCut((tc + 1) + 1) /\ OutputCut((tc + 1) + 1) \in Nat
    BY <2>2, <2>3, Cuts, KernelAssumption
  <2>5. CASE o < OutputCut(tc + 1)
    <3>1. o \in OutputCut(tc)..OutputCut(tc + 1) - 1
      BY <1>1, <1>2, <1>4, <2>5
    <3> QED
      BY <3>1
  <2>6. CASE o >= OutputCut(tc + 1)
    <3>1. o = OutputCut(tc + 1)
      BY <1>1, <1>2, <1>4, <2>1, <2>6
    <3>2. o \in OutputCut(tc + 1)..OutputCut((tc + 1) + 1) - 1
      BY <1>1, <1>4, <2>4, <3>1
    <3> QED
      BY <2>2, <3>2
  <2> QED
    BY <1>1, <1>4, <2>5, <2>6
<1> QED
  BY <1>5, <1>6

\* The share of a leftover chunk that a thread gets: which chunk and which cut.
LEMMA LeftoverShare ==
  ASSUME LeftoverChunks > 0, NEW thread \in 0..UsedThreads-1
  PROVE  /\ thread \div ThreadsPerChunk \in 0..LeftoverChunks-1
         /\ thread % ThreadsPerChunk \in 0..ThreadsPerChunk-1
         /\ thread = ThreadsPerChunk * (thread \div ThreadsPerChunk)
                       + (thread % ThreadsPerChunk)
<1> DEFINE T == ThreadsPerChunk
           L == LeftoverChunks
           q == thread \div T
           r == thread % T
<1>1. T \in Nat \ {0} /\ L \in Nat \ {0} /\ UsedThreads = T * L /\ UsedThreads \in Nat
  BY Shares, ChunkCount, KernelAssumption DEF UsedThreads
<1> HIDE DEF T, L
<1>2. q \in Nat /\ r \in 0..T-1 /\ thread = T * q + r
  <2>1. thread \in Nat
    BY <1>1
  <2> QED
    BY <1>1, <2>1, DivMod
<1> HIDE DEF q, r
<1>3. T * q < T * L
  BY <1>1, <1>2
<1>4. q \in 0..L-1
  BY <1>1, <1>2, <1>3
<1> QED
  BY <1>2, <1>4 DEF T, L, q, r

\* The regions of a leftover request are regions of leftover chunks, at least one.
LEMMA LeftoverRegionsIn ==
  ASSUME LeftoverChunks > 0, NEW thread \in 0..UsedThreads-1
  PROVE  /\ LeftoverRegions(thread) # {}
         /\ LeftoverRegions(thread) \subseteq (0..LeftoverChunks-1) \X Outputs
<1> DEFINE c  == thread \div ThreadsPerChunk
           tc == thread % ThreadsPerChunk
<1>1. c \in 0..LeftoverChunks-1 /\ tc \in 0..ThreadsPerChunk-1
  BY LeftoverShare
<1>2. ThreadsPerChunk \in Nat \ {0} /\ NumOutputs \in Nat
  BY Shares, KernelAssumption
<1>3. LeftoverRegions(thread) = {c} \X (OutputCut(tc)..OutputCut(tc + 1) - 1)
  BY DEF LeftoverRegions
<1> HIDE DEF c, tc
<1>4. /\ OutputCut(tc) \in 0..NumOutputs /\ OutputCut(tc + 1) \in 0..NumOutputs
      /\ OutputCut(tc) < OutputCut(tc + 1)
  BY <1>1, <1>2, Cuts
<1>5. <<c, OutputCut(tc)>> \in LeftoverRegions(thread)
  BY <1>2, <1>3, <1>4
<1>6. OutputCut(tc)..OutputCut(tc + 1) - 1 \subseteq Outputs
  BY <1>2, <1>4 DEF Outputs
<1> QED
  BY <1>1, <1>3, <1>5, <1>6

\* Two threads get no common region of a leftover chunk (run_kernel, first loop).
LEMMA LeftoverRegionsDisjoint ==
  ASSUME LeftoverChunks > 0, NEW t \in 0..UsedThreads-1, NEW u \in 0..UsedThreads-1,
         NEW region \in LeftoverRegions(t), region \in LeftoverRegions(u)
  PROVE  t = u
<1> DEFINE T  == ThreadsPerChunk
           ct == t \div T
           cu == u \div T
           rt == t % T
           ru == u % T
<1>1. T \in Nat \ {0} /\ NumOutputs \in Nat
  BY Shares, KernelAssumption
<1>2. /\ ct \in 0..LeftoverChunks-1 /\ rt \in 0..T-1 /\ t = T * ct + rt
      /\ cu \in 0..LeftoverChunks-1 /\ ru \in 0..T-1 /\ u = T * cu + ru
  BY LeftoverShare
<1>3. /\ region \in {ct} \X (OutputCut(rt)..OutputCut(rt + 1) - 1)
      /\ region \in {cu} \X (OutputCut(ru)..OutputCut(ru + 1) - 1)
  BY DEF LeftoverRegions
<1> HIDE DEF ct, cu, rt, ru
<1>4. PICK o : region = <<ct, o>>
  BY <1>3
<1>5. ct = cu /\ o \in OutputCut(rt)..OutputCut(rt + 1) - 1 /\ o \in OutputCut(ru)..OutputCut(ru + 1) - 1
  BY <1>3, <1>4
<1>6. /\ \A tc \in 0..T : OutputCut(tc) \in 0..NumOutputs
      /\ \A s, tc \in 0..T : s <= tc => OutputCut(s) <= OutputCut(tc)
  BY Cuts
<1> HIDE DEF T
<1>7. ~(rt < ru)
  <2> SUFFICES ASSUME rt < ru PROVE FALSE
    OBVIOUS
  <2>1. rt + 1 \in 0..T /\ ru \in 0..T /\ rt + 1 <= ru /\ rt \in 0..T
    BY <1>1, <1>2
  <2>2. OutputCut(rt + 1) <= OutputCut(ru)
    BY <2>1, <1>6
  <2>3. OutputCut(rt + 1) \in Nat /\ OutputCut(ru) \in Nat /\ OutputCut(rt) \in Nat
    BY <1>1, <2>1, <1>6
  <2> QED
    BY <1>5, <2>2, <2>3
<1>8. ~(ru < rt)
  <2> SUFFICES ASSUME ru < rt PROVE FALSE
    OBVIOUS
  <2>1. ru + 1 \in 0..T /\ rt \in 0..T /\ ru + 1 <= rt /\ ru \in 0..T
    BY <1>1, <1>2
  <2>2. OutputCut(ru + 1) <= OutputCut(rt)
    BY <2>1, <1>6
  <2>3. OutputCut(ru + 1) \in Nat /\ OutputCut(rt) \in Nat /\ OutputCut(ru) \in Nat
    BY <1>1, <2>1, <1>6
  <2> QED
    BY <1>5, <2>2, <2>3
<1> QED
  BY <1>1, <1>2, <1>5, <1>7, <1>8

\* The regions of a full request are regions of the other chunks, at least one.
LEMMA FullRegionsIn ==
  ASSUME FullChunksPerThread > 0, NEW thread \in Threads
  PROVE  /\ FullRegions(thread) # {}
         /\ FullRegions(thread) \subseteq (LeftoverChunks..NumChunks-1) \X Outputs
<1> DEFINE F == FullChunksPerThread
           L == LeftoverChunks
           first == L + thread * F
<1>1. /\ F \in Nat \ {0} /\ L \in Nat /\ NumThreads \in Nat \ {0} /\ thread \in 0..NumThreads-1
      /\ NumChunks = L + NumThreads * F /\ NumOutputs \in Nat \ {0}
  BY ChunkCount, KernelAssumption DEF Threads
<1>2. FullRegions(thread) = (first..first + F - 1) \X Outputs
  BY DEF FullRegions
<1> HIDE DEF F, L
<1>3. thread * F \in Nat /\ (thread + 1) * F <= NumThreads * F /\ (thread + 1) * F = thread * F + F
  BY <1>1, MulMono
<1>4. first \in Nat /\ first >= L /\ first + F <= NumChunks
  BY <1>1, <1>3
<1> HIDE DEF first
<1>5. first \in first..first + F - 1 /\ 0 \in Outputs
  BY <1>1, <1>4 DEF Outputs
<1>6. first..first + F - 1 \subseteq L..NumChunks-1
  BY <1>1, <1>4
<1>7. <<first, 0>> \in FullRegions(thread)
  BY <1>2, <1>5
<1>8. FullRegions(thread) \subseteq (L..NumChunks-1) \X Outputs
  BY <1>2, <1>6, Zenon
<1> QED
  BY <1>7, <1>8, Zenon DEF L

\* Two threads get no common full chunk (run_kernel, second loop).
LEMMA FullRegionsDisjoint ==
  ASSUME FullChunksPerThread > 0, NEW t \in Threads, NEW u \in Threads,
         NEW region \in FullRegions(t), region \in FullRegions(u)
  PROVE  t = u
<1> DEFINE F == FullChunksPerThread
           L == LeftoverChunks
<1>1. F \in Nat \ {0} /\ L \in Nat /\ t \in Nat /\ u \in Nat
  BY ChunkCount, KernelAssumption DEF Threads
<1>2. /\ region \in (L + t * F..L + t * F + F - 1) \X Outputs
      /\ region \in (L + u * F..L + u * F + F - 1) \X Outputs
  BY DEF FullRegions
<1> HIDE DEF F, L
<1>3. PICK c \in Int : /\ c \in L + t * F..L + t * F + F - 1
                       /\ c \in L + u * F..L + u * F + F - 1
  BY <1>2
<1>4. ~(t < u)
  <2> SUFFICES ASSUME t + 1 <= u PROVE FALSE
    BY <1>1
  <2>1. (t + 1) * F <= u * F /\ (t + 1) * F = t * F + F
    BY <1>1, MulMono
  <2> QED
    BY <1>1, <1>3, <2>1
<1>5. ~(u < t)
  <2> SUFFICES ASSUME u + 1 <= t PROVE FALSE
    BY <1>1
  <2>1. (u + 1) * F <= t * F /\ (u + 1) * F = u * F + F
    BY <1>1, MulMono
  <2> QED
    BY <1>1, <1>3, <2>1
<1> QED
  BY <1>1, <1>4, <1>5

\* What the i-th request of a batch is, without the case distinction.
LEMMA SendCases ==
  /\ DOMAIN KernelSends = 1..UsedThreads + FullSends
  /\ Len(KernelSends) = UsedThreads + FullSends
  /\ UsedThreads \in 0..NumThreads /\ (UsedThreads > 0 <=> LeftoverChunks > 0)
  /\ FullSends \in {0, NumThreads} /\ (FullSends > 0 <=> FullChunksPerThread > 0)
  /\ \A i \in 1..UsedThreads :
       KernelSends[i] = [thread |-> i - 1, regions |-> LeftoverRegions(i - 1)]
  /\ \A i \in 1..FullSends :
       KernelSends[UsedThreads + i] = [thread |-> i - 1, regions |-> FullRegions(i - 1)]
<1>1. UsedThreads \in 0..NumThreads /\ (UsedThreads > 0 <=> LeftoverChunks > 0)
  <2>1. CASE LeftoverChunks > 0
    BY <2>1, Shares, KernelAssumption
  <2>2. CASE LeftoverChunks = 0
    BY <2>2, KernelAssumption DEF UsedThreads, ThreadsPerChunk
  <2> QED
    BY <2>1, <2>2, ChunkCount, KernelAssumption
<1>2. FullSends \in {0, NumThreads} /\ (FullSends > 0 <=> FullChunksPerThread > 0)
  BY KernelAssumption DEF FullSends
<1>3. UsedThreads + FullSends \in Nat
  BY <1>1, <1>2, KernelAssumption
<1>4. DOMAIN KernelSends = 1..UsedThreads + FullSends
  BY DEF KernelSends
<1>5. Len(KernelSends) = UsedThreads + FullSends
  BY <1>3 DEF KernelSends
<1>6. \A i \in 1..UsedThreads :
        KernelSends[i] = [thread |-> i - 1, regions |-> LeftoverRegions(i - 1)]
  BY <1>1, <1>2, KernelAssumption DEF KernelSends
<1>7. \A i \in 1..FullSends :
        KernelSends[UsedThreads + i] = [thread |-> i - 1, regions |-> FullRegions(i - 1)]
  <2> SUFFICES ASSUME NEW i \in 1..FullSends
               PROVE  KernelSends[UsedThreads + i]
                        = [thread |-> i - 1, regions |-> FullRegions(i - 1)]
    OBVIOUS
  <2>1. /\ UsedThreads + i \in 1..UsedThreads + FullSends /\ ~(UsedThreads + i <= UsedThreads)
        /\ (UsedThreads + i) - UsedThreads - 1 = i - 1
    BY <1>1, <1>2, KernelAssumption
  <2> QED
    BY <2>1 DEF KernelSends
<1> QED
  BY <1>1, <1>2, <1>4, <1>5, <1>6, <1>7

\* run_kernel shares the recovery memory out for every number of threads, chunks
\* and outputs: each region goes to exactly one request, no request is empty or
\* for a thread that does not exist, and procRefs is the number of requests.
THEOREM KernelSendsPartition == KernelPartition
<1> DEFINE U == UsedThreads
           D == 1..U + FullSends
<1>0. /\ NumThreads \in Nat \ {0} /\ NumChunks \in Nat \ {0} /\ NumOutputs \in Nat \ {0}
      /\ LeftoverChunks \in 0..NumThreads-1 /\ FullChunksPerThread \in Nat
      /\ NumChunks = LeftoverChunks + NumThreads * FullChunksPerThread
  BY ChunkCount, KernelAssumption
<1>1. U \in Nat /\ FullSends \in Nat /\ U <= NumThreads /\ FullSends <= NumThreads
  BY <1>0, SendCases
<1>2. \A i \in D : \/ i \in 1..U
                   \/ \E k \in 1..FullSends : i = U + k
  <2> SUFFICES ASSUME NEW i \in D, i \notin 1..U
               PROVE  \E k \in 1..FullSends : i = U + k
    OBVIOUS
  <2>1. i - U \in 1..FullSends /\ i = U + (i - U)
    BY <1>1
  <2> QED
    BY <2>1
<1>3. ASSUME NEW i \in 1..U
      PROVE  /\ KernelSends[i].thread = i - 1
             /\ KernelSends[i].regions = LeftoverRegions(i - 1)
             /\ LeftoverChunks > 0
             /\ i - 1 \in 0..UsedThreads-1
             /\ i - 1 \in Threads
  <2>1. KernelSends[i] = [thread |-> i - 1, regions |-> LeftoverRegions(i - 1)]
    BY SendCases
  <2>2. LeftoverChunks > 0
    BY <1>0, <1>1, SendCases
  <2>3. i - 1 \in 0..UsedThreads-1 /\ i - 1 \in Threads
    BY <1>0, <1>1 DEF Threads
  <2> QED
    BY <2>1, <2>2, <2>3
<1>4. ASSUME NEW k \in 1..FullSends
      PROVE  /\ KernelSends[U + k].thread = k - 1
             /\ KernelSends[U + k].regions = FullRegions(k - 1)
             /\ FullChunksPerThread > 0
             /\ k - 1 \in Threads
  <2>1. KernelSends[U + k] = [thread |-> k - 1, regions |-> FullRegions(k - 1)]
    BY SendCases
  <2>2. FullChunksPerThread > 0
    BY <1>0, <1>1, SendCases
  <2>3. k - 1 \in Threads
    BY <1>0, <1>1 DEF Threads
  <2> QED
    BY <2>1, <2>2, <2>3
<1>5. ASSUME NEW i \in D
      PROVE  /\ KernelSends[i].thread \in Threads
             /\ KernelSends[i].regions # {}
             /\ KernelSends[i].regions \subseteq Chunks \X Outputs
  <2>1. CASE i \in 1..U
    <3>1. 0..LeftoverChunks-1 \subseteq Chunks
      BY <1>0 DEF Chunks
    <3>2. /\ LeftoverRegions(i - 1) # {}
          /\ LeftoverRegions(i - 1) \subseteq (0..LeftoverChunks-1) \X Outputs
      BY <2>1, <1>3, LeftoverRegionsIn
    <3>3. (0..LeftoverChunks-1) \X Outputs \subseteq Chunks \X Outputs
      BY <3>1
    <3> QED
      BY <2>1, <3>2, <3>3, <1>3, Zenon
  <2>2. ASSUME NEW k \in 1..FullSends, i = U + k
        PROVE  /\ KernelSends[i].thread \in Threads
               /\ KernelSends[i].regions # {}
               /\ KernelSends[i].regions \subseteq Chunks \X Outputs
    <3>1. LeftoverChunks..NumChunks-1 \subseteq Chunks
      BY <1>0 DEF Chunks
    <3>2. /\ FullRegions(k - 1) # {}
          /\ FullRegions(k - 1) \subseteq (LeftoverChunks..NumChunks-1) \X Outputs
      BY <1>4, FullRegionsIn
    <3>3. (LeftoverChunks..NumChunks-1) \X Outputs \subseteq Chunks \X Outputs
      BY <3>1
    <3> QED
      BY <2>2, <3>2, <3>3, <1>4, Zenon
  <2> QED
    BY <1>2, <2>1, <2>2
<1>6. ASSUME NEW i \in D, NEW j \in D, NEW region,
             region \in KernelSends[i].regions, region \in KernelSends[j].regions
      PROVE  i = j
  <2>1. CASE i \in 1..U /\ j \in 1..U
    <3>1. i - 1 = j - 1
      BY <2>1, <1>3, <1>6, LeftoverRegionsDisjoint
    <3> QED
      BY <2>1, <3>1, <1>1
  <2>2. ASSUME NEW k \in 1..FullSends, NEW l \in 1..FullSends, i = U + k, j = U + l
        PROVE  i = j
    <3>1. k - 1 = l - 1
      BY <2>2, <1>4, <1>6, FullRegionsDisjoint
    <3> QED
      BY <2>2, <3>1, <1>1
  <2>3. ASSUME NEW a \in 1..U, NEW k \in 1..FullSends,
               region \in LeftoverRegions(a - 1), region \in FullRegions(k - 1)
        PROVE  FALSE
    <3>1. region \in (0..LeftoverChunks-1) \X Outputs
      BY <2>3, <1>3, LeftoverRegionsIn
    <3>2. region \in (LeftoverChunks..NumChunks-1) \X Outputs
      BY <2>3, <1>4, FullRegionsIn
    <3> QED
      BY <1>0, <3>1, <3>2
  <2>4. ASSUME i \in 1..U, NEW k \in 1..FullSends, j = U + k PROVE FALSE
    BY <2>3, <2>4, <1>3, <1>4, <1>6
  <2>5. ASSUME j \in 1..U, NEW k \in 1..FullSends, i = U + k PROVE FALSE
    BY <2>3, <2>5, <1>3, <1>4, <1>6
  <2> QED
    BY <1>2, <2>1, <2>2, <2>4, <2>5
<1>7. ASSUME NEW c \in Chunks, NEW o \in Outputs
      PROVE  \E i \in D : <<c, o>> \in KernelSends[i].regions
  <2>1. CASE c \in 0..LeftoverChunks-1
    <3> DEFINE T == ThreadsPerChunk
    <3>1. /\ LeftoverChunks > 0 /\ LeftoverChunks \in Nat /\ T \in Nat \ {0}
          /\ U = T * LeftoverChunks
      BY <2>1, <1>0, Shares DEF UsedThreads
    <3>2. PICK tc \in 0..T-1 : o \in OutputCut(tc)..OutputCut(tc + 1) - 1
      BY <3>1, CutOf
    <3> HIDE DEF T
    <3> DEFINE thread == T * c + tc
    <3>3. thread \in Nat /\ thread \div T = c /\ thread % T = tc
      BY <2>1, <3>1, <3>2
    <3>4. thread < U
      <4>1. (c + 1) * T <= LeftoverChunks * T
        BY <2>1, <3>1, MulMono
      <4> QED
        BY <2>1, <3>1, <3>2, <4>1
    <3> HIDE DEF thread
    <3>5. thread + 1 \in 1..U /\ thread + 1 \in D /\ (thread + 1) - 1 = thread
      BY <3>3, <3>4, <1>1
    <3>6. LeftoverRegions(thread) = {c} \X (OutputCut(tc)..OutputCut(tc + 1) - 1)
      BY <3>3 DEF LeftoverRegions, T
    <3>7. <<c, o>> \in KernelSends[thread + 1].regions
      BY <3>2, <3>5, <3>6, <1>3
    <3> QED
      BY <3>5, <3>7
  <2>2. CASE c \in LeftoverChunks..NumChunks-1
    <3> DEFINE F == FullChunksPerThread
               d == c - LeftoverChunks
               thread == d \div F
    <3>1. d \in Nat /\ d < NumThreads * F /\ F \in Nat /\ F # 0
      BY <2>2, <1>0
    <3>2. thread \in Nat /\ d % F \in 0..F-1 /\ d = F * thread + (d % F)
      BY <3>1, DivMod
    <3> HIDE DEF thread, F
    <3>3. F * thread < NumThreads * F
      BY <3>1, <3>2, <1>0
    <3>4. thread \in Threads
      BY <3>1, <3>2, <3>3, <1>0 DEF Threads
    <3>5. c \in LeftoverChunks + thread * F..LeftoverChunks + thread * F + F - 1
      <4>1. thread * F \in Nat /\ thread * F <= d /\ d < thread * F + F
        BY <3>1, <3>2
      <4>2. c \in Int /\ LeftoverChunks \in Nat
        BY <1>0, <2>2
      <4> HIDE DEF F
      <4> QED
        BY <3>1, <4>1, <4>2
    <3>6. <<c, o>> \in FullRegions(thread)
      BY <3>5 DEF FullRegions, F
    <3>7. FullSends = NumThreads
      BY <3>1, <1>0, SendCases DEF F
    <3>8. thread + 1 \in 1..FullSends /\ U + (thread + 1) \in D /\ (thread + 1) - 1 = thread
      BY <3>2, <3>4, <3>7, <1>0, <1>1 DEF Threads
    <3>9. <<c, o>> \in KernelSends[U + (thread + 1)].regions
      BY <3>6, <3>8, <1>4
    <3> QED
      BY <3>8, <3>9
  <2> QED
    BY <2>1, <2>2, <1>0 DEF Chunks
<1>8. KernelRefs = Len(KernelSends)
  <2>1. CASE LeftoverChunks > 0
    BY <2>1, SendCases, <1>1 DEF KernelRefs
  <2>2. CASE LeftoverChunks = 0
    <3>1. FullChunksPerThread > 0
      BY <2>2, <1>0
    <3> QED
      BY <2>2, <3>1, SendCases, <1>0, <1>1 DEF KernelRefs
  <2> QED
    BY <2>1, <2>2, <1>0
<1>9. DOMAIN KernelSends = D
  BY SendCases
<1> HIDE DEF D, U
<1>10. \A region \in Chunks \X Outputs :
         \E i \in DOMAIN KernelSends : region \in KernelSends[i].regions
  BY <1>7, <1>9
<1>11. \A i, j \in DOMAIN KernelSends :
         i # j => KernelSends[i].regions \cap KernelSends[j].regions = {}
  BY <1>6, <1>9, Zenon
<1>12. \A i \in DOMAIN KernelSends :
         /\ KernelSends[i].thread \in Threads
         /\ KernelSends[i].regions # {}
         /\ KernelSends[i].regions \subseteq Chunks \X Outputs
  BY <1>5, <1>9, Zenon
<1> QED
  BY <1>8, <1>10, <1>11, <1>12, Zenon DEF KernelPartition
=============================================================================
