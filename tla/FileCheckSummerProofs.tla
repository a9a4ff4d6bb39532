----------------------- MODULE FileCheckSummerProofs -----------------------
(* Theorems about the window of FileCheckSummer for every block size, every   *)
(* file size and every mixture of matches, steps and skips.                   *)
EXTENDS FileCheckSummer, TLAPS

\* What Fill does to the buffer: the data before the tail stays, the file continues
\* behind it, and a whole block is there unless the file ends.
Filled(want, new, long, buf, tail, read) ==
  /\ want \in Nat
  /\ read + want \in 0..filesize
  /\ tail + want \in 0 .. 2 * BlockSize
  /\ new \in [Indices -> Int]
  /\ \A i \in Indices : i < tail => new[i] = buf[i]
  /\ \A i \in Indices : tail <= i /\ i < tail + want => new[i] = Byte(read + i - tail)
  /\ read + want < filesize => tail + want >= BlockSize
  /\ read + want < filesize /\ long /\ tail > 0 => tail + want = 2 * BlockSize
  /\ read < filesize /\ tail < BlockSize => want > 0

\* Fill does what Filled says, short or long.
LEMMA FillFacts ==
  ASSUME filesize \in Nat, NEW long \in BOOLEAN, NEW buf \in [Indices -> Int],
         NEW tail \in 0 .. 2 * BlockSize, NEW read \in 0..filesize
  PROVE  Filled(FillWant(long, tail, read), FillBuffer(long, buf, tail, read),
                long, buf, tail, read)
<1> DEFINE want == FillWant(long, tail, read)
           new  == FillBuffer(long, buf, tail, read)
<1> BlockSize \in Nat \ {0}
  BY WindowAssumption
<1>1. /\ want \in Nat
      /\ read + want \in 0..filesize
      /\ tail + want \in 0 .. 2 * BlockSize
      /\ read + want < filesize => tail + want >= BlockSize
      /\ read + want < filesize /\ long /\ tail > 0 => tail + want = 2 * BlockSize
      /\ read < filesize /\ tail < BlockSize => want > 0
  BY DEF FillWant, FillSkipped, FillTarget, LeastOf
<1>2. new \in [Indices -> Int]
  <2>1. \A i \in Indices : Byte(read + i - tail) \in Int
    BY DEF Byte, Indices
  <2> QED
    BY <2>1 DEF FillBuffer
<1>3. \A i \in Indices : i < tail => new[i] = buf[i]
  BY DEF FillBuffer
<1>4. \A i \in Indices : tail <= i /\ i < tail + want => new[i] = Byte(read + i - tail)
  <2> SUFFICES ASSUME NEW i \in Indices, tail <= i, i < tail + want
               PROVE  new[i] = Byte(read + i - tail)
    OBVIOUS
  <2>1. ~FillSkipped(long, tail, read) /\ ~(i < tail)
    BY <1>1 DEF FillWant, Indices
  <2> QED
    BY <2>1 DEF FillBuffer
<1> QED
  BY <1>1, <1>2, <1>3, <1>4 DEF Filled

----------------------------------------------------------------------------

HasherOK == hasher = [on |-> hasher.on, file |-> hasher.file] /\ hasher.on \in BOOLEAN

\* Before Start nothing has been read, and a skip is only begun inside the file.
PhaseTrue ==
  /\ pc = "start" => readoffset = 0
  /\ pc = "skip" => currentoffset < filesize /\ scanskip > 0
  /\ HasherOK

WindowInv == TypeOK /\ BufferTrue /\ PhaseTrue

\* What a step or a jump establishes about the window, and a reader of it needs.
WindowOK ==
  /\ currentoffset \in 0..filesize
  /\ readoffset \in 0..filesize
  /\ buffer \in [Indices -> Int]
  /\ outpointer \in 0 .. BlockSize - 1
  /\ inpointer \in {0} \cup BlockSize .. 2 * BlockSize - 1
  /\ tailpointer \in 0 .. 2 * BlockSize
  /\ hasblockhash \in BOOLEAN
  /\ currentoffset < filesize =>
       /\ inpointer = outpointer + BlockSize
       /\ outpointer < tailpointer
       /\ readoffset - currentoffset = tailpointer - outpointer
       /\ \A i \in Indices : outpointer <= i /\ i < tailpointer
            => buffer[i] = Byte(currentoffset + i - outpointer)
       /\ readoffset < filesize => tailpointer >= inpointer

\* Reaching the end of the file leaves the pointers in the buffer.
LEMMA AtEndOK ==
  ASSUME TypeOK, AtEnd, hasblockhash' \in BOOLEAN, filesize' = filesize
  PROVE  WindowOK'
<1> BlockSize \in Nat \ {0} /\ filesize \in Nat
  BY WindowAssumption DEF TypeOK
<1>1. buffer' \in [Indices -> Int]
  BY DEF AtEnd, TypeOK
<1>2. currentoffset' = filesize /\ tailpointer' = 0 /\ outpointer' = 0
      /\ inpointer' = inpointer /\ readoffset' = readoffset
  BY DEF AtEnd
<1> QED
  BY <1>1, <1>2 DEF WindowOK, TypeOK

\* The fill of a step: the buffer holds the file from the window to the new tail.
LEMMA StepFillOK ==
  ASSUME TypeOK, BufferTrue, Open
  PROVE  /\ StepWant \in Nat
         /\ readoffset + StepWant \in 0..filesize
         /\ tailpointer + StepWant \in 0 .. 2 * BlockSize
         /\ StepFilled \in [Indices -> Int]
         /\ readoffset + StepWant < filesize => tailpointer + StepWant > inpointer
         /\ \A i \in Indices : outpointer <= i /\ i < tailpointer + StepWant
              => StepFilled[i] = Byte(currentoffset + i - outpointer)
<1> BlockSize \in Nat \ {0} /\ filesize \in Nat
  BY WindowAssumption DEF TypeOK
<1>2. /\ inpointer = outpointer + BlockSize
      /\ outpointer < tailpointer
      /\ readoffset - currentoffset = tailpointer - outpointer
      /\ \A i \in Indices : outpointer <= i /\ i < tailpointer
           => buffer[i] = Byte(currentoffset + i - outpointer)
      /\ readoffset < filesize => tailpointer >= inpointer
  BY DEF BufferTrue
<1>3. /\ currentoffset \in 0..filesize /\ readoffset \in 0..filesize
      /\ buffer \in [Indices -> Int]
      /\ outpointer \in 0 .. BlockSize - 1
      /\ tailpointer \in 0 .. 2 * BlockSize
  BY DEF TypeOK
<1>4. /\ StepWant \in Nat
      /\ readoffset + StepWant \in 0..filesize
      /\ tailpointer + StepWant \in 0 .. 2 * BlockSize
      /\ StepFilled \in [Indices -> Int]
      /\ \A i \in Indices : i < tailpointer => StepFilled[i] = buffer[i]
      /\ \A i \in Indices : tailpointer <= i /\ i < tailpointer + StepWant
           => StepFilled[i] = Byte(readoffset + i - tailpointer)
      /\ readoffset + StepWant < filesize => tailpointer + StepWant > inpointer
  <2>1. CASE StepLong
    <3>1. StepWant = FillWant(TRUE, tailpointer, readoffset)
          /\ StepFilled = FillBuffer(TRUE, buffer, tailpointer, readoffset)
      BY <2>1 DEF StepWant, StepFilled
    <3>2. inpointer < 2 * BlockSize /\ tailpointer > 0
      BY <1>2, <1>3
    <3> DEFINE want == FillWant(TRUE, tailpointer, readoffset)
               new  == FillBuffer(TRUE, buffer, tailpointer, readoffset)
    <3>3. /\ want \in Nat
          /\ readoffset + want \in 0..filesize
          /\ tailpointer + want \in 0 .. 2 * BlockSize
          /\ new \in [Indices -> Int]
          /\ \A i \in Indices : i < tailpointer => new[i] = buffer[i]
          /\ \A i \in Indices : tailpointer <= i /\ i < tailpointer + want
               => new[i] = Byte(readoffset + i - tailpointer)
          /\ readoffset + want < filesize => tailpointer + want = 2 * BlockSize
      <4>1. TRUE \in BOOLEAN
        OBVIOUS
      <4>2. Filled(want, new, TRUE, buffer, tailpointer, readoffset)
        BY <4>1, <1>3, FillFacts, Zenon
      <4> QED
        BY <4>2, <3>2, Zenon DEF Filled
    <3> HIDE DEF want, new
    <3>4. readoffset + want < filesize => tailpointer + want > inpointer
      BY <3>2, <3>3, <1>3
    <3>5. StepWant = want /\ StepFilled = new
      BY <3>1 DEF want, new
    <3> QED
      BY <3>3, <3>4, <3>5, Zenon
  <2>2. CASE ~StepLong
    <3>1. StepWant = 0 /\ StepFilled = buffer /\ tailpointer > inpointer
      BY <2>2, <1>2, <1>3 DEF StepWant, StepFilled, StepLong
    <3>2. \A i \in Indices : ~(tailpointer <= i /\ i < tailpointer + 0)
      BY <1>3 DEF Indices
    <3> QED
      BY <3>1, <3>2, <1>3
  <2> QED
    BY <2>1, <2>2
<1>5. \A i \in Indices : outpointer <= i /\ i < tailpointer + StepWant
        => StepFilled[i] = Byte(currentoffset + i - outpointer)
  <2> SUFFICES ASSUME NEW i \in Indices, outpointer <= i, i < tailpointer + StepWant
               PROVE  StepFilled[i] = Byte(currentoffset + i - outpointer)
    OBVIOUS
  <2> i \in Int
    BY DEF Indices
  <2>1. CASE i < tailpointer
    BY <2>1, <1>2, <1>4
  <2>2. CASE tailpointer <= i
    <3>1. readoffset + i - tailpointer = currentoffset + i - outpointer
      BY <1>2, <1>3
    <3> QED
      BY <2>2, <3>1, <1>4
  <2> QED
    BY <2>1, <2>2, <1>3
<1> QED
  BY <1>4, <1>5

\* A step moves the window to the next byte of the file.
LEMMA StepOK ==
  ASSUME TypeOK, BufferTrue, Open, Step, filesize' = filesize
  PROVE  WindowOK'
<1> BlockSize \in Nat \ {0} /\ filesize \in Nat
  BY WindowAssumption DEF TypeOK
<1>0. hasblockhash' \in BOOLEAN
  BY DEF Step
<1>1. CASE currentoffset + 1 >= filesize
  <2>1. ~(currentoffset + 1 < filesize)
    BY <1>1 DEF TypeOK
  <2>2. AtEnd
    BY <2>1, Zenon DEF Step
  <2> QED
    BY <2>2, <1>0, AtEndOK
<1>2. CASE currentoffset + 1 < filesize
  <2>0. ~(currentoffset + 1 >= filesize)
    BY <1>2 DEF TypeOK
  <2>1. /\ currentoffset' = currentoffset + 1
        /\ readoffset' = readoffset + StepWant
        /\ buffer' = SlideBuffer(StepFilled)
        /\ outpointer' = SlideOut
        /\ inpointer' = SlideOut + BlockSize
        /\ tailpointer' = SlideTail(StepWant)
    BY <2>0, Zenon DEF Step
  <2>2. /\ inpointer = outpointer + BlockSize
        /\ outpointer < tailpointer
        /\ readoffset - currentoffset = tailpointer - outpointer
        /\ \A i \in Indices : outpointer <= i /\ i < tailpointer
             => buffer[i] = Byte(currentoffset + i - outpointer)
        /\ readoffset < filesize => tailpointer >= inpointer
    BY DEF BufferTrue
  <2>3. /\ currentoffset \in 0..filesize /\ readoffset \in 0..filesize
        /\ buffer \in [Indices -> Int]
        /\ outpointer \in 0 .. BlockSize - 1
        /\ tailpointer \in 0 .. 2 * BlockSize
    BY DEF TypeOK
  <2> DEFINE end == tailpointer + StepWant
  <2>4. /\ StepWant \in Nat
        /\ readoffset + StepWant \in 0..filesize
        /\ tailpointer + StepWant \in 0 .. 2 * BlockSize
        /\ StepFilled \in [Indices -> Int]
        /\ readoffset + StepWant < filesize => tailpointer + StepWant > inpointer
    BY StepFillOK, Zenon
  <2>5. \A i \in Indices : outpointer <= i /\ i < end
          => StepFilled[i] = Byte(currentoffset + i - outpointer)
    BY StepFillOK, Zenon
  <2>6. outpointer + 1 < end
    BY <1>2, <2>2, <2>3, <2>4
  <2>7. CASE Slides
    <3>1. buffer' = StepFilled /\ outpointer' = outpointer + 1 /\ tailpointer' = end
      BY <2>7, <2>1 DEF SlideBuffer, SlideOut, SlideTail
    <3>2. outpointer + 1 < BlockSize
      BY <2>7 DEF Slides
    <3>3. \A i \in Indices : outpointer' <= i /\ i < tailpointer'
            => buffer'[i] = Byte(currentoffset' + i - outpointer')
      <4> SUFFICES ASSUME NEW i \in Indices, outpointer + 1 <= i, i < end
                   PROVE  StepFilled[i] = Byte(currentoffset + 1 + i - (outpointer + 1))
        BY <3>1, <2>1
      <4> i \in Int
        BY DEF Indices
      <4>1. currentoffset + 1 + i - (outpointer + 1) = currentoffset + i - outpointer
        BY <2>3
      <4>2. outpointer <= i
        BY <2>3
      <4> QED
        BY <4>1, <4>2, <2>5
    <3>4. inpointer' = outpointer + 1 + BlockSize
      BY <2>1, <2>7 DEF SlideOut
    <3>5. readoffset' - currentoffset' = tailpointer' - outpointer'
      <4>1. StepWant \in Nat /\ readoffset - currentoffset = tailpointer - outpointer
        BY <2>2, <2>4
      <4>2. readoffset' = readoffset + StepWant /\ currentoffset' = currentoffset + 1
            /\ tailpointer' = end /\ outpointer' = outpointer + 1
        BY <3>1, <2>1, Zenon
      <4> QED
        BY <4>1, <4>2, <2>3
    <3>6. readoffset' < filesize => tailpointer' >= inpointer'
      <4>1. /\ StepWant \in Nat /\ inpointer = outpointer + BlockSize
            /\ readoffset + StepWant < filesize => end > inpointer
        BY <2>2, <2>4
      <4>2. readoffset + StepWant < filesize => end >= outpointer + 1 + BlockSize
        BY <4>1, <2>3
      <4> QED
        <5>1. readoffset' = readoffset + StepWant /\ tailpointer' = end
              /\ inpointer' = outpointer + 1 + BlockSize
          BY <3>1, <3>4, <2>1, Zenon
        <5> QED
          BY <4>2, <5>1, Zenon
    <3> QED
      BY <1>0, <1>2, <2>1, <2>3, <2>4, <2>6, <3>1, <3>2, <3>3, <3>4, <3>5, <3>6
         DEF WindowOK
  <2>8. CASE ~Slides
    <3>1. /\ outpointer' = 0 /\ tailpointer' = end - BlockSize
          /\ inpointer' = BlockSize
          /\ buffer' = [i \in Indices |-> IF i < BlockSize THEN StepFilled[i + BlockSize]
                                          ELSE StepFilled[i]]
      BY <2>8, <2>1, <2>3, <2>4 DEF SlideBuffer, SlideOut, SlideTail
    <3>2. outpointer = BlockSize - 1
      BY <2>8, <2>3 DEF Slides
    <3>3. \A i \in Indices : i < BlockSize => i + BlockSize \in Indices
      BY DEF Indices
    <3>4. buffer' \in [Indices -> Int]
      BY <3>1, <3>3, <2>4
    <3>5. \A i \in Indices : outpointer' <= i /\ i < tailpointer'
            => buffer'[i] = Byte(currentoffset' + i - outpointer')
      <4> SUFFICES ASSUME NEW i \in Indices, i < end - BlockSize
                   PROVE  buffer'[i] = Byte(currentoffset + 1 + i - 0)
        BY <3>1, <2>1
      <4> i \in Nat
        BY DEF Indices
      <4>1. i < BlockSize
        BY <2>3, <2>4
      <4>2. buffer'[i] = StepFilled[i + BlockSize]
        BY <3>1, <4>1
      <4>3. i + BlockSize \in Indices /\ outpointer <= i + BlockSize /\ i + BlockSize < end
        BY <3>2, <3>3, <4>1, <2>3, <2>4
      <4>4. StepFilled[i + BlockSize] = Byte(currentoffset + (i + BlockSize) - outpointer)
        BY <4>3, <2>5
      <4>5. currentoffset + (i + BlockSize) - outpointer = currentoffset + 1 + i - 0
        BY <3>2, <2>3
      <4> QED
        BY <4>2, <4>4, <4>5
    <3>6. readoffset' - currentoffset' = tailpointer' - outpointer'
      BY <3>1, <3>2, <2>1, <2>2, <2>3, <2>4
    <3>7. readoffset' < filesize => tailpointer' >= inpointer'
      BY <3>1, <3>2, <2>1, <2>2, <2>3, <2>4
    <3>8. tailpointer' \in 0 .. 2 * BlockSize /\ outpointer' < tailpointer'
      BY <3>1, <3>2, <2>3, <2>4, <2>6
    <3> QED
      BY <1>0, <1>2, <2>1, <2>3, <2>4, <3>1, <3>4, <3>5, <3>6, <3>7, <3>8 DEF WindowOK
  <2> QED
    BY <2>7, <2>8
<1> QED
  BY <1>1, <1>2 DEF TypeOK

\* Start, and a jump that keeps what is left of the buffer, refill it from its start.
LEMMA RefillOK ==
  ASSUME filesize \in Nat, filesize' = filesize,
         NEW buf \in [Indices -> Int], NEW keep \in 0 .. 2 * BlockSize,
         NEW offset \in Nat, offset < filesize,
         readoffset \in 0..filesize, readoffset - offset = keep,
         \A i \in Indices : i < keep => buf[i] = Byte(offset + i),
         buffer' = FillBuffer(FALSE, buf, keep, readoffset),
         tailpointer' = keep + FillWant(FALSE, keep, readoffset),
         readoffset' = readoffset + FillWant(FALSE, keep, readoffset),
         outpointer' = 0, inpointer' = BlockSize, currentoffset' = offset,
         hasblockhash' \in BOOLEAN
  PROVE  WindowOK'
<1> BlockSize \in Nat \ {0}
  BY WindowAssumption
<1> DEFINE want == FillWant(FALSE, keep, readoffset)
           new  == FillBuffer(FALSE, buf, keep, readoffset)
<1>1. Filled(want, new, FALSE, buf, keep, readoffset)
  <2>1. FALSE \in BOOLEAN
    OBVIOUS
  <2> QED
    BY <2>1, FillFacts, Zenon
<1>2. /\ buffer' = new
      /\ tailpointer' = keep + want
      /\ readoffset' = readoffset + want
  OBVIOUS
<1> HIDE DEF want, new
<1>3. /\ want \in Nat
      /\ readoffset + want \in 0..filesize
      /\ keep + want \in 0 .. 2 * BlockSize
      /\ readoffset + want < filesize => keep + want >= BlockSize
      /\ readoffset < filesize /\ keep < BlockSize => want > 0
  BY <1>1 DEF Filled
<1>4. new \in [Indices -> Int]
  BY <1>1 DEF Filled
<1>5. keep + want > 0
  BY <1>3
<1>6. \A i \in Indices : 0 <= i /\ i < keep + want => new[i] = Byte(offset + i - 0)
  <2> SUFFICES ASSUME NEW i \in Indices, i < keep + want
               PROVE  new[i] = Byte(offset + i - 0)
    OBVIOUS
  <2> i \in Int
    BY DEF Indices
  <2>1. CASE i < keep
    <3>1. new[i] = Byte(offset + i)
      BY <2>1, <1>1 DEF Filled
    <3> QED
      BY <3>1
  <2>2. CASE keep <= i
    <3>1. new[i] = Byte(readoffset + i - keep)
      BY <2>2, <1>1 DEF Filled
    <3>2. readoffset + i - keep = offset + i - 0
      OBVIOUS
    <3> QED
      BY <3>1, <3>2
  <2> QED
    BY <2>1, <2>2
<1>7. \A i \in Indices : outpointer' <= i /\ i < tailpointer'
        => buffer'[i] = Byte(currentoffset' + i - outpointer')
  BY <1>2, <1>6
<1>8. /\ readoffset' - currentoffset' = tailpointer' - outpointer'
      /\ readoffset' < filesize => tailpointer' >= inpointer'
      /\ tailpointer' \in 0 .. 2 * BlockSize /\ readoffset' \in 0..filesize
      /\ outpointer' < tailpointer'
  <2>1. readoffset' - currentoffset' = tailpointer' - outpointer'
    <3>1. ASSUME NEW a \in Int, NEW k \in Int, NEW w \in Int, NEW o \in Int, a - o = k
          PROVE  (a + w) - o = (k + w) - 0
      BY <3>1
    <3>2. (readoffset + want) - offset = (keep + want) - 0
      BY <3>1, <1>3
    <3> QED
      BY <3>2, <1>2, Zenon
  <2>2. readoffset' < filesize => tailpointer' >= inpointer'
    BY <1>2, <1>3
  <2>3. tailpointer' \in 0 .. 2 * BlockSize /\ readoffset' \in 0..filesize
    BY <1>2, <1>3
  <2>4. outpointer' < tailpointer'
    BY <1>2, <1>3, <1>5
  <2> QED
    BY <2>1, <2>2, <2>3, <2>4
<1>9. /\ inpointer' = outpointer' + BlockSize
      /\ outpointer' \in 0 .. BlockSize - 1
      /\ inpointer' \in BlockSize .. 2 * BlockSize - 1
      /\ currentoffset' \in 0..filesize
  OBVIOUS
<1> QED
  BY <1>2, <1>4, <1>7, <1>8, <1>9 DEF WindowOK

\* A jump of more than a byte.
LEMMA JumpFarOK ==
  ASSUME TypeOK, BufferTrue, PhaseTrue, Open, filesize' = filesize,
         NEW distance \in 1..BlockSize, JumpFar(distance)
  PROVE  WindowOK'
<1> BlockSize \in Nat \ {0} /\ filesize \in Nat
  BY WindowAssumption DEF TypeOK
<1> DEFINE stop == distance # BlockSize /\ currentoffset + distance < filesize
           h    == IF stop THEN NoHasher ELSE hasher
           out  == outpointer + distance
           keep == tailpointer - out
           buf  == [i \in Indices |-> IF i < keep THEN buffer[i + out] ELSE buffer[i]]
<1>1. CASE AtEnd /\ hasblockhash' = FALSE
  BY <1>1, AtEndOK
<1>2. CASE /\ currentoffset + distance < filesize
           /\ currentoffset' = currentoffset + distance
           /\ outpointer' = 0
           /\ inpointer' = BlockSize
           /\ Fill(FALSE, buf, keep, IF stop THEN StoppedFull ELSE contextfull, h.on)
           /\ ComputeCurrentChecksum(distance = BlockSize, h, currentoffset + distance)
  <2>1. /\ inpointer = outpointer + BlockSize
        /\ readoffset - currentoffset = tailpointer - outpointer
        /\ \A i \in Indices : outpointer <= i /\ i < tailpointer
             => buffer[i] = Byte(currentoffset + i - outpointer)
        /\ readoffset < filesize => tailpointer >= inpointer
    BY DEF BufferTrue
  <2>2. /\ currentoffset \in 0..filesize /\ readoffset \in 0..filesize
        /\ buffer \in [Indices -> Int]
        /\ outpointer \in 0 .. BlockSize - 1
        /\ tailpointer \in 0 .. 2 * BlockSize
    BY DEF TypeOK
  <2>3. keep \in 0 .. 2 * BlockSize /\ readoffset - (currentoffset + distance) = keep
    BY <1>2, <2>1, <2>2
  <2>4. \A i \in Indices : i < keep => /\ i + out \in Indices
                                       /\ outpointer <= i + out /\ i + out < tailpointer
    BY <2>2 DEF Indices
  <2>5. buf \in [Indices -> Int]
    BY <2>2, <2>4
  <2>6. \A i \in Indices : i < keep => buf[i] = Byte(currentoffset + distance + i)
    <3> SUFFICES ASSUME NEW i \in Indices, i < keep
                 PROVE  buffer[i + out] = Byte(currentoffset + distance + i)
      OBVIOUS
    <3> i \in Int
      BY DEF Indices
    <3>1. buffer[i + out] = Byte(currentoffset + (i + out) - outpointer)
      BY <2>1, <2>4
    <3>2. currentoffset + (i + out) - outpointer = currentoffset + distance + i
      BY <2>2
    <3> QED
      BY <3>1, <3>2
  <2>7. hasblockhash' \in BOOLEAN
    BY <1>2 DEF ComputeCurrentChecksum, PhaseTrue, HasherOK, NoHasher
  <2>8. /\ buffer' = FillBuffer(FALSE, buf, keep, readoffset)
        /\ tailpointer' = keep + FillWant(FALSE, keep, readoffset)
        /\ readoffset' = readoffset + FillWant(FALSE, keep, readoffset)
    BY <1>2, Zenon DEF Fill
  <2>9. currentoffset + distance \in Nat
    BY <2>2
  <2> HIDE DEF buf, keep, out
  <2> QED
    BY <1>2, <2>2, <2>3, <2>5, <2>6, <2>7, <2>8, <2>9, RefillOK
<1> QED
  BY <1>1, <1>2, Zenon DEF JumpFar

\* A jump goes on with the hasher or without one.
LEMMA HasherJumpOK ==
  ASSUME HasherOK, NEW distance \in 1..BlockSize, JumpFar(distance)
  PROVE  HasherOK'
<1>1. ASSUME NEW h, h = [on |-> h.on, file |-> h.file], h.on \in BOOLEAN,
             NEW offset, NEW domd5 \in BOOLEAN, ComputeCurrentChecksum(domd5, h, offset)
      PROVE  HasherOK'
  BY <1>1 DEF ComputeCurrentChecksum, HasherOK
<1>2. NoHasher = [on |-> NoHasher.on, file |-> NoHasher.file] /\ NoHasher.on \in BOOLEAN
  BY DEF NoHasher
<1> DEFINE stop == distance # BlockSize /\ currentoffset + distance < filesize
           h    == IF stop THEN NoHasher ELSE hasher
<1>3. h = [on |-> h.on, file |-> h.file] /\ h.on \in BOOLEAN
  BY <1>2 DEF HasherOK
<1>4. (distance = BlockSize) \in BOOLEAN
  OBVIOUS
<1>5. hasher' = hasher
      \/ ComputeCurrentChecksum(distance = BlockSize, h, currentoffset + distance)
  BY Zenon DEF JumpFar
<1>6. CASE hasher' = hasher
  BY <1>6 DEF HasherOK
<1>7. CASE ComputeCurrentChecksum(distance = BlockSize, h, currentoffset + distance)
  <2> HIDE DEF h
  <2> QED
    BY <1>1, <1>3, <1>4, <1>7, Zenon
<1> QED
  BY <1>5, <1>6, <1>7

\* A jump of any length of at least 1, from inside the file.
LEMMA JumpOK ==
  ASSUME TypeOK, BufferTrue, PhaseTrue, Open, filesize' = filesize,
         NEW distance \in Nat \ {0}, Jump(distance)
  PROVE  WindowOK' /\ HasherOK'
<1> BlockSize \in Nat \ {0}
  BY WindowAssumption
<1>1. CASE Step
  BY <1>1, StepOK DEF Step, HasherOK, NoHasher
<1>2. CASE distance > 1 /\ JumpFar(LeastOf(distance, BlockSize))
  <2>1. LeastOf(distance, BlockSize) \in 1..BlockSize
    BY <1>2 DEF LeastOf
  <2>2. HasherOK
    BY DEF PhaseTrue
  <2> QED
    BY <1>2, <2>1, <2>2, JumpFarOK, HasherJumpOK
<1> QED
  BY <1>1, <1>2 DEF Jump

\* The first fill of the buffer.
LEMMA StartOK ==
  ASSUME TypeOK, PhaseTrue, pc = "start", filesize' = filesize, Start
  PROVE  WindowOK' /\ HasherOK'
<1> BlockSize \in Nat \ {0} /\ filesize \in Nat \ {0}
  BY WindowAssumption DEF TypeOK
<1>1. hasblockhash' \in BOOLEAN /\ HasherOK'
  BY DEF Start, ComputeCurrentChecksum, HasherOK
<1>2. /\ buffer' = FillBuffer(FALSE, buffer, 0, readoffset)
      /\ tailpointer' = 0 + FillWant(FALSE, 0, readoffset)
      /\ readoffset' = readoffset + FillWant(FALSE, 0, readoffset)
      /\ outpointer' = 0 /\ inpointer' = BlockSize /\ currentoffset' = 0
  BY Zenon DEF Start, Fill
<1>3. buffer \in [Indices -> Int] /\ readoffset = 0
  BY DEF TypeOK, PhaseTrue
<1>4. \A i \in Indices : i < 0 => buffer[i] = Byte(0 + i)
  BY DEF Indices
<1>5. 0 \in 0 .. 2 * BlockSize /\ 0 \in Nat /\ 0 < filesize /\ filesize \in Nat
      /\ readoffset \in 0..filesize /\ readoffset - 0 = 0
  BY <1>3
<1> QED
  BY <1>1, <1>2, <1>3, <1>4, <1>5, RefillOK

----------------------------------------------------------------------------

\* The loop around the operations keeps the invariant when they do.
LEMMA LoopOK ==
  ASSUME TypeOK, WindowOK', HasherOK', filesize' = filesize, skipdata' = skipdata,
         scanoffset' \in Nat, lastmatchoffset' \in Nat, pc' \in {"scan", "skip"},
         pc' = "skip" => currentoffset' < filesize /\ scanskip > 0
  PROVE  WindowInv'
<1>1. TypeOK'
  BY DEF TypeOK, WindowOK
<1>2. BufferTrue'
  BY DEF BufferTrue, WindowOK, Open
<1>3. PhaseTrue'
  BY DEF PhaseTrue, scanskip, scandistance
<1> QED
  BY <1>1, <1>2, <1>3 DEF WindowInv

\* The distances of the scan loop are natural numbers.
LEMMA ScanDistances ==
  ASSUME TypeOK
  PROVE  scandistance \in Nat /\ scandistance \div 2 \in Nat /\ scanskip \in Nat
<1>1. scandistance \in Nat /\ scandistance <= BlockSize /\ BlockSize \in Nat
  BY WindowAssumption DEF scandistance, LeastOf
<1> QED
  BY <1>1 DEF scanskip

\* The initial window is empty, and nothing is said of it.
LEMMA WindowInit == Init => WindowInv
<1> SUFFICES ASSUME Init PROVE WindowInv
  OBVIOUS
<1>1. TypeOK
  <2>1. scandistance \div 2 \in Nat
    <3>1. scandistance \in Nat
      BY WindowAssumption DEF scandistance, LeastOf
    <3> QED
      BY <3>1
  <2>2. buffer \in [Indices -> Int]
    BY DEF Init, Uninit
  <2>3. filesize \in Nat /\ skipdata \in BOOLEAN
    BY WindowAssumption DEF Init
  <2> QED
    <3>1. scanoffset \in Nat /\ filesize \in FileSizes
      BY <2>1, Zenon DEF Init
    <3>2. currentoffset \in 0..filesize /\ readoffset \in 0..filesize
      BY <2>3 DEF Init
    <3>3. outpointer \in 0 .. BlockSize - 1 /\ tailpointer \in 0 .. 2 * BlockSize
      BY WindowAssumption DEF Init
    <3>4. inpointer = 0 /\ lastmatchoffset = 0 /\ hasblockhash = FALSE /\ pc = "start"
      BY DEF Init
    <3> QED
      BY <3>1, <3>2, <3>3, <3>4, <2>2, <2>3 DEF TypeOK
<1>2. BufferTrue
  BY DEF Init, BufferTrue, Open
<1>3. PhaseTrue
  BY DEF Init, PhaseTrue, HasherOK, NoHasher
<1> QED
  BY <1>1, <1>2, <1>3 DEF WindowInv

\* Every step of the loop keeps the window true.
LEMMA WindowNext == WindowInv /\ [Next]_vars => WindowInv'
<1> SUFFICES ASSUME WindowInv, [Next]_vars PROVE WindowInv'
  OBVIOUS
<1> TypeOK /\ BufferTrue /\ PhaseTrue
  BY DEF WindowInv
<1>1. CASE Begin
  <2>1. WindowOK' /\ HasherOK'
    BY <1>1, StartOK DEF Begin
  <2>2. scanoffset' \in Nat /\ lastmatchoffset' \in Nat
    BY <1>1 DEF Begin, scanVars, TypeOK
  <2> QED
    BY <1>1, <2>1, <2>2, LoopOK DEF Begin
<1>2. CASE NoMatch
  <2>1. Open
    BY <1>2 DEF NoMatch, Open
  <2>2. WindowOK' /\ HasherOK'
    BY <1>2, <2>1, StepOK DEF NoMatch, Step, HasherOK, NoHasher
  <2>3. scanoffset' \in Nat /\ lastmatchoffset' \in Nat
    BY <1>2 DEF NoMatch, TypeOK
  <2>4. pc' = "skip" => currentoffset' < filesize /\ scanskip > 0
    BY <1>2 DEF NoMatch, TooFar
  <2>5. pc' \in {"scan", "skip"}
    BY <1>2 DEF NoMatch
  <2> QED
    BY <1>2, <2>2, <2>3, <2>4, <2>5, LoopOK DEF NoMatch
<1>3. CASE \E length \in 1..BlockSize : Match(length)
  <2>1. PICK length \in 1..BlockSize : Match(length)
    BY <1>3
  <2>2. Open /\ length \in Nat \ {0}
    BY <2>1, WindowAssumption DEF Match, Open
  <2>3. WindowOK' /\ HasherOK'
    BY <2>1, <2>2, JumpOK DEF Match
  <2>4. scanoffset' \in Nat /\ lastmatchoffset' \in Nat
    <3>1. currentoffset' \in Nat
      BY <2>1, <2>3, WindowAssumption DEF WindowOK, Match, TypeOK
    <3> QED
      BY <2>1, <3>1, ScanDistances DEF Match
  <2>5. pc' = "scan"
    BY <2>1 DEF Match
  <2> QED
    BY <2>1, <2>3, <2>4, <2>5, LoopOK DEF Match
<1>4. CASE Skip
  <2>1. Open /\ scanskip \in Nat \ {0}
    BY <1>4, ScanDistances DEF Skip, Open, PhaseTrue
  <2>2. WindowOK' /\ HasherOK'
    BY <1>4, <2>1, JumpOK DEF Skip
  <2>3. scanoffset' \in Nat /\ lastmatchoffset' \in Nat
    BY <1>4 DEF Skip, TypeOK
  <2> QED
    BY <1>4, <2>2, <2>3, LoopOK DEF Skip
<1>5. CASE Finish \/ ReadFails \/ Cancelled \/ UNCHANGED vars
  <2>1. /\ UNCHANGED <<filesize, currentoffset, outpointer, inpointer, buffer, tailpointer,
                       readoffset, hasblockhash, hasher, skipdata, scanoffset,
                       lastmatchoffset>>
        /\ pc' \in {pc, "done", "failed", "cancelled"}
    BY <1>5
       DEF Finish, ReadFails, Cancelled, vars, readVars, hashVars, scanVars
  <2>2. TypeOK'
    BY <2>1 DEF TypeOK
  <2>3. BufferTrue'
    BY <2>1 DEF BufferTrue, Open
  <2>4. PhaseTrue'
    BY <2>1 DEF PhaseTrue, HasherOK, scanskip, scandistance
  <2> QED
    BY <2>2, <2>3, <2>4 DEF WindowInv
<1> QED
  BY <1>1, <1>2, <1>3, <1>4, <1>5, Zenon DEF Next, Advance

\* Whatever mixture of matches, single steps and skips ScanDataFile makes, for every
\* block size and every file, the pointers of FileCheckSummer stay in the buffer, the
\* buffer holds the file from the window on, and the assertions of Step and Jump hold.
THEOREM WindowStaysTrue == Spec => [](TypeOK /\ BufferTrue)
<1>1. WindowInv => TypeOK /\ BufferTrue
  BY DEF WindowInv
<1> QED
  BY <1>1, WindowInit, WindowNext, PTL DEF Spec

----------------------------------------------------------------------------
(* The checksum of the window *)

SumTrue ==
  currentoffset + BlockSize <= filesize =>
    /\ checksum = FileBytes(currentoffset, BlockSize)
    /\ hasblockhash => blockhash = checksum

\* Rolling the checksum by one byte moves the bytes it stands for by one.
LEMMA RollBytes ==
  ASSUME NEW c \in Nat, NEW n \in Nat \ {0}
  PROVE  Append(Tail(FileBytes(c, n)), Byte(c + n)) = FileBytes(c + 1, n)
<1> DEFINE s == FileBytes(c, n)
           t == FileBytes(c + 1, n)
           r == Append(Tail(s), Byte(c + n))
<1>1. s \in Seq(Int) /\ Len(s) = n /\ \A k \in 1..n : s[k] = Byte(c + k - 1)
  BY DEF FileBytes, Byte
<1>2. t \in Seq(Int) /\ Len(t) = n /\ \A k \in 1..n : t[k] = Byte(c + 1 + k - 1)
  BY DEF FileBytes, Byte
<1>3. Byte(c + n) \in Int
  BY DEF Byte
<1> HIDE DEF s, t
<1>4. Tail(s) \in Seq(Int) /\ Len(Tail(s)) = n - 1
      /\ \A k \in 1 .. n - 1 : Tail(s)[k] = s[k + 1]
  BY <1>1
<1>5. r \in Seq(Int) /\ Len(r) = n
  BY <1>3, <1>4
<1>6. ASSUME NEW k \in 1..n PROVE r[k] = t[k]
  <2>1. CASE k < n
    <3>1. r[k] = s[k + 1] /\ s[k + 1] = Byte(c + (k + 1) - 1)
      BY <2>1, <1>1, <1>3, <1>4
    <3>2. c + (k + 1) - 1 = c + 1 + k - 1
      OBVIOUS
    <3> QED
      BY <3>1, <3>2, <1>2
  <2>2. CASE k = n
    <3>1. r[k] = Byte(c + n)
      BY <2>2, <1>3, <1>4
    <3>2. c + n = c + 1 + k - 1
      BY <2>2
    <3> QED
      BY <3>1, <3>2, <1>2
  <2>3. k < n \/ k = n
    OBVIOUS
  <2> QED
    BY <2>1, <2>2, <2>3, Zenon
<1> HIDE DEF r
<1>7. r = t
  <2>1. r = [k \in 1..n |-> r[k]]
    BY <1>5
  <2>2. t = [k \in 1..n |-> t[k]]
    BY <1>2
  <2> QED
    BY <2>1, <2>2, <1>6
<1> QED
  BY <1>7 DEF r, s, t

\* A step rolls the byte in that follows the window in the file.
LEMMA StepSum ==
  ASSUME TypeOK, BufferTrue, Open, WholeWindowTrue, Step, filesize' = filesize
  PROVE  SumTrue'
<1> BlockSize \in Nat \ {0} /\ filesize \in Nat /\ currentoffset \in Nat
  BY WindowAssumption DEF TypeOK
<1> SUFFICES ASSUME currentoffset' + BlockSize <= filesize
             PROVE  /\ checksum' = FileBytes(currentoffset', BlockSize)
                    /\ hasblockhash' => blockhash' = checksum'
  BY DEF SumTrue
<1>1. ~AtEnd
  BY DEF AtEnd
<1>2. /\ currentoffset' = currentoffset + 1
      /\ checksum' = Append(Tail(checksum), Incoming(StepFilled))
      /\ hasblockhash' = FALSE
  BY <1>1, Zenon DEF Step
<1>3. checksum = FileBytes(currentoffset, BlockSize)
  BY <1>2 DEF WholeWindowTrue
<1>4. /\ inpointer = outpointer + BlockSize
      /\ readoffset - currentoffset = tailpointer - outpointer
  BY DEF BufferTrue
<1>5. /\ outpointer \in 0 .. BlockSize - 1 /\ tailpointer \in 0 .. 2 * BlockSize
      /\ readoffset \in 0..filesize
  BY DEF TypeOK
<1>6. /\ StepWant \in Nat
      /\ readoffset + StepWant \in 0..filesize
      /\ readoffset + StepWant < filesize => tailpointer + StepWant > inpointer
  BY StepFillOK, Zenon
<1>7. inpointer \in Indices /\ outpointer <= inpointer /\ inpointer < tailpointer + StepWant
  BY <1>2, <1>4, <1>5, <1>6 DEF Indices
<1>8. StepFilled[inpointer] = Byte(currentoffset + inpointer - outpointer)
  BY <1>7, StepFillOK, Zenon
<1>9. Incoming(StepFilled) = Byte(currentoffset + BlockSize)
  <2>1. currentoffset + inpointer - outpointer = currentoffset + BlockSize
    BY <1>4, <1>5
  <2> QED
    BY <1>8, <2>1 DEF Incoming
<1>10. Append(Tail(FileBytes(currentoffset, BlockSize)), Byte(currentoffset + BlockSize))
       = FileBytes(currentoffset + 1, BlockSize)
  BY RollBytes
<1> QED
  BY <1>2, <1>3, <1>9, <1>10

\* After a start or a jump the checksum and the hash are computed from the buffer.
LEMMA ComputedSum ==
  ASSUME WindowOK', filesize \in Nat, filesize' = filesize,
         NEW offset \in Nat, currentoffset' = offset, outpointer' = 0, offset < filesize,
         NEW domd5 \in BOOLEAN, NEW h, ComputeCurrentChecksum(domd5, h, offset)
  PROVE  SumTrue'
<1> BlockSize \in Nat \ {0}
  BY WindowAssumption
<1> SUFFICES ASSUME offset + BlockSize <= filesize
             PROVE  /\ checksum' = FileBytes(offset, BlockSize)
                    /\ hasblockhash' => blockhash' = checksum'
  BY DEF SumTrue
<1> DEFINE data == BufferBytes(buffer', 0, BlockSize)
<1>1. LeastOf(BlockSize, filesize - offset) = BlockSize
  BY DEF LeastOf
<1>2. /\ buffer' \in [Indices -> Int]
      /\ tailpointer' >= BlockSize
      /\ \A i \in Indices : 0 <= i /\ i < tailpointer' => buffer'[i] = Byte(offset + i - 0)
  <2>1. /\ buffer' \in [Indices -> Int] /\ tailpointer' \in 0 .. 2 * BlockSize
        /\ readoffset' \in 0..filesize
        /\ inpointer' = BlockSize
        /\ readoffset' - offset = tailpointer' - 0
        /\ readoffset' < filesize => tailpointer' >= inpointer'
    BY DEF WindowOK
  <2>2. \A i \in Indices : 0 <= i /\ i < tailpointer' => buffer'[i] = Byte(offset + i - 0)
    BY DEF WindowOK
  <2> QED
    BY <2>1, <2>2
<1>3. \A k \in 1..BlockSize : buffer'[0 + k - 1] = Byte(offset + k - 1)
  <2> TAKE k \in 1..BlockSize
  <2>1. 0 + k - 1 \in Indices /\ 0 <= 0 + k - 1 /\ 0 + k - 1 < tailpointer'
    <3>1. tailpointer' \in Int
      BY DEF WindowOK
    <3> QED
      BY <1>2, <3>1 DEF Indices
  <2>2. buffer'[0 + k - 1] = Byte(offset + (0 + k - 1) - 0)
    BY <1>2, <2>1
  <2>3. offset + (0 + k - 1) - 0 = offset + k - 1
    OBVIOUS
  <2> QED
    BY <2>2, <2>3
<1>4. data = FileBytes(offset, BlockSize)
  BY <1>3 DEF BufferBytes, FileBytes
<1>5. data \in Seq(Int) /\ Len(data) = BlockSize
  BY <1>4 DEF FileBytes, Byte
<1> HIDE DEF data
<1>6. Zeros(BlockSize - BlockSize) = << >>
  BY DEF Zeros
<1>7. data \o Zeros(BlockSize - BlockSize) = data
  BY <1>5, <1>6
<1>8. checksum' = data
  BY <1>1, <1>7, Zenon DEF ComputeCurrentChecksum, data
<1>9. hasblockhash' => blockhash' = data
  BY <1>1, <1>7, Zenon DEF ComputeCurrentChecksum, data
<1> QED
  BY <1>4, <1>8, <1>9

\* So does a jump of any length.
LEMMA JumpSum ==
  ASSUME TypeOK, BufferTrue, PhaseTrue, Open, WholeWindowTrue, filesize' = filesize,
         NEW distance \in Nat \ {0}, Jump(distance)
  PROVE  SumTrue'
<1> BlockSize \in Nat \ {0} /\ filesize \in Nat /\ currentoffset \in Nat
  BY WindowAssumption DEF TypeOK
<1>1. CASE Step
  BY <1>1, StepSum
<1>2. ASSUME NEW d \in 1..BlockSize, JumpFar(d) PROVE SumTrue'
  <2>1. WindowOK'
    BY <1>2, JumpFarOK
  <2>2. CASE AtEnd
    BY <2>2 DEF AtEnd, SumTrue
  <2>3. CASE /\ currentoffset + d < filesize
             /\ currentoffset' = currentoffset + d
             /\ outpointer' = 0
             /\ \E h : ComputeCurrentChecksum(d = BlockSize, h, currentoffset + d)
    <3>1. PICK h : ComputeCurrentChecksum(d = BlockSize, h, currentoffset + d)
      BY <2>3
    <3>2. currentoffset + d \in Nat /\ (d = BlockSize) \in BOOLEAN
      OBVIOUS
    <3> QED
      BY <2>1, <2>3, <3>1, <3>2, ComputedSum
  <2> QED
    BY <1>2, <2>2, <2>3, Zenon DEF JumpFar
<1>3. CASE distance > 1 /\ JumpFar(LeastOf(distance, BlockSize))
  <2>1. LeastOf(distance, BlockSize) \in 1..BlockSize
    BY <1>3 DEF LeastOf
  <2> QED
    BY <1>2, <1>3, <2>1, Zenon
<1> QED
  BY <1>1, <1>3 DEF Jump

\* Every step of the loop keeps the checksum that of the window.
LEMMA SumNext == WindowInv /\ WholeWindowTrue /\ [Next]_vars => WholeWindowTrue'
<1> SUFFICES ASSUME WindowInv, WholeWindowTrue, [Next]_vars PROVE WholeWindowTrue'
  OBVIOUS
<1> TypeOK /\ BufferTrue /\ PhaseTrue
  BY DEF WindowInv
<1>1. ASSUME SumTrue' PROVE WholeWindowTrue'
  BY <1>1 DEF SumTrue, WholeWindowTrue
<1>2. CASE Begin
  <2>1. WindowOK' /\ filesize' = filesize
    BY <1>2, StartOK DEF Begin
  <2>2. /\ currentoffset' = 0 /\ outpointer' = 0
        /\ ComputeCurrentChecksum(TRUE, [on |-> TRUE, file |-> <<>>], 0)
    BY <1>2, Zenon DEF Begin, Start
  <2>3. filesize \in Nat /\ 0 < filesize /\ 0 \in Nat /\ TRUE \in BOOLEAN
    BY WindowAssumption DEF TypeOK
  <2> QED
    BY <1>1, <2>1, <2>2, <2>3, ComputedSum
<1>3. CASE NoMatch
  BY <1>1, <1>3, StepSum DEF NoMatch, Open
<1>4. CASE \E length \in 1..BlockSize : Match(length)
  <2>1. PICK length \in 1..BlockSize : Match(length)
    BY <1>4
  <2>2. length \in Nat \ {0}
    BY WindowAssumption
  <2> QED
    BY <1>1, <2>1, <2>2, JumpSum DEF Match, Open
<1>5. CASE Skip
  <2>1. Open /\ scanskip \in Nat \ {0}
    BY <1>5, ScanDistances DEF Skip, Open, PhaseTrue
  <2> QED
    BY <1>1, <1>5, <2>1, JumpSum DEF Skip
<1>6. CASE Finish \/ ReadFails \/ Cancelled \/ UNCHANGED vars
  <2>1. /\ UNCHANGED <<filesize, currentoffset, checksum, blockhash, hasblockhash>>
        /\ pc' \in {pc, "done", "failed", "cancelled"}
    BY <1>6 DEF Finish, ReadFails, Cancelled, vars, readVars, hashVars, scanVars
  <2> QED
    BY <2>1 DEF WholeWindowTrue, Open
<1> QED
  BY <1>2, <1>3, <1>4, <1>5, <1>6, Zenon DEF Next, Advance

\* The checksum that is looked up in the hash table, and the hash that confirms the
\* match, are those of the block of the file the window is at, for every block size,
\* every file and every mixture of matches, steps and skips.
THEOREM WindowSumsTrue == Spec => []WholeWindowTrue
<1>1. Init => WholeWindowTrue
  BY DEF Init, WholeWindowTrue, Open
<1> QED
  BY <1>1, WindowInit, WindowNext, SumNext, PTL DEF Spec
=============================================================================
