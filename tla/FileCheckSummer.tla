--------------------------- MODULE FileCheckSummer ---------------------------
(* The window that ScanDataFile slides along a file (FileCheckSummer): a       *)
(* buffer of two blocks filled from disk, three pointers into it, the rolling  *)
(* checksum, and the hashes of the whole file computed on the way, by the      *)
(* multi-hasher as long as the file is taken block by block and by two MD5     *)
(* contexts otherwise.  The client is the loop of Par2Repairer::ScanDataFile   *)
(* with its skipping of data (-N, -S); whether a block matches is left open.   *)
(*                                                                             *)
(* The bytes of the file are all different, so that a checksum or a hash is    *)
(* the sequence of bytes it was computed from.                                 *)
EXTENDS Integers, Sequences

CONSTANTS
  BlockSize,
  FileSizes,     \* sizes of the file that is scanned
  Boundary,      \* 16384: how much of a file the 16k hash covers
  SkipLeaway,
  SkipData       \* subset of BOOLEAN: values of skipdata

ASSUME WindowAssumption ==
  /\ BlockSize \in Nat \ {0}
  /\ FileSizes \subseteq Nat \ {0}
  /\ Boundary \in Nat \ {0}
  /\ SkipLeaway \in Nat
  /\ SkipData \subseteq BOOLEAN

VARIABLES
  filesize,
  currentoffset,   \* of the window in the file
  buffer,
  outpointer, inpointer, tailpointer,   \* as indices of buffer
  readoffset,
  checksum,        \* the bytes the rolling CRC stands for
  blockhash, hasblockhash,
  contextfull, context16k,
  hasher,          \* [on, file]: is there one, and the bytes it was given
  skipdata,
  scanoffset, lastmatchoffset,
  pc

readVars == <<buffer, tailpointer, readoffset, contextfull, context16k>>
hashVars == <<checksum, blockhash, hasblockhash, hasher>>
scanVars == <<scanoffset, lastmatchoffset>>
vars == <<filesize, currentoffset, outpointer, inpointer, readVars, hashVars,
          skipdata, scanVars, pc>>

Uninit == -1          \* a byte of the buffer nothing was written to
Byte(i) == i + 1      \* the byte of the file at offset i; 0 is a zero
Indices == 0 .. 2 * BlockSize - 1

LeastOf(a, b) == IF a < b THEN a ELSE b
FileBytes(from, n) == [k \in 1..n |-> Byte(from + k - 1)]
BufferBytes(buf, from, n) == [k \in 1..n |-> buf[from + k - 1]]
Zeros(n) == [k \in 1..n |-> 0]

----------------------------------------------------------------------------
(* Fill: what becomes of the buffer and the pointers *)

FillSkipped(long, tail, read) ==
  read >= filesize \/ (tail >= BlockSize /\ ~long)

FillTarget(tail) == IF tail = 0 THEN BlockSize ELSE 2 * BlockSize

FillWant(long, tail, read) ==
  IF FillSkipped(long, tail, read) THEN 0
  ELSE LeastOf(filesize - read, FillTarget(tail) - tail)

\* Nothing is read or blanked at the end of the file; otherwise data goes behind
\* the tail, and zeros from there to the target.
FillBuffer(long, buf, tail, read) ==
  [i \in Indices |->
     IF i < tail \/ FillSkipped(long, tail, read) THEN buf[i]
     ELSE IF i < tail + FillWant(long, tail, read) THEN Byte(read + i - tail)
     ELSE IF i < FillTarget(tail) THEN 0
     ELSE buf[i]]

\* A bug to check the properties with: the file hash goes on from the data behind
\* the boundary alone.
UpdatedFullLost(full, k16, hashing, read, want) ==
  IF want = 0 \/ hashing \/ read + want < Boundary THEN full
  ELSE IF read >= Boundary THEN full \o FileBytes(read, want)
  ELSE full \o FileBytes(Boundary, read + want - Boundary)

\* UpdateHashes for the bytes just read: the full hash goes on from the 16k hash
\* when the boundary is reached, unless the hasher takes care of it.
UpdatedFull(full, k16, hashing, read, want) ==
  IF want = 0 \/ hashing \/ read + want < Boundary THEN full
  ELSE IF read >= Boundary THEN full \o FileBytes(read, want)
  ELSE k16 \o FileBytes(read, want)

Updated16k(k16, read, want) ==
  IF read >= Boundary THEN k16
  ELSE k16 \o FileBytes(read, LeastOf(want, Boundary - read))

\* Fill reads into buf behind tail; full is the context of the full hash so far.
Fill(long, buf, tail, full, hashing) ==
  /\ buffer' = FillBuffer(long, buf, tail, readoffset)
  /\ tailpointer' = tail + FillWant(long, tail, readoffset)
  /\ readoffset' = readoffset + FillWant(long, tail, readoffset)
  /\ contextfull' = UpdatedFull(full, context16k, hashing, readoffset,
                                FillWant(long, tail, readoffset))
  /\ context16k' = Updated16k(context16k, readoffset, FillWant(long, tail, readoffset))

\* StopHasher: the context of the full hash takes over from the hasher and catches
\* up with the data that has been read but is not in a block yet.
StoppedFull ==
  IF ~hasher.on THEN contextfull
  ELSE hasher.file \o (IF tailpointer > inpointer
                       THEN BufferBytes(buffer, inpointer, tailpointer - inpointer)
                       ELSE <<>>)

NoHasher == [on |-> FALSE, file |-> <<>>]

\* ComputeCurrentChecksum for the window at the start of the new buffer.  The hasher
\* takes the block and pads it itself.
ComputeCurrentChecksum(domd5, h, offset) ==
  LET len   == LeastOf(BlockSize, filesize - offset)
      data  == BufferBytes(buffer', 0, len)
      block == IF h.on THEN data \o Zeros(BlockSize - len)
               ELSE BufferBytes(buffer', 0, BlockSize)
  IN  /\ checksum' = block
      /\ hasblockhash' = (h.on \/ domd5)
      /\ blockhash' = IF h.on \/ domd5 THEN block ELSE blockhash
      /\ hasher' = IF h.on THEN [h EXCEPT !.file = @ \o data] ELSE h

\* The window reached the end of the file.
AtEnd ==
  /\ currentoffset' = filesize
  /\ tailpointer' = 0
  /\ outpointer' = 0
  /\ buffer' = [i \in Indices |-> IF i < BlockSize THEN 0 ELSE buffer[i]]
  /\ checksum' = Zeros(BlockSize)
  /\ UNCHANGED <<inpointer, readoffset, context16k, blockhash>>

----------------------------------------------------------------------------
(* The operations *)

Start ==
  /\ currentoffset' = 0
  /\ outpointer' = 0
  /\ inpointer' = BlockSize
  /\ Fill(FALSE, buffer, 0, contextfull, TRUE)
  /\ ComputeCurrentChecksum(TRUE, [on |-> TRUE, file |-> <<>>], 0)

\* A bug to check the properties with: the byte before the incoming one is taken.
IncomingBefore(buf) == buf[inpointer - 1]

\* The window moves one byte to the right in the buffer; when it has reached the second
\* half, that half is copied to the first and the pointers go back by a block.
Slides == outpointer + 1 < BlockSize
SlideOut == IF Slides THEN outpointer + 1 ELSE 0
SlideTail(want) == IF Slides THEN tailpointer + want ELSE tailpointer + want - BlockSize
SlideBuffer(buf) ==
  IF Slides THEN buf
  ELSE [i \in Indices |-> IF i < BlockSize THEN buf[i + BlockSize] ELSE buf[i]]
Incoming(buf) == buf[inpointer]

StepLong == tailpointer <= inpointer
StepWant == IF StepLong THEN FillWant(TRUE, tailpointer, readoffset) ELSE 0
StepFilled == IF StepLong THEN FillBuffer(TRUE, buffer, tailpointer, readoffset) ELSE buffer

\* Move the window by one byte.
Step ==
  /\ hasblockhash' = FALSE
  /\ hasher' = NoHasher
  /\ \/ /\ currentoffset + 1 >= filesize
        /\ AtEnd
        /\ contextfull' = StoppedFull
     \/ /\ currentoffset + 1 < filesize
        /\ currentoffset' = currentoffset + 1
        /\ readoffset' = readoffset + StepWant
        /\ contextfull' = UpdatedFull(StoppedFull, context16k, FALSE, readoffset, StepWant)
        /\ context16k' = Updated16k(context16k, readoffset, StepWant)
        /\ checksum' = Append(Tail(checksum), Incoming(StepFilled))
        /\ buffer' = SlideBuffer(StepFilled)
        /\ outpointer' = SlideOut
        /\ inpointer' = SlideOut + BlockSize
        /\ tailpointer' = SlideTail(StepWant)
        /\ UNCHANGED blockhash

\* Jump over more than one byte, and at most a block.
JumpFar(distance) ==
  LET stop == distance # BlockSize /\ currentoffset + distance < filesize
      full == IF stop THEN StoppedFull ELSE contextfull
      h    == IF stop THEN NoHasher ELSE hasher
      out  == outpointer + distance
      keep == tailpointer - out
  IN
  \/ /\ currentoffset + distance >= filesize
     /\ AtEnd
     /\ hasblockhash' = FALSE
     /\ UNCHANGED <<contextfull, hasher>>
  \/ /\ currentoffset + distance < filesize
     /\ currentoffset' = currentoffset + distance
     /\ outpointer' = 0
     /\ inpointer' = BlockSize
     /\ Fill(FALSE, [i \in Indices |-> IF i < keep THEN buffer[i + out] ELSE buffer[i]],
             keep, full, h.on)
     /\ ComputeCurrentChecksum(distance = BlockSize, h, currentoffset + distance)

Jump(distance) ==
  \/ distance = 1 /\ Step
  \/ distance > 1 /\ JumpFar(LeastOf(distance, BlockSize))

----------------------------------------------------------------------------
(* The loop of ScanDataFile *)

scandistance == LeastOf(2 * SkipLeaway, BlockSize)
scanskip == IF skipdata THEN BlockSize - scandistance ELSE 0

Init ==
  /\ filesize \in FileSizes
  /\ skipdata \in SkipData
  /\ currentoffset = 0
  /\ buffer = [i \in Indices |-> Uninit]
  /\ outpointer = 0
  /\ inpointer = 0
  /\ tailpointer = 0
  /\ readoffset = 0
  /\ checksum = <<>>
  /\ blockhash = <<>>
  /\ hasblockhash = FALSE
  /\ contextfull = <<>>
  /\ context16k = <<>>
  /\ hasher = NoHasher
  /\ scanoffset = scandistance \div 2
  /\ lastmatchoffset = 0
  /\ pc = "start"

Begin ==
  /\ pc = "start"
  /\ Start
  /\ pc' = "scan"
  /\ UNCHANGED <<filesize, skipdata, scanVars>>

\* A block of this length was found in the window.
Match(length) ==
  /\ pc = "scan" /\ currentoffset < filesize
  /\ Jump(length)
  /\ scanoffset' = scandistance \div 2
  /\ lastmatchoffset' = currentoffset'
  /\ UNCHANGED <<filesize, skipdata, pc>>

\* A bug to check the properties with: half the distance is scanned.
TooFarSoon == scanskip > 0 /\ 2 * (scanoffset + 1) >= scandistance

\* Have we scanned too far without finding a block?
TooFar == scanskip > 0 /\ scanoffset + 1 >= scandistance

\* Nothing was found: step on, and skip ahead when nothing was found for long.
NoMatch ==
  /\ pc = "scan" /\ currentoffset < filesize
  /\ Step
  /\ scanoffset' = IF scanskip > 0 THEN scanoffset + 1 ELSE scanoffset
  /\ pc' = IF TooFar /\ currentoffset' < filesize THEN "skip" ELSE "scan"
  /\ UNCHANGED <<filesize, skipdata, lastmatchoffset>>

Skip ==
  /\ pc = "skip"
  /\ Jump(scanskip)
  /\ scanoffset' = 0
  /\ pc' = "scan"
  /\ UNCHANGED <<filesize, skipdata, lastmatchoffset>>

\* A read fails: the operation, and ScanDataFile with it, returns false.
ReadFails ==
  /\ pc \in {"start", "scan", "skip"}
  /\ readoffset < filesize
  /\ pc' = "failed"
  /\ UNCHANGED <<filesize, currentoffset, outpointer, inpointer, readVars, hashVars,
                 skipdata, scanVars>>

\* The cancel flag is looked at near the end of a block.
Cancelled ==
  /\ pc = "scan" /\ currentoffset < filesize
  /\ pc' = "cancelled"
  /\ UNCHANGED <<filesize, currentoffset, outpointer, inpointer, readVars, hashVars,
                 skipdata, scanVars>>

\* The end of the loop: GetFileHashes.
Finish ==
  /\ pc = "scan" /\ currentoffset >= filesize
  /\ pc' = "done"
  /\ UNCHANGED <<filesize, currentoffset, outpointer, inpointer, readVars, hashVars,
                 skipdata, scanVars>>

Advance == Begin \/ NoMatch \/ (\E length \in 1..BlockSize : Match(length)) \/ Skip \/ Finish
Next == Advance \/ ReadFails \/ Cancelled

Spec == Init /\ [][Next]_vars

hash16k == context16k
\* GetFileHashes
hashfull == IF filesize < Boundary THEN context16k
            ELSE IF hasher.on THEN hasher.file
            ELSE contextfull

----------------------------------------------------------------------------
(* Properties *)

\* Pointers stay in the buffer, and the offsets in the file.
TypeOK ==
  /\ filesize \in FileSizes
  /\ currentoffset \in 0..filesize
  /\ readoffset \in 0..filesize
  /\ buffer \in [Indices -> Int]
  /\ outpointer \in 0 .. BlockSize - 1
  /\ inpointer \in {0} \cup BlockSize .. 2 * BlockSize - 1
  /\ tailpointer \in 0 .. 2 * BlockSize
  /\ hasblockhash \in BOOLEAN
  /\ skipdata \in BOOLEAN
  /\ scanoffset \in Nat
  /\ lastmatchoffset \in Nat
  /\ pc \in {"start", "scan", "skip", "failed", "cancelled", "done"}

Open == pc \in {"scan", "skip"} /\ currentoffset < filesize

\* The buffer holds the file from the window up to where it was read, however steps
\* and jumps moved it; the pointers that Step and Jump dereference or assert about are
\* one block apart, and the data does not end before the window does unless the file
\* does.
BufferTrue ==
  Open =>
    /\ inpointer = outpointer + BlockSize
    /\ outpointer < tailpointer
    /\ readoffset - currentoffset = tailpointer - outpointer
    /\ \A i \in Indices : outpointer <= i /\ i < tailpointer
         => buffer[i] = Byte(currentoffset + i - outpointer)
    /\ readoffset < filesize => tailpointer >= inpointer

\* A window that lies within the file is what its checksum, and its hash if it has been
\* computed in advance, say.  One that reaches behind the end of the file is not always the
\* rest of it and zeros: Fill returns before it blanks the buffer, and Step takes what is there.
WholeWindowTrue ==
  Open /\ currentoffset + BlockSize <= filesize =>
    /\ checksum = FileBytes(currentoffset, BlockSize)
    /\ hasblockhash => blockhash = checksum

\* The hashes of a file that was scanned to the end are those of its contents, whatever
\* mixture of steps and jumps got there, by whole blocks with the hasher or not.
FileHashesTrue ==
  pc = "done" =>
    /\ hashfull = FileBytes(0, filesize)
    /\ hash16k = FileBytes(0, LeastOf(Boundary, filesize))

\* Skipping leaves out no position within the leaway of where a block is expected,
\* a whole number of blocks after the end of the last one that was found.
SkipsOnlyFar ==
  [][pc = "skip" /\ pc' = "scan" =>
       \A x \in currentoffset .. currentoffset' - 1 :
         LET d == (x - lastmatchoffset) % BlockSize IN
         d >= SkipLeaway /\ d < BlockSize - SkipLeaway]_vars
==============================================================================
