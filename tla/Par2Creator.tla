---------------------------- MODULE Par2Creator ----------------------------
(* Par2Creator::Process: the source files are opened and hashed by several    *)
(* threads, the recovery files are laid out and created, the recovery data is *)
(* computed in one or more passes, and headers and critical packets are       *)
(* written last.  Any read, write or creation may fail, and the program may   *)
(* stop anywhere: what is on disk in any state is what a later verification   *)
(* finds.                                                                     *)
EXTENDS RecoveryFiles, FiniteSets, SequencesExt

CONSTANTS
  Workers,      \* the threads of foreach_parallel
  Jobs,         \* the arguments Process may be called with
  Boundary,     \* 16k
  ReadBuffer,   \* 1024*1024, the buffer Open reads with
  MaxChunk,     \* MAX_CHUNK_SIZE
  MaxBlocks,    \* 32768
  Foreign,      \* the sets of names that may exist beforehand
  None, Torn    \* nothing, and a packet that was written in part

ASSUME CreatorAssumption ==
  /\ Boundary \in Nat \ {0} /\ ReadBuffer \in Nat \ {0} /\ MaxChunk \in Nat \ {0}
  /\ MaxBlocks \in Nat
  \* As CommandLine::Parse has them: empty files are skipped, and only files of the same
  \* number of blocks can be counted.
  /\ \A j \in Jobs : /\ j.blocksize \in Nat \ {0}
                     /\ \A f \in DOMAIN j.size : j.size[f] > 0
                     /\ j.filecount > 0 => j.scheme = "uniform"

VARIABLES
  job,              \* [files, size, blocksize, first, scheme, filecount, recoveryblocks, memory]
  idorder,          \* the files in the order of their ids, which are hashes
  pc, result,
  lost,             \* the files that could not be written when they were closed
  plan,             \* the members of Par2Creator worked out from job
  disk,             \* name -> the packets of the file, in order; None if it was there before
  itempos, opening, openfailed,            \* OpenSourceFiles
  sourcefiles, criticalpackets,
  desc, verif, hasher,                     \* what is known of each source file
  entries, recoverypackets,                \* where the packets go
  n,                \* the file, block, packet or entry that is next
  blockoffset, acc                         \* the pass, and what the backend was given in it

jobVars == <<job, idorder, plan, lost>>
openVars == <<itempos, opening, openfailed>>
packetVars == <<sourcefiles, criticalpackets, entries, recoverypackets>>
hashVars == <<desc, verif, hasher>>
passVars == <<n, blockoffset, acc>>
vars == <<jobVars, pc, result, disk, openVars, packetVars, hashVars, passVars>>

----------------------------------------------------------------------------
(* What Process works out from its arguments *)

Files == Range(job.files)
BlockCount(f) == Ceil(job.size[f], job.blocksize)

\* ComputeBlockCount, ComputeRecoveryFileCount, CalculateProcessBlockSize, and the blocks
\* InitialiseOutputFiles puts into each file.
Plan(largest, blocks) ==
  LET R     == job.recoveryblocks
      files == ComputeRecoveryFileCount(job.scheme, job.filecount, R, largest)
  IN  [largest     |-> largest,
       recoveryfilecount |-> files,
       chunksize   |-> ChunkSize(job.memory, MaxChunk, job.blocksize, blocks, R),
       deferhashcomputation |-> DeferHashes(job.memory, MaxChunk, job.blocksize, blocks, R),
       refused     |-> job.blocksize % 4 # 0 \/ blocks > MaxBlocks \/ files < 0,
       allocations |-> IF files < 0 THEN <<>>
                       ELSE FileAllocations(job.scheme, job.first, R, files, largest)]

chunksize == plan.chunksize
deferhashcomputation == plan.deferhashcomputation
fileallocations == plan.allocations

\* The recovery files, and the one without recovery blocks.
Volume(a) == <<"vol", a.exponent, a.count>>
Outputs == [i \in 1..Len(fileallocations) |-> Volume(fileallocations[i])] \o <<<<"main">>>>
Check == <<"check">>

\* The byte of f at an offset; Zero is what blocks are padded with.
Zero == <<>>
Bytes(f, from, len) ==
  [k \in 1..len |-> IF from + k - 1 < job.size[f] THEN <<f, from + k - 1>> ELSE Zero]

----------------------------------------------------------------------------
(* CheckBasepath *)

NoPacket == [head |-> None, data |-> <<>>]

Return(r) == pc' = "done" /\ result' = r

CheckCreate ==
  /\ pc = "check"
  /\ Check \notin DOMAIN disk
  /\ disk' = disk @@ (Check :> <<>>)
  /\ pc' = "checked"
  /\ UNCHANGED <<jobVars, result, openVars, packetVars, hashVars, passVars>>

\* The check file is deleted again, and the arguments are looked at.
CheckDelete ==
  /\ pc = "checked"
  /\ disk' = Restrict(disk, DOMAIN disk \ {Check})
  /\ plan' = Plan(Max({BlockCount(f) : f \in Files}),
                  FoldSet(LAMBDA f, sum : sum + BlockCount(f), 0, Files))
  /\ IF plan'.refused THEN Return("eInvalidCommandLineArguments")
     ELSE pc' = "open" /\ UNCHANGED result
  /\ UNCHANGED <<job, idorder, lost, openVars, packetVars, hashVars, passVars>>

CheckFails ==
  /\ pc \in {"check", "checked"}
  /\ Return("eFileIOError")
  /\ UNCHANGED <<jobVars, disk, openVars, packetVars, hashVars, passVars>>

\* The backend has no memory for its buffers, or for the output of a pass.
MemoryFails ==
  /\ \/ pc = "open" /\ itempos = 1
     \/ pc = "create" /\ n > Len(Outputs) /\ job.recoveryblocks > 0
     \/ pc = "input" /\ n = 1
  /\ Return("eMemoryError")
  /\ UNCHANGED <<jobVars, disk, openVars, packetVars, hashVars, passVars>>

----------------------------------------------------------------------------
(* OpenSourceFiles *)

\* A thread takes the next file, unless opening one has failed.
Take(w) ==
  /\ pc = "open" /\ opening[w] = None
  /\ itempos <= Len(job.files)
  /\ itempos' = itempos + 1
  /\ opening' = IF openfailed THEN opening
                ELSE [opening EXCEPT ![w] = [file |-> job.files[itempos], offset |-> 0,
                                             need |-> job.blocksize, blocknumber |-> 0,
                                             hash16k |-> <<>>]]
  /\ UNCHANGED <<jobVars, pc, result, disk, openfailed, packetVars, hashVars, passVars>>

\* The file cannot be opened, or not be read.
OpenFails(w) ==
  /\ pc = "open" /\ opening[w] # None
  /\ openfailed' = TRUE
  /\ opening' = [opening EXCEPT ![w] = None]
  /\ UNCHANGED <<jobVars, pc, result, disk, itempos, packetVars, hashVars, passVars>>

\* RecordCriticalPackets and the list of source files, under the lock.
Record(w, f) ==
  /\ criticalpackets' = criticalpackets \o <<[type |-> "desc", file |-> f],
                                             [type |-> "verif", file |-> f]>>
  /\ sourcefiles' = Append(sourcefiles, f)
  /\ opening' = [opening EXCEPT ![w] = None]
  /\ UNCHANGED <<jobVars, pc, result, disk, itempos, openfailed, entries,
                 recoverypackets, passVars>>

\* When hashing is deferred, only the first 16k are read now.
OpenDeferred(w) ==
  /\ pc = "open" /\ opening[w] # None /\ deferhashcomputation
  /\ LET f == opening[w].file IN
     /\ desc' = [desc EXCEPT ![f].hash16k = Bytes(f, 0, LeastOf(Boundary, job.size[f]))]
     /\ Record(w, f)
  /\ UNCHANGED <<verif, hasher>>

\* HasherGetBlock: the hash of the block, padded; the hasher goes on with the next block.
GetBlock(h, pad) == h.block \o [k \in 1..pad |-> Zero]

\* hasher->update with the next `use` bytes, and the end of the block if it is reached.
\* s is [hasher, verif, need, blocknumber] of the file.
Use(f, s, from, use) ==
  LET h == [s.hasher EXCEPT !.file  = @ \o Bytes(f, from, use),
                            !.block = @ \o Bytes(f, from, use)]
      more == s.blocknumber + 1 < BlockCount(f)
  IN  IF use < s.need THEN [s EXCEPT !.hasher = h, !.need = @ - use]
      ELSE [hasher      |-> [h EXCEPT !.block = <<>>],
            verif       |-> [s.verif EXCEPT ![s.blocknumber + 1] = GetBlock(h, 0)],
            blocknumber |-> s.blocknumber + 1,
            need        |-> IF more THEN job.blocksize ELSE 0]

\* What one read is used for: the buffer is not larger than a block, so it is the rest
\* of a block and a part of the next at most.
UseAll(f, s, from, want) ==
  IF want <= s.need THEN Use(f, s, from, want)
  ELSE Use(f, Use(f, s, from, s.need), from + s.need, want - s.need)

\* One turn of the loop that reads the whole file.
OpenRead(w) ==
  /\ pc = "open" /\ opening[w] # None /\ ~deferhashcomputation
  /\ LET o    == opening[w]
         f    == o.file
         want == LeastOf(job.size[f] - o.offset, LeastOf(ReadBuffer, job.blocksize))
         k16  == IF o.offset < Boundary
                 THEN o.hash16k \o Bytes(f, o.offset, LeastOf(want, Boundary - o.offset))
                 ELSE o.hash16k
     IN
     /\ o.offset < job.size[f]
     /\ \E s \in {UseAll(f, [hasher |-> hasher[f], verif |-> verif[f], need |-> o.need,
                             blocknumber |-> o.blocknumber], o.offset, want)} :
          /\ hasher' = [hasher EXCEPT ![f] = s.hasher]
          /\ verif' = [verif EXCEPT ![f] = s.verif]
          /\ opening' = [opening EXCEPT ![w] = [@ EXCEPT !.offset = @ + want,
                                                         !.need = s.need,
                                                         !.blocknumber = s.blocknumber,
                                                         !.hash16k = k16]]
     /\ desc' = IF o.offset < Boundary /\ o.offset + want >= Boundary
                THEN [desc EXCEPT ![f].hash16k = k16] ELSE desc
  /\ UNCHANGED <<jobVars, pc, result, disk, itempos, openfailed, packetVars, passVars>>

\* The end of the loop: the last block, the full hash, and the 16k hash of a short file.
OpenEnd(w) ==
  /\ pc = "open" /\ opening[w] # None /\ ~deferhashcomputation
  /\ LET o == opening[w]
         f == o.file
     IN
     /\ o.offset >= job.size[f]
     /\ verif' = IF o.need > 0
                 THEN [verif EXCEPT ![f][o.blocknumber + 1] = GetBlock(hasher[f], o.need)]
                 ELSE verif
     /\ desc' = [desc EXCEPT ![f].hashfull = hasher[f].file,
                             ![f].hash16k = IF o.offset < Boundary THEN hasher[f].file ELSE @]
     /\ Record(w, f)
  /\ UNCHANGED hasher

----------------------------------------------------------------------------
(* The packets and where they go *)

FileId(f) == [name |-> f, length |-> job.size[f], hash16k |-> desc[f].hash16k]

\* The order of the ids, which CompareLess sorts both files and packets by.
Before(f, g) ==
  \E i, j \in 1..Len(idorder) : idorder[i] = f /\ idorder[j] = g /\ i < j

TypeRank == [main |-> 0, desc |-> 1, verif |-> 2, creator |-> 3]
CompareLess(p, q) ==
  \/ TypeRank[p.type] < TypeRank[q.type]
  \/ p.type = q.type /\ p.type \in {"desc", "verif"} /\ Before(p.file, q.file)

MainPacket == [type |-> "main"]
CreatorPacket == [type |-> "creator"]

\* A bug to check the properties with: the packets stay in the order the threads made them.
PrepareUnsorted ==
  /\ pc = "open" /\ itempos > Len(job.files) /\ \A w \in Workers : opening[w] = None
  /\ IF openfailed THEN Return("eFileIOError") /\ UNCHANGED <<sourcefiles, criticalpackets>>
     ELSE /\ sourcefiles' = SortSeq(sourcefiles, Before)
          /\ criticalpackets' = <<MainPacket>> \o criticalpackets
          /\ pc' = "create" /\ UNCHANGED result
  /\ UNCHANGED <<jobVars, disk, openVars, hashVars, entries, recoverypackets, passVars>>

\* All threads have joined: the main and creator packets, the source blocks.
Prepare ==
  /\ pc = "open" /\ itempos > Len(job.files) /\ \A w \in Workers : opening[w] = None
  /\ IF openfailed THEN Return("eFileIOError") /\ UNCHANGED <<sourcefiles, criticalpackets>>
     ELSE /\ sourcefiles' = SortSeq(sourcefiles, Before)
          /\ criticalpackets' = SortSeq(Append(criticalpackets, MainPacket), CompareLess)
          /\ pc' = "create" /\ UNCHANGED result
  /\ UNCHANGED <<jobVars, disk, openVars, hashVars, entries, recoverypackets, passVars>>

\* A bug to check the properties with: the remainder is not carried on.
SpreadWithoutCarry(i, count) == i * ((BitLength(count) * Len(criticalpackets)) \div count)

\* The number of critical packets after the first i recovery packets of a file with
\* count of them: what packetCount adds up to, every count of it making one packet.
Spread(i, count) == (i * BitLength(count) * Len(criticalpackets)) \div count

\* The packets of a file with recovery blocks: after each recovery packet as many critical
\* packets, in turn, as keep them evenly spread.
RecoveryLayout(f) ==
  FlattenSeq([i \in 1..f.count |->
    <<[type |-> "recovery", exponent |-> f.exponent + i - 1]>>
      \o [k \in 1 .. Spread(i, f.count) - Spread(i - 1, f.count) |->
            criticalpackets[((Spread(i - 1, f.count) + k - 1) % Len(criticalpackets)) + 1]]])

\* A file without recovery blocks has every critical packet once.
Layout(i) ==
  Append(IF i <= Len(fileallocations) /\ fileallocations[i].count > 0
         THEN RecoveryLayout(fileallocations[i]) ELSE criticalpackets,
         CreatorPacket)

Places(i, slots, isrecovery) ==
  LET at == SelectSeq([k \in 1..Len(slots) |-> k],
                      LAMBDA k : (slots[k].type = "recovery") = isrecovery)
  IN  [k \in 1..Len(at) |-> [name |-> Outputs[i], slot |-> at[k], packet |-> slots[at[k]]]]

\* A bug to check the properties with: a file that exists is replaced.
CreateOver ==
  /\ pc = "create" /\ n <= Len(Outputs)
  /\ \E slots \in {Layout(n)} : \E places \in {Places(n, slots, TRUE)} :
       /\ disk' = (Outputs[n] :> [k \in 1..Len(slots) |-> NoPacket]) @@ disk
       /\ entries' = entries \o Places(n, slots, FALSE)
       /\ recoverypackets' = recoverypackets
            \o [k \in 1..Len(places) |-> [place |-> places[k], hash |-> <<>>]]
  /\ n' = n + 1
  /\ UNCHANGED <<jobVars, pc, result, openVars, sourcefiles, criticalpackets, hashVars,
                 blockoffset, acc>>

\* InitialiseOutputFiles for the next file: its packets are placed, and it is created
\* with its full size.
CreateFile ==
  /\ pc = "create" /\ n <= Len(Outputs)
  /\ Outputs[n] \notin DOMAIN disk
  /\ \E slots \in {Layout(n)} : \E places \in {Places(n, slots, TRUE)} :
       /\ disk' = disk @@ (Outputs[n] :> [k \in 1..Len(slots) |-> NoPacket])
       /\ entries' = entries \o Places(n, slots, FALSE)
       /\ recoverypackets' = recoverypackets
            \o [k \in 1..Len(places) |-> [place |-> places[k], hash |-> <<>>]]
  /\ n' = n + 1
  /\ UNCHANGED <<jobVars, pc, result, openVars, sourcefiles, criticalpackets, hashVars,
                 blockoffset, acc>>

\* The file exists, or there is no room for it.
CreateFails ==
  /\ pc = "create" /\ n <= Len(Outputs)
  /\ Return("eFileIOError")
  /\ UNCHANGED <<jobVars, disk, openVars, packetVars, hashVars, passVars>>

Created ==
  /\ pc = "create" /\ n > Len(Outputs)
  /\ pc' = IF job.recoveryblocks > 0 THEN "input" ELSE "packets"
  /\ n' = 1
  /\ UNCHANGED <<jobVars, result, disk, openVars, packetVars, hashVars, blockoffset, acc>>

----------------------------------------------------------------------------
(* ProcessData, for the part of the blocks from blockoffset *)

blocklength == LeastOf(chunksize, job.blocksize - blockoffset)

\* The source blocks: each file's in turn.
sourceblocks ==
  FlattenSeq([i \in 1..Len(sourcefiles) |->
                [b \in 1..BlockCount(sourcefiles[i]) |-> [file |-> sourcefiles[i], block |-> b]]])

\* ReadData: the bytes of a block from blockoffset, zeros after the end of the file.
ReadData(b) == Bytes(b.file, (b.block - 1) * job.blocksize + blockoffset, blocklength)

\* UpdateHashes: no more of the block than the file has, then padding.
UpdatedHasher(b, length) ==
  LET len  == job.size[b.file] - (b.block - 1) * length
      used == LeastOf(length, len)
      data == SubSeq(ReadData(b), 1, used)
  IN  [file |-> hasher[b.file].file \o data, block |-> <<>>,
       last |-> data \o [k \in 1 .. length - used |-> Zero]]

AddInput ==
  /\ pc = "input" /\ n <= Len(sourceblocks)
  /\ LET b == sourceblocks[n] IN
     /\ acc' = Append(acc, ReadData(b))
     /\ IF deferhashcomputation
        THEN \E h \in {UpdatedHasher(b, blocklength)} :
               /\ hasher' = [hasher EXCEPT ![b.file] = [file |-> h.file, block |-> <<>>]]
               /\ verif' = [verif EXCEPT ![b.file][b.block] = h.last]
        ELSE UNCHANGED <<hasher, verif>>
  /\ n' = n + 1
  /\ UNCHANGED <<jobVars, pc, result, disk, openVars, packetVars, desc, blockoffset>>

\* endInput: the backend has everything, and the output of this pass can be fetched.
EndInput ==
  /\ pc = "input" /\ n > Len(sourceblocks)
  /\ pc' = "output"
  /\ n' = 1
  /\ UNCHANGED <<jobVars, result, disk, openVars, packetVars, hashVars, blockoffset, acc>>

\* A source file cannot be opened or read.
InputFails ==
  /\ pc = "input" /\ n <= Len(sourceblocks)
  /\ Return("eFileIOError")
  /\ UNCHANGED <<jobVars, disk, openVars, packetVars, hashVars, passVars>>

\* A bug to check the properties with: the first block number is forgotten.
IndicesFromZero == [i \in 1..job.recoveryblocks |-> (i - 1) % 2 ^ 16]

\* The backend multiplies with the powers given by setRecoverySlices.
recoveryindices == [i \in 1..job.recoveryblocks |-> (i - 1 + job.first) % 2 ^ 16]
Output(i) == [at |-> blockoffset, length |-> blocklength, power |-> recoveryindices[i],
              inputs |-> acc]

\* What is on disk at a place.
At(place) == disk[place.name][place.slot]
PutAt(place, packet) == disk' = [disk EXCEPT ![place.name][place.slot] = packet]

\* WriteData: the packet hash is updated, and the data written.
WithData(i, chunk) ==
  LET old == At(recoverypackets[i].place) IN [old EXCEPT !.data = Append(@, chunk)]

WriteOutput ==
  /\ pc = "output" /\ n <= Len(recoverypackets)
  /\ recoverypackets' = [recoverypackets EXCEPT ![n].hash = Append(@, Output(n))]
  /\ PutAt(recoverypackets[n].place, WithData(n, Output(n)))
  /\ n' = n + 1
  /\ UNCHANGED <<jobVars, pc, result, openVars, sourcefiles, criticalpackets, entries,
                 hashVars, blockoffset, acc>>

\* The pass is over: the next part of the blocks, or the headers.
EndOutput ==
  /\ pc = "output" /\ n > Len(recoverypackets)
  /\ blockoffset' = blockoffset + blocklength
  /\ pc' = IF blockoffset + blocklength < job.blocksize THEN "input" ELSE "headers"
  /\ acc' = <<>>
  /\ n' = 1
  /\ UNCHANGED <<jobVars, result, disk, openVars, packetVars, hashVars>>

----------------------------------------------------------------------------
(* Headers and critical packets *)

setid == [blocksize |-> job.blocksize,
          ids       |-> [i \in 1..Len(sourcefiles) |-> FileId(sourcefiles[i])]]

WithHeader(i) ==
  LET p == recoverypackets[i] IN
  [At(p.place) EXCEPT !.head = [packet |-> p.place.packet, setid |-> setid, hash |-> p.hash]]

WriteHeader ==
  /\ pc = "headers" /\ n <= Len(recoverypackets)
  /\ PutAt(recoverypackets[n].place, WithHeader(n))
  /\ n' = n + 1
  /\ UNCHANGED <<jobVars, pc, result, openVars, packetVars, hashVars, blockoffset, acc>>

\* FinishFileHashComputation and FinishCriticalPackets.
FinishHashes ==
  /\ pc = "headers" /\ n > Len(recoverypackets)
  /\ desc' = IF deferhashcomputation
             THEN [f \in Files |-> [desc[f] EXCEPT !.hashfull = hasher[f].file]] ELSE desc
  /\ pc' = "packets"
  /\ n' = 1
  /\ UNCHANGED <<jobVars, result, disk, openVars, packetVars, verif, hasher,
                 blockoffset, acc>>

\* What a critical packet says.
Contents(packet) ==
  CASE packet.type = "desc"    -> [id |-> FileId(packet.file),
                                   hashfull |-> desc[packet.file].hashfull]
    [] packet.type = "verif"   -> [id |-> FileId(packet.file), blocks |-> verif[packet.file]]
    [] packet.type = "main"    -> setid
    [] packet.type = "creator" -> <<>>

CriticalOnDisk(packet) ==
  [head |-> [packet |-> packet, setid |-> setid, hash |-> <<>>], data |-> Contents(packet)]

WriteCritical ==
  /\ pc = "packets" /\ n <= Len(entries)
  /\ PutAt(entries[n], CriticalOnDisk(entries[n].packet))
  /\ n' = n + 1
  /\ UNCHANGED <<jobVars, pc, result, openVars, packetVars, hashVars, blockoffset, acc>>

\* The packets of a file that were written one after the other since the last seek, which
\* stdio may still hold.
Buffered(name) ==
  {k \in DOMAIN disk[name] :
     \A j \in k..Len(disk[name]) : disk[name][j].head.packet.type # "recovery"}

\* CloseFiles: what is still buffered is written, and whether that fails is not noticed.
Finish ==
  /\ pc = "packets" /\ n > Len(entries)
  /\ \/ UNCHANGED <<disk, lost>>
     \/ \E name \in Range(Outputs) : \E k \in Buffered(name) :
          /\ disk' = [disk EXCEPT ![name] = [j \in DOMAIN @ |->
                        IF j < k THEN @[j] ELSE [NoPacket EXCEPT !.head = Torn]]]
          /\ lost' = {name}
  /\ Return("eSuccess")
  /\ UNCHANGED <<job, idorder, plan, openVars, packetVars, hashVars, passVars>>

\* A write fails, having written all, some or nothing of its data; or the backend finds
\* its output damaged.
WriteFails ==
  /\ \/ /\ pc = "output" /\ n <= Len(recoverypackets)
        /\ \E packet \in {At(recoverypackets[n].place), WithData(n, Output(n)), WithData(n, Torn)} :
             PutAt(recoverypackets[n].place, packet)
     \/ /\ pc = "headers" /\ n <= Len(recoverypackets)
        /\ \E packet \in {At(recoverypackets[n].place), WithHeader(n),
                          [WithHeader(n) EXCEPT !.head = Torn]} :
             PutAt(recoverypackets[n].place, packet)
     \/ /\ pc = "packets" /\ n <= Len(entries)
        /\ \E packet \in {NoPacket, CriticalOnDisk(entries[n].packet),
                          [NoPacket EXCEPT !.head = Torn]} :
             PutAt(entries[n], packet)
  /\ Return("eFileIOError")
  /\ UNCHANGED <<jobVars, openVars, packetVars, hashVars, passVars>>

----------------------------------------------------------------------------

Init ==
  /\ job \in Jobs
  /\ idorder \in {s \in [1..Len(job.files) -> Files] : IsInjective(s)}
  /\ pc = "check" /\ result = None /\ plan = None /\ lost = {}
  /\ \E names \in Foreign : disk = [name \in names |-> None]
  /\ itempos = 1 /\ opening = [w \in Workers |-> None] /\ openfailed = FALSE
  /\ sourcefiles = <<>> /\ criticalpackets = <<>>
  /\ desc = [f \in Files |-> [hash16k |-> None, hashfull |-> None]]
  /\ verif = [f \in Files |-> [b \in 1..BlockCount(f) |-> None]]
  /\ hasher = [f \in Files |-> [file |-> <<>>, block |-> <<>>]]
  /\ entries = <<>> /\ recoverypackets = <<>>
  /\ n = 1 /\ blockoffset = 0 /\ acc = <<>>

Advance ==
  \/ CheckCreate \/ CheckDelete
  \/ \E w \in Workers : Take(w) \/ OpenDeferred(w) \/ OpenRead(w) \/ OpenEnd(w)
  \/ Prepare \/ CreateFile \/ Created
  \/ AddInput \/ EndInput \/ WriteOutput \/ EndOutput
  \/ WriteHeader \/ FinishHashes \/ WriteCritical \/ Finish
Failure ==
  \/ CheckFails \/ MemoryFails \/ CreateFails \/ InputFails \/ WriteFails
  \/ \E w \in Workers : OpenFails(w)
Next == Advance \/ Failure

Spec == Init /\ [][Next]_vars

----------------------------------------------------------------------------
(* Properties *)

\* The type of the state: the plan, the files and the threads of a creation.
TypeOK ==
  /\ job \in Jobs
  /\ pc \in {"check", "checked", "open", "create", "input", "output", "headers", "packets",
             "done"}
  /\ pc = "done" <=> result \in {"eSuccess", "eFileIOError", "eMemoryError",
                                  "eInvalidCommandLineArguments"}
  /\ DOMAIN disk \subseteq UNION Foreign \cup {Check}
       \cup (IF plan = None THEN {} ELSE Range(Outputs))
  /\ n \in Nat /\ blockoffset \in 0..job.blocksize
  /\ Range(sourcefiles) \subseteq Files
  /\ DOMAIN opening = Workers

\* What the packets should say, worked out from the source files alone.
IdOf(f) == [name |-> f, length |-> job.size[f],
            hash16k |-> Bytes(f, 0, LeastOf(Boundary, job.size[f]))]
SetIdOf == [blocksize |-> job.blocksize, ids |-> [i \in 1..Len(idorder) |-> IdOf(idorder[i])]]
BlockOf(f, b) == Bytes(f, (b - 1) * job.blocksize, job.blocksize)
InputsOf ==
  FlattenSeq([i \in 1..Len(idorder) |->
                [b \in 1..BlockCount(idorder[i]) |-> BlockOf(idorder[i], b)]])

\* Data of a recovery packet: parts that follow each other, make up a block, and are
\* the power of the packet's exponent applied to the same part of every source block.
RecoveryDataTrue(e, data) ==
  /\ \A k \in 1..Len(data) :
       /\ data[k].at = IF k = 1 THEN 0 ELSE data[k - 1].at + data[k - 1].length
       /\ data[k].power = e
       /\ data[k].inputs = [i \in 1..Len(InputsOf) |->
            SubSeq(InputsOf[i], data[k].at + 1, data[k].at + data[k].length)]
  /\ Last(data).at + Last(data).length = job.blocksize

CriticalTrue(packet, contents) ==
  CASE packet.type = "desc"    -> contents = [id |-> IdOf(packet.file),
                                    hashfull |-> Bytes(packet.file, 0, job.size[packet.file])]
    [] packet.type = "verif"   -> contents = [id |-> IdOf(packet.file),
                                    blocks |-> [b \in 1..BlockCount(packet.file) |->
                                                  BlockOf(packet.file, b)]]
    [] packet.type = "main"    -> contents = SetIdOf
    [] packet.type = "creator" -> TRUE

\* A packet whose hash fits what is on disk, which verification takes for a packet.
Intact(p) ==
  /\ p.head \notin {None, Torn}
  /\ p.head.packet.type = "recovery" => p.head.hash = p.data

\* At any moment, after any failure or when the program is killed, every packet on disk
\* that a later verification would accept is right: its recovery data is that of its
\* exponent for all source blocks in the order of the main packet, and its hashes are
\* those of the files, whether they were computed in OpenSourceFiles or in ProcessData.
PacketsTrue ==
  \A name \in DOMAIN disk : disk[name] # None =>
    \A k \in DOMAIN disk[name] :
      LET p == disk[name][k] IN
      Intact(p) =>
        /\ p.head.setid = SetIdOf
        /\ IF p.head.packet.type = "recovery"
           THEN RecoveryDataTrue(p.head.packet.exponent, p.data)
           ELSE CriticalTrue(p.head.packet, p.data)

\* The allocation deals out every recovery block exactly once, to files that have
\* different names and at least one block, and in the limited scheme no file gets more
\* blocks than the largest source file needs.
AllocationTrue ==
  pc = "create" =>
    LET a == fileallocations
        Blocks(i) == a[i].exponent .. a[i].exponent + a[i].count - 1
    IN
    /\ UNION {Blocks(i) : i \in 1..Len(a)} = job.first .. job.first + job.recoveryblocks - 1
    /\ \A i, j \in 1..Len(a) : i < j => \A x \in Blocks(i), y \in Blocks(j) : x < y
    /\ \A i \in 1..Len(a) : a[i].count > 0 /\ (job.scheme = "limited" => a[i].count <= plan.largest)
    /\ Len(a) = 0 <=> job.recoveryblocks = 0

\* A creation that succeeded wrote every packet it laid out, to the files whose closing did
\* not fail: each recovery block is in one place, and every file has every critical packet
\* as often as its number of recovery blocks has binary digits, or once if it has none.
SuccessComplete ==
  result = "eSuccess" =>
    LET Held(i, type) == {k \in DOMAIN disk[Outputs[i]] :
                            disk[Outputs[i]][k].head.packet.type = type}
        Copies(i) == IF i <= Len(fileallocations) THEN BitLength(fileallocations[i].count) ELSE 1
    IN
    \A i \in 1..Len(Outputs) : Outputs[i] \notin lost =>
      /\ Outputs[i] \in DOMAIN disk
      /\ \A k \in DOMAIN disk[Outputs[i]] : Intact(disk[Outputs[i]][k])
      /\ i <= Len(fileallocations) =>
           Cardinality(Held(i, "recovery")) = fileallocations[i].count
      /\ Cardinality(Held(i, "main")) = Copies(i)
      /\ Cardinality(Held(i, "creator")) = 1
      /\ \A f \in Files : \A type \in {"desc", "verif"} :
           Cardinality({k \in Held(i, type) :
                          disk[Outputs[i]][k].head.packet.file = f}) = Copies(i)

\* The threads that open the source files leave no trace: the packets are in an order
\* that depends on the files only.
Reproducible ==
  pc \in {"create", "input", "output", "headers", "packets"} =>
    /\ sourcefiles = idorder
    /\ criticalpackets = <<MainPacket>>
         \o [i \in 1..Len(idorder) |-> [type |-> "desc", file |-> idorder[i]]]
         \o [i \in 1..Len(idorder) |-> [type |-> "verif", file |-> idorder[i]]]

\* A file that was there before the creation is neither changed nor deleted.
OthersKept ==
  [][\A name \in DOMAIN disk : disk[name] = None =>
       name \in DOMAIN disk' /\ disk'[name] = None]_vars
=============================================================================
