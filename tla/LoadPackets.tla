----------------------------- MODULE LoadPackets -----------------------------
(* How Par2Repairer finds its packets: every PAR2 file is searched for       *)
(* packets that are intact, those of one recovery set are sorted into maps,  *)
(* the maps are checked against the main packet, and the blocks of the       *)
(* source files are numbered.  Reads may fail, another thread may cancel,    *)
(* and Process may be called again when more PAR2 files have arrived.        *)
(*                                                                           *)
(* A file is a number of bytes and the offsets at which the magic value      *)
(* stands, with what the header there says: a length, the recovery set, the  *)
(* packet, and whether the MD5 hash of that many bytes is the one in it.     *)
EXTENDS Integers, Sequences, FiniteSets, SequencesExt, FiniteSetsExt, Functions

CONSTANTS
  HeaderSize,  \* sizeof(PACKET_HEADER)
  BufferSize,  \* the most that is read at once when searching for the magic value
  MaxU32,      \* the largest u32
  Align,       \* the length of a packet and the block size are multiples of this
  PacketSize,  \* packet type -> sizeof its structure, all but the entries, name or data
  IdSize,      \* sizeof(MD5Hash)
  EntrySize,   \* sizeof(FILEVERIFICATIONENTRY)
  MaxEntries,  \* the most file ids or verification entries a packet may have
  MaxText,     \* the longest file name or creator description
  Disks,       \* what the PAR2 files may contain: name -> size, at
  ParFile,     \* the PAR2 file that is asked for
  OtherFiles,  \* files with names based on it
  ExtraFiles,  \* other PAR2 files given on the command line, in order
  Presents,    \* which of them may be on disk at first
  MaxCalls,    \* bound: calls of Process
  None         \* the null pointer

Names == {ParFile} \cup OtherFiles \cup ToSet(ExtraFiles)

ASSUME LoadAssumption ==
  /\ HeaderSize \in Nat \ {0} /\ BufferSize \in Nat /\ BufferSize >= HeaderSize
  /\ MaxU32 \in Nat /\ MaxEntries \in Nat /\ MaxText \in Nat /\ MaxCalls \in Nat
  /\ {Align, IdSize, EntrySize} \subseteq Nat \ {0}
  /\ ParFile \notin OtherFiles
  /\ Presents \subseteq SUBSET Names
  /\ \A d \in Disks : DOMAIN d = Names
  /\ \A d \in Disks, n \in Names : \A o \in DOMAIN d[n].at :
       LET p == d[n].at[o].packet IN p.type = "main" => IsInjective(p.fileids)

VARIABLES
  disk,        \* name -> the contents of the file
  present,     \* the names that are on disk and can be opened
  setid,       \* the recovery set, or None while firstpacket is true
  mainpacket, creatorpacket,
  recoverypacketmap, \* exponent -> its block size and the DiskFile it is in
  sourcefilemap,     \* fileid -> its description and verification packets
  diskFileMap,       \* the names of the files that are kept
  par2list,
  sourcefiles,       \* the fileids in the order of the main packet, None without details
  firstblock,        \* position in sourcefiles -> firstblocknumber, and where in the
                     \* vector of DataBlocks the first one of the file is
  sourceblockcount,
  cancelled,
  stage, todo,       \* which files are loaded, and those that are left
  file, offset,      \* the file that is read, and where
  packets,           \* how many usable packets it had
  preprocess,        \* the call is PreProcess
  pc, result, calls,
  clean              \* history: no read has failed

mapVars == <<mainpacket, creatorpacket, recoverypacketmap, sourcefilemap>>
packetVars == <<setid, mapVars>>
listVars == <<sourcefiles, firstblock, sourceblockcount>>
readVars == <<file, offset, packets>>
envVars  == <<disk, present, cancelled, calls, preprocess>>
vars == <<packetVars, listVars, readVars, envVars, diskFileMap, par2list, stage, todo, pc, result, clean>>

----------------------------------------------------------------------------
(* The packet classes *)

\* A valid hash does not make a packet usable.  What follows the structure of its
\* type is h.length - PacketSize long: file ids, a name, entries, or recovery data.
Body(h) == h.length - PacketSize[h.packet.type]

MainLoads(h) ==
  /\ Body(h) >= 0 /\ Body(h) % IdSize = 0 /\ Body(h) <= MaxEntries * IdSize
  /\ h.packet.recoverable <= Body(h) \div IdSize
  /\ h.packet.blocksize # 0 /\ h.packet.blocksize % Align = 0
DescriptionLoads(h) == Body(h) \in 1..MaxText /\ h.packet.sane
VerificationLoads(h) ==
  Body(h) > 0 /\ Body(h) % EntrySize = 0 /\ Body(h) <= MaxEntries * EntrySize
CreatorLoads(h) == Body(h) \in 1..MaxText
RecoveryLoads(h) == Body(h) > 0

Put(map, k, v) == [x \in DOMAIN map \cup {k} |-> IF x = k THEN v ELSE map[x]]
SourceFile(id) ==
  IF id \in DOMAIN sourcefilemap THEN sourcefilemap[id] ELSE [desc |-> None, verif |-> None]

\* Each of these keeps the first packet of its kind and says whether it was kept.
LoadRecoveryPacket(h) ==
  LET new == RecoveryLoads(h) /\ h.packet.exponent \notin DOMAIN recoverypacketmap IN
  /\ packets' = packets + (IF new THEN 1 ELSE 0)
  /\ recoverypacketmap' = IF new
       THEN Put(recoverypacketmap, h.packet.exponent, [blocksize |-> Body(h), disk |-> file])
       ELSE recoverypacketmap
  /\ UNCHANGED <<mainpacket, creatorpacket, sourcefilemap>>

LoadDescriptionPacket(h) ==
  LET new == DescriptionLoads(h) /\ SourceFile(h.packet.fileid).desc = None IN
  /\ packets' = packets + (IF new THEN 1 ELSE 0)
  /\ sourcefilemap' = IF new
       THEN Put(sourcefilemap, h.packet.fileid, [SourceFile(h.packet.fileid) EXCEPT !.desc = h.packet])
       ELSE sourcefilemap
  /\ UNCHANGED <<mainpacket, creatorpacket, recoverypacketmap>>

LoadVerificationPacket(h) ==
  LET new == VerificationLoads(h) /\ SourceFile(h.packet.fileid).verif = None IN
  /\ packets' = packets + (IF new THEN 1 ELSE 0)
  /\ sourcefilemap' = IF new
       THEN Put(sourcefilemap, h.packet.fileid, [SourceFile(h.packet.fileid) EXCEPT !.verif = [entries |-> Body(h) \div EntrySize]])
       ELSE sourcefilemap
  /\ UNCHANGED <<mainpacket, creatorpacket, recoverypacketmap>>

LoadMainPacket(h) ==
  LET new == mainpacket = None /\ MainLoads(h) IN
  /\ packets' = packets + (IF new THEN 1 ELSE 0)
  /\ mainpacket' = IF new THEN h.packet ELSE mainpacket
  /\ UNCHANGED <<creatorpacket, recoverypacketmap, sourcefilemap>>

LoadCreatorPacket(h) ==
  LET new == creatorpacket = None /\ CreatorLoads(h) IN
  /\ packets' = packets + (IF new THEN 1 ELSE 0)
  /\ creatorpacket' = IF new THEN h.packet ELSE creatorpacket
  /\ UNCHANGED <<mainpacket, recoverypacketmap, sourcefilemap>>

LoadPacket(h) ==
  LET type == h.packet.type IN
  \/ type = "recovery" /\ LoadRecoveryPacket(h)
  \/ type = "verification" /\ LoadVerificationPacket(h)
  \/ type = "description" /\ LoadDescriptionPacket(h)
  \/ type = "main" /\ LoadMainPacket(h)
  \/ type = "creator" /\ LoadCreatorPacket(h)
  \/ type \notin DOMAIN PacketSize /\ UNCHANGED <<mapVars, packets>>

----------------------------------------------------------------------------
(* LoadPacketsFromFile *)

Size == disk[file].size
HeadAt(o) == disk[file].at[o]
MagicAt(o) == o \in DOMAIN disk[file].at

\* Process or PreProcess returns.
Return(r) == /\ result' = r
             /\ pc' = "idle"

\* After a file: Process gives up on the main file, LoadPacketsFromExtraFiles on an
\* extra file; LoadPacketsFromOtherFiles does not look at what is returned.
AfterFile ==
  IF cancelled /\ stage \in {"main", "extra"}
  THEN Return("eLogicError")
  ELSE pc' = "next" /\ UNCHANGED result

\* A file that is known, missing or cannot be opened is passed over; only
\* LoadPacketsFromExtraFiles then looks at the cancellation.
PassOver(known) ==
  /\ clean' = (clean /\ known)
  /\ IF stage = "extra" THEN AfterFile ELSE pc' = "next" /\ UNCHANGED result
  /\ UNCHANGED readVars

OpenFile(opens) ==
  LET name == Head(todo)
      known == name \in diskFileMap \/ name \notin present
  IN
  /\ pc = "next" /\ todo # <<>>
  /\ todo' = Tail(todo)
  /\ \/ /\ known \/ ~opens
        /\ PassOver(known)
     \/ /\ ~known /\ opens
        /\ file' = name /\ offset' = 0 /\ packets' = 0
        /\ pc' = "scan"
        /\ UNCHANGED <<result, clean>>
  /\ UNCHANGED <<packetVars, listVars, envVars, diskFileMap, par2list, stage>>

\* The outer loop: read a header.
ReadHeader(reads) ==
  /\ pc = "scan" /\ offset + HeaderSize <= Size /\ ~cancelled
  /\ clean' = (clean /\ reads)
  /\ \/ ~reads /\ pc' = "close" /\ UNCHANGED offset
     \/ reads /\ MagicAt(offset) /\ pc' = "packet" /\ UNCHANGED offset
     \/ reads /\ ~MagicAt(offset) /\ pc' = "search" /\ offset' = offset + 1
  /\ UNCHANGED <<packetVars, listVars, envVars, diskFileMap, par2list, stage, todo, file, packets, result>>

\* A bug to check the properties with: the end of one buffer is not searched
\* again with the next.
SearchBufferNoOverlap(reads) ==
  LET want == Min({BufferSize, Size, Size - offset})
      hits == {c \in 0..(want - HeaderSize) : MagicAt(offset + c)}
  IN
  /\ pc = "search" /\ offset + HeaderSize <= Size
  /\ clean' = (clean /\ reads)
  /\ \/ ~reads /\ offset' = Size /\ pc' = "close"
     \/ reads /\ hits = {} /\ offset' = offset + want /\ UNCHANGED pc
     \/ reads /\ hits # {} /\ offset' = offset + Min(hits) /\ pc' = "packet"
  /\ UNCHANGED <<packetVars, listVars, envVars, diskFileMap, par2list, stage, todo, file, packets, result>>

\* The inner loop: one buffer is searched for the magic value, up to the last
\* place where a whole header still fits.
SearchBuffer(reads) ==
  LET want == Min({BufferSize, Size, Size - offset})
      hits == {c \in 0..(want - HeaderSize) : MagicAt(offset + c)}
  IN
  /\ pc = "search" /\ offset + HeaderSize <= Size
  /\ clean' = (clean /\ reads)
  /\ \/ ~reads /\ offset' = Size /\ pc' = "close"
     \/ reads /\ hits = {} /\ offset' = offset + want - HeaderSize + 1 /\ UNCHANGED pc
     \/ reads /\ hits # {} /\ offset' = offset + Min(hits) /\ pc' = "packet"
  /\ UNCHANGED <<packetVars, listVars, envVars, diskFileMap, par2list, stage, todo, file, packets, result>>

LengthFits(h) == HeaderSize <= h.length /\ h.length % Align = 0 /\ offset + h.length <= Size

\* A packet that cannot be one, cannot be read or has a wrong hash is passed by
\* one byte.  The first good one decides the set; the others of that set are
\* loaded, which reads them again; all are passed by their length.
ExaminePacket(reads, loads) ==
  LET h == HeadAt(offset)
      good == LengthFits(h) /\ reads /\ h.valid
  IN
  /\ pc = "packet"
  /\ clean' = (clean /\ reads /\ loads)
  /\ pc' = "scan"
  /\ \/ /\ ~good
        /\ offset' = offset + 1
        /\ UNCHANGED <<packetVars, packets>>
     \/ /\ good
        /\ setid' = IF setid = None THEN h.set ELSE setid
        /\ \/ loads /\ h.set = setid' /\ LoadPacket(h)
           \/ (~loads \/ h.set # setid') /\ UNCHANGED <<mapVars, packets>>
        /\ offset' = offset + h.length
  /\ UNCHANGED <<listVars, envVars, diskFileMap, par2list, stage, todo, file, result>>

\* A bug to check the properties with: one packet is not enough to keep the file.
KeepFileMany == IF packets > 1 THEN diskFileMap \cup {file} ELSE diskFileMap

\* Remember the file if it had anything new, else free it.
KeepFile == IF packets > 0 THEN diskFileMap \cup {file} ELSE diskFileMap

CloseFile ==
  /\ \/ pc = "close"
     \/ pc \in {"scan", "search"} /\ offset + HeaderSize > Size
     \/ pc = "scan" /\ cancelled
  /\ diskFileMap' = KeepFile
  /\ AfterFile
  /\ UNCHANGED <<packetVars, listVars, readVars, envVars, par2list, stage, todo, clean>>

----------------------------------------------------------------------------
(* Process *)

\* The PAR2 file that is asked for, then those with names based on it in the order
\* the directory lists them, then those given on the command line.
NextStage ==
  /\ pc = "next" /\ todo = <<>>
  /\ \/ /\ stage = "main" /\ stage' = "other"
        /\ \E found \in Bijection(1..Cardinality(OtherFiles \cap present), OtherFiles \cap present) :
             par2list' = par2list \o found
        /\ todo' = par2list'
        /\ UNCHANGED pc
     \/ /\ stage = "other" /\ stage' = "extra"
        /\ todo' = ExtraFiles
        /\ UNCHANGED <<par2list, pc>>
     \/ /\ stage = "extra"
        /\ pc' = "check"
        /\ UNCHANGED <<par2list, stage, todo>>
  /\ UNCHANGED <<packetVars, listVars, readVars, envVars, diskFileMap, result, clean>>

BlockCount(f) ==
  LET bs == mainpacket.blocksize IN (f.desc.filesize + bs - 1) \div bs

\* A description packet, not too many blocks, and as many verification entries as
\* blocks if there is a verification packet.
Consistent(f) ==
  /\ f.desc # None
  /\ BlockCount(f) <= MaxU32
  /\ f.verif = None \/ f.verif.entries = BlockCount(f)

\* The number of blocks of the first n recoverable files, as far as there are
\* details of them.
BlocksBefore(n, list, map) ==
  FoldLeft(LAMBDA sum, id : sum + (IF id = None THEN 0 ELSE BlockCount(map[id])), 0, SubSeq(list, 1, n))

\* The recoverable files there are details of.
Known(list) == {n \in 1..mainpacket.recoverable : list[n] # None}

\* How many of the files can be counted with an u32.
Fit(list, map) == {n \in 0..mainpacket.recoverable : BlocksBefore(n, list, map) <= MaxU32}

\* A bug to check the properties with: the DataBlocks, too, are advanced by one for
\* every file.
SetBlocksByFile(list, map) ==
  [n \in Known(list) |-> [number |-> Cardinality({k \in Known(list) : k < n}),
                          at |-> Cardinality({k \in Known(list) : k < n})]]

\* SetBlocks is given a number that is one more for every file, and the DataBlocks that
\* follow those of the files before.
SetBlocks(list, map) ==
  [n \in Known(list) |-> [number |-> Cardinality({k \in Known(list) : k < n}),
                          at |-> BlocksBefore(n - 1, list, map)]]
blocksallocated == firstblock # <<>>

\* CreateSourceFileList and AllocateSourceBlocks, after the packets that are not
\* consistent with the main packet were discarded.
ListSourceFiles(list, map) ==
  LET count == mainpacket.recoverable IN
  /\ sourcefiles' = list
  /\ sourceblockcount' = BlocksBefore(Max(Fit(list, map)), list, map)
  /\ \/ /\ count \notin Fit(list, map)
        /\ Return("eLogicError")
        /\ UNCHANGED firstblock
     \/ /\ count \in Fit(list, map)
        /\ firstblock' = IF sourceblockcount' = 0 THEN firstblock ELSE SetBlocks(list, map)
        /\ \/ preprocess /\ Return("eSuccess")
           \/ ~preprocess /\ pc' = "verify" /\ UNCHANGED result

\* CheckPacketConsistency.
CheckPackets ==
  /\ pc = "check"
  /\ \/ /\ mainpacket = None
        /\ Return("eInsufficientCriticalData")
        /\ UNCHANGED <<recoverypacketmap, sourcefilemap, listVars>>
     \/ /\ mainpacket # None
        /\ recoverypacketmap' = Restrict(recoverypacketmap,
             {e \in DOMAIN recoverypacketmap : recoverypacketmap[e].blocksize = mainpacket.blocksize})
        /\ sourcefilemap' = Restrict(sourcefilemap,
             {id \in DOMAIN sourcefilemap : Consistent(sourcefilemap[id])})
        /\ ListSourceFiles([n \in DOMAIN mainpacket.fileids |->
                IF mainpacket.fileids[n] \in DOMAIN sourcefilemap' THEN mainpacket.fileids[n] ELSE None],
              sourcefilemap')
  /\ UNCHANGED <<setid, mainpacket, creatorpacket, readVars, envVars, diskFileMap, par2list, stage, todo, clean>>

\* VerifySourceFiles is told of a missing recoverable file and fails.  The number
\* it compares is never advanced, so any missing file is taken for a recoverable one.
Details ==
  \A n \in DOMAIN sourcefiles : sourcefiles[n] = None => ~(0 < mainpacket.recoverable)

\* The rest of the verification, which may fail or be cancelled, is in VerifyFiles.
\* After a call that was given up it is a verification of no files, or of files whose
\* DataBlocks were never allocated.
VerifySourceFiles(scanned) ==
  /\ pc = "verify"
  /\ Return(IF Details /\ scanned THEN "verified" ELSE "eFileIOError")
  /\ clean' = (clean /\ scanned)
  /\ UNCHANGED <<packetVars, listVars, readVars, envVars, diskFileMap, par2list, stage, todo>>

\* Load the packets for the caller to look at the headers; a call of Process follows.
PreProcess ==
  /\ pc = "idle" /\ calls = 0 /\ MaxCalls > 0
  /\ calls' = 1
  /\ preprocess' = TRUE
  /\ stage' = "main" /\ todo' = <<ParFile>> /\ pc' = "next"
  /\ UNCHANGED <<packetVars, listVars, readVars, disk, present, cancelled, diskFileMap, par2list, result, clean>>

\* A call after the files were verified does not come here (see Repairer).  One after a
\* call that was given up with a main packet does not load, check or list anything.
Process ==
  /\ pc = "idle" /\ calls < MaxCalls /\ result # "verified"
  /\ calls' = calls + 1
  /\ preprocess' = FALSE
  /\ par2list' = Append(par2list, ParFile)
  /\ \/ /\ mainpacket = None
        /\ stage' = "main" /\ todo' = <<ParFile>> /\ pc' = "next"
     \/ /\ mainpacket # None
        /\ pc' = "verify"
        /\ UNCHANGED <<stage, todo>>
  /\ UNCHANGED <<packetVars, listVars, readVars, disk, present, cancelled, diskFileMap, result, clean>>

\* The other PAR2 files are downloaded between two calls.
Arrive ==
  /\ pc = "idle" /\ calls < MaxCalls
  /\ present # Names /\ present' = Names
  /\ UNCHANGED <<packetVars, listVars, readVars, disk, cancelled, calls, preprocess, diskFileMap, par2list, stage, todo, pc, result, clean>>

\* Another thread sets the flag; nothing resets it.
Cancel ==
  /\ ~cancelled
  /\ cancelled' = TRUE
  /\ UNCHANGED <<packetVars, listVars, readVars, disk, present, calls, preprocess, diskFileMap, par2list, stage, todo, pc, result, clean>>

Init ==
  /\ disk \in Disks
  /\ present \in Presents
  /\ setid = None /\ mainpacket = None /\ creatorpacket = None
  /\ recoverypacketmap = <<>> /\ sourcefilemap = <<>>
  /\ diskFileMap = {} /\ par2list = <<>>
  /\ sourcefiles = <<>> /\ firstblock = <<>> /\ sourceblockcount = 0
  /\ cancelled = FALSE
  /\ stage = "main" /\ todo = <<>>
  /\ file = ParFile /\ offset = 0 /\ packets = 0
  /\ pc = "idle" /\ result = "none" /\ calls = 0 /\ preprocess = FALSE
  /\ clean = TRUE

\* Bound: one file operation fails.
Outcomes == IF clean THEN BOOLEAN ELSE {TRUE}

Step ==
  \/ \E ok \in Outcomes :
       OpenFile(ok) \/ ReadHeader(ok) \/ SearchBuffer(ok) \/ VerifySourceFiles(ok)
  \/ \E reads, loads \in Outcomes : ExaminePacket(reads, loads)
  \/ CloseFile \/ NextStage \/ CheckPackets

Next == Step \/ PreProcess \/ Process \/ Arrive \/ Cancel

\* The thread that called Process runs.
Spec == Init /\ [][Next]_vars /\ WF_vars(Step)

----------------------------------------------------------------------------
(* What the files contain *)

Intact(d) ==
  {o \in DOMAIN d.at : /\ d.at[o].valid /\ HeaderSize <= d.at[o].length
                       /\ d.at[o].length % Align = 0 /\ o + d.at[o].length <= d.size}
\* A packet in the data of another is not one of this file's.
Outer(d) == {o \in Intact(d) : ~\E e \in Intact(d) : e < o /\ o < e + d.at[e].length}
Searched == ({ParFile} \cup ToSet(par2list) \cup ToSet(ExtraFiles)) \cap present
Offered(type) ==
  {h \in UNION {{disk[n].at[o] : o \in Outer(disk[n])} : n \in Searched} :
     h.set = setid /\ h.packet.type = type}

----------------------------------------------------------------------------
(* Properties *)

\* The type of the state: the packet maps and the offsets of the search.
TypeOK ==
  /\ disk \in Disks /\ present \subseteq Names /\ diskFileMap \subseteq present
  /\ ToSet(par2list) \subseteq Names /\ ToSet(todo) \subseteq Names /\ file \in Names
  /\ stage \in {"main", "other", "extra"}
  /\ offset \in 0..Size /\ packets \in Nat
  /\ sourceblockcount \in 0..MaxU32
  /\ \A id \in DOMAIN sourcefilemap : sourcefilemap[id].desc # None \/ sourcefilemap[id].verif # None
  /\ {cancelled, clean, preprocess} \subseteq BOOLEAN /\ calls \in 0..MaxCalls
  /\ pc \in {"idle", "next", "scan", "search", "packet", "close", "check", "verify"}

\* When the files have been searched, without a failed read and without a
\* cancellation, the maps hold what the intact packets of the set offer, wherever
\* they stand among damaged ones, in other files or in files that came later.
AllIntactLoaded ==
  pc = "check" /\ clean /\ ~cancelled =>
    /\ DOMAIN recoverypacketmap
         = {h.packet.exponent : h \in {g \in Offered("recovery") : RecoveryLoads(g)}}
    /\ {id \in DOMAIN sourcefilemap : sourcefilemap[id].desc # None}
         = {h.packet.fileid : h \in {g \in Offered("description") : DescriptionLoads(g)}}
    /\ {id \in DOMAIN sourcefilemap : sourcefilemap[id].verif # None}
         = {h.packet.fileid : h \in {g \in Offered("verification") : VerificationLoads(g)}}
    /\ mainpacket = None <=> \A h \in Offered("main") : ~MainLoads(h)

\* The recovery data of every packet in the map is in a DiskFile that is kept: a
\* file that is freed after it was searched had nothing in the map.
RecoveryOnDisk ==
  \A e \in DOMAIN recoverypacketmap :
    \/ recoverypacketmap[e].disk \in diskFileMap
    \/ /\ recoverypacketmap[e].disk = file /\ packets > 0
       /\ pc \in {"scan", "search", "packet", "close"}

\* The size of a source file, by the packets on disk.
SizeOf(id) ==
  LET heads == UNION {{disk[f].at[o] : o \in Intact(disk[f])} : f \in present} IN
  (CHOOSE h \in heads : h.packet.type = "description" /\ h.packet.fileid = id).packet.filesize
BlocksOf(id) == (SizeOf(id) + mainpacket.blocksize - 1) \div mainpacket.blocksize

\* Once the source files are verified and their DataBlocks are allocated, all recoverable
\* ones are known, and the place of each one's first DataBlock, which chooses its column
\* of the Reed-Solomon matrix (ComputeRSmatrix goes through the vector), counts all blocks
\* of the files before it in the main packet; the blocks of the last one end the vector.
BlocksNumbered ==
  result = "verified" /\ blocksallocated =>
    /\ \A n \in 1..mainpacket.recoverable :
         /\ sourcefiles[n] = mainpacket.fileids[n]
         /\ firstblock[n].at
              = FoldLeft(LAMBDA sum, id : sum + BlocksOf(id), 0, SubSeq(sourcefiles, 1, n - 1))
    /\ firstblock[mainpacket.recoverable].at + BlocksOf(sourcefiles[mainpacket.recoverable])
         = sourceblockcount

=============================================================================
