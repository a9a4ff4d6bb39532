---------------------------- MODULE ScanDataFile ----------------------------
(* How the repairer recognises the contents of one file on disk: the table   *)
(* of block checksums (VerificationHashTable), the search for the block at   *)
(* the current position (FindMatch) and the scan built on it (ScanDataFile,  *)
(* VerifyDataFile).                                                          *)
(*                                                                           *)
(* A file is a sequence of cells: a cell is a run of bytes, with the value   *)
(* of its zero-padded block as the CRC and the MD5 hash tell it, or Junk,    *)
(* and a length.  Stepping the window byte by byte over data that belongs    *)
(* to no block is one step over a cell.                                      *)
EXTENDS Naturals, Sequences, SequencesExt

CONSTANTS
  Source,      \* file number -> the cells of that source file, one per block
  Verifiable,  \* the file numbers that have a verification packet
  BlockSize,
  Junk         \* the value of data that matches no block

Files == DOMAIN Source
BlockCount(f) == Len(Source[f])
Blocks == UNION {{f} \X (1..BlockCount(f)) : f \in Files}

ASSUME SourceAssumption ==
  /\ Verifiable \subseteq Files
  /\ \A b \in Blocks :
       LET cell == Source[b[1]][b[2]] IN
       /\ cell.val # Junk
       /\ cell.len \in 1..BlockSize
       /\ b[2] < BlockCount(b[1]) => cell.len = BlockSize

NoFile  == "no file"
NoEntry == <<0, 0>>
NoSource == 0

VARIABLES
  data,         \* DiskFile -> its cells
  completefile  \* file number -> the DiskFile that is a complete version, or NoFile

Unset == [disk |-> NoFile, offset |-> 0]

----------------------------------------------------------------------------
(* DataBlock and DiskFile *)

Size(cells) == FoldLeft(LAMBDA n, cell : n + cell.len, 0, cells)
Offset(cells, p) == Size(SubSeq(cells, 1, p - 1))
Length(b) == Source[b[1]][b[2]].len
Value(b)  == Source[b[1]][b[2]].val

\* A location that runs over the end of a file shorter than the original is
\* not one: a block whose last bytes are zero matches a truncated copy of it.
IsSet(b, loc) ==
  LET at == loc[b] IN
  /\ at.disk # NoFile
  /\ \/ at.offset + Length(b) <= Size(data[at.disk])
     \/ Size(Source[b[1]]) <= Size(data[at.disk])

\* ReadData: the bytes from there on are the block, with zeros for what is behind the end
\* of the file.
Holds(b, loc) ==
  LET cells == data[loc[b].disk] IN
  \E p \in DOMAIN cells :
    /\ Offset(cells, p) = loc[b].offset /\ cells[p].val = Value(b)
    /\ cells[p].len >= Length(b) \/ p = Len(cells)

----------------------------------------------------------------------------
(* VerificationHashTable: Load links the entries of a file, Insert appends   *)
(* an entry to those with the same checksum and hash.                        *)

NextEntry(e) == IF e[2] < BlockCount(e[1]) THEN <<e[1], e[2] + 1>> ELSE NoEntry

Loaded == FlattenSeq([f \in Files |->
            IF f \in Verifiable THEN [i \in 1..BlockCount(f) |-> <<f, i>>] ELSE <<>>])

SameList(value) == SelectSeq(Loaded, LAMBDA e : Value(e) = value)

\* FileCheckSummer: the window at a cell holds a whole block, or what is left of the
\* file; a short checksum looks at its first bytes.  Behind the end of the file there
\* are zeros as long as the scan has gone from block to block.  After a step Fill may
\* return before it blanks the buffer, and old bytes are there: padded tells which.
Padded(cells, p, sync) ==
  IF sync \/ p < Len(cells) \/ cells[p].len = BlockSize THEN {TRUE} ELSE BOOLEAN
Window(cells, p, padded) ==
  IF cells[p].len = BlockSize \/ (p = Len(cells) /\ padded) THEN cells[p].val ELSE Junk
ShortWindow(cells, p, length, padded) ==
  IF cells[p].len >= length \/ (p = Len(cells) /\ padded) THEN cells[p].val ELSE Junk
ShortBlock(cells, p) == p = Len(cells) /\ cells[p].len < BlockSize

\* The entry that was expected next matches.  The last one of a file matches even
\* when its block has been found before.
SuggestedMatches(suggested, d, p, loc, padded) ==
  /\ suggested # NoEntry
  /\ IF NextEntry(suggested) = NoEntry
     THEN ShortWindow(data[d], p, Length(suggested), padded) = Value(suggested)
     ELSE ~IsSet(suggested, loc) /\ Window(data[d], p, padded) = Value(suggested)

\* Two bugs to check the properties with: a block found elsewhere is never taken;
\* a block is only taken at the start of a file or after the one before it.
OnlyMatchesUnset(e, suggested, d, p, loc) ==
  /\ completefile[e[1]] = NoFile
  /\ ShortBlock(data[d], p) => data[d][p].len = Length(e)
  /\ ~IsSet(e, loc)
OnlyMatchesInOrder(e, suggested, d, p, loc) ==
  /\ completefile[e[1]] = NoFile
  /\ ShortBlock(data[d], p) => data[d][p].len = Length(e)
  /\ \/ e[2] = 1 /\ p = 1
     \/ e = suggested

\* The only entry with this checksum and hash.
OnlyMatches(e, suggested, d, p, loc) ==
  /\ completefile[e[1]] = NoFile
  /\ ShortBlock(data[d], p) => data[d][p].len = Length(e)
  /\ \/ e[2] = 1 /\ p = 1
     \/ e = suggested /\ ~(IsSet(e, loc) /\ loc[e].disk = d)
     \/ e # suggested /\ ~IsSet(e, loc)

FindMatch(suggested, sf, d, p, loc, padded) ==
  LET same   == SameList(Window(data[d], p, padded))
      usable == SelectSeq(same, LAMBDA e :
                  /\ ~IsSet(e, loc)
                  /\ ShortBlock(data[d], p) => data[d][p].len = Length(e))
      mine   == SelectSeq(usable, LAMBDA e : e[1] = sf)
  IN  CASE SuggestedMatches(suggested, d, p, loc, padded) -> suggested
        [] OTHER ->
           CASE Len(same) = 1 /\ OnlyMatches(same[1], suggested, d, p, loc) -> same[1]
             [] Len(same) > 1 /\ mine # <<>> -> mine[1]
             [] Len(same) > 1 /\ mine = <<>> /\ usable # <<>> -> usable[1]
             [] OTHER -> NoEntry

----------------------------------------------------------------------------
(* ScanDataFile *)

\* sync: the hasher has seen whole blocks only (StopHasher).
ScanStart(sf) ==
  [sf |-> sf, next |-> NoEntry, count |-> 0, full |-> TRUE, sync |-> TRUE, stop |-> FALSE]

\* What the scan remembers after FindMatch returned entry e at cell p.
Advance(st, e, p, renameonly) ==
  LET full == /\ st.full /\ e # NoEntry
              /\ IF st.count = 0 THEN e[2] = 1 /\ p = 1 ELSE e = st.next
  IN  [sf    |-> IF e # NoEntry /\ st.count = 0 THEN e[1] ELSE st.sf,
       next  |-> IF e # NoEntry THEN NextEntry(e) ELSE NoEntry,
       count |-> IF e # NoEntry THEN st.count + 1 ELSE st.count,
       full  |-> full,
       sync  |-> st.sync /\ e # NoEntry /\ Length(e) = BlockSize,
       stop  |-> renameonly /\ ~full]

\* In rename-only mode a scan that stops returns a partial match before the
\* block it found is recorded.
Matched(d, st) ==
  IF st.stop THEN "partial"
  ELSE IF st.count = 0 THEN "none"
  ELSE IF st.full /\ st.count = BlockCount(st.sf) /\ data[d] = Source[st.sf] THEN "full"
  ELSE "partial"

----------------------------------------------------------------------------
(* VerifyDataFile: a file in which no block was found may still be a whole   *)
(* copy of a source file without verification packet.                        *)

\* When no file has a verification packet the hashes are computed there: the
\* variable hashfull that is compared is not the one that was assigned, so the
\* comparison fails.
HashesComputed == Verifiable # {}

WholeFile(d) ==
  LET files == SelectSeq([f \in Files |-> f], LAMBDA f :
                 /\ f \notin Verifiable /\ completefile[f] = NoFile
                 /\ HashesComputed /\ data[d] = Source[f])
  IN  IF files = <<>> THEN NoSource ELSE files[1]

\* The scan goes on from where FindMatch returned entry e at cell p of d: st is what
\* it remembers then.
Record(scan, st, e, d, p) ==
  IF scan.st.stop THEN scan
  ELSE IF e = NoEntry \/ st.stop THEN [scan EXCEPT !.st = st]
  ELSE [st  |-> st,
        loc |-> [scan.loc EXCEPT ![e] = [disk |-> d, offset |-> Offset(data[d], p)]]]

RecordMatch(scan, e, d, p, renameonly) ==
  Record(scan, Advance(scan.st, e, p, renameonly), e, d, p)

\* The scan of the first n cells of a file; a scan that fails ends there.
ScanCells(d, n, sf, renameonly, loc, padded) ==
  FoldLeftDomain(
    LAMBDA scan, p :
      RecordMatch(scan,
                  FindMatch(scan.st.next, scan.st.sf, d, p, scan.loc, padded \/ scan.st.sync),
                  d, p, renameonly),
    [st |-> ScanStart(sf), loc |-> loc],
    IF Verifiable = {} THEN <<>> ELSE SubSeq(data[d], 1, n))

ScanWhole(d, sf, renameonly, loc, padded) ==
  ScanCells(d, Len(data[d]), sf, renameonly, loc, padded)

\* What becomes of the locations and of the complete files: whole is the source file
\* that d is recognised as by its hash alone.
Conclude(d, scan, matched, whole) ==
  [loc      |-> [b \in Blocks |->
                   IF b[1] = whole THEN [disk |-> d, offset |-> Offset(data[d], b[2])]
                   ELSE scan.loc[b]],
   complete |-> IF matched = "full" THEN [completefile EXCEPT ![scan.st.sf] = d]
                ELSE IF whole # NoSource THEN [completefile EXCEPT ![whole] = d]
                ELSE completefile]

VerifyScanned(d, scan, matched) ==
  Conclude(d, scan, matched, IF matched = "none" THEN WholeFile(d) ELSE NoSource)

VerifyMatched(d, scan) == VerifyScanned(d, scan, Matched(d, scan.st))

\* The verification of a file when no other thread interferes: the outcomes with either
\* kind of bytes behind its end.
VerifyDataFile(d, sf, renameonly, loc) ==
  {VerifyMatched(d, ScanWhole(d, sf, renameonly, loc, padded)) : padded \in BOOLEAN}

----------------------------------------------------------------------------
(* What there is to find *)

\* The contents of the block are those of no other block with a checksum.
Unique(b) == \A e \in ToSet(Loaded) : Value(e) = Value(b) => e = b

\* A file that ends within the block: as much of it as there is matches if only
\* zeros are lost.
Truncated(d, b) ==
  \E p \in DOMAIN data[d] : data[d][p].val = Value(b) /\ data[d][p].len < Length(b)

\* The file holds the block: from end to end, and of full size, so that a window finds it
\* at any offset.
HoldsWhole(d, b) ==
  /\ Length(b) = BlockSize
  /\ \E p \in DOMAIN data[d] : data[d][p].val = Value(b) /\ data[d][p].len = BlockSize
=============================================================================
