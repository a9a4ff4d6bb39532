----------------------------- MODULE VerifyFiles -----------------------------
(* VerifySourceFiles and VerifyExtraFiles: the files found on disk are       *)
(* scanned by several threads (foreach_parallel) that share the DataBlocks   *)
(* of the source files and their completefile pointers without a lock.       *)
EXTENDS ScanDataFile, FiniteSets

CONSTANTS
  TargetName,   \* file number -> the DiskFile of its target
  SortedFiles,  \* the file numbers in the order in which they are verified
  ExtraFiles,   \* the other files on disk, a sequence of DiskFiles
  Calls         \* the calls of Process: filethreads, renameonly, the DiskFiles that may be
                \* there and the cells these may have

DiskFiles == {TargetName[f] : f \in Files} \cup ToSet(ExtraFiles)

ASSUME VerifyAssumption ==
  \A c \in Calls :
    /\ c.filethreads \in Nat \ {0} /\ c.renameonly \in BOOLEAN
    /\ c.disk \subseteq DiskFiles

VARIABLES
  phase,        \* "source", "extra", "done" or "failed"
  present,      \* the DiskFiles there are
  itemPos,      \* foreach_parallel: how many items have been handed out
  scan,         \* DiskFile -> the state of its scan
  location,     \* block -> the location in its DataBlock
  finalresult,  \* VerifySourceFiles: no scan has failed
  results,      \* what UpdateVerificationResults found last
  filethreads, renameonly

callVars == <<filethreads, renameonly>>
vars == <<data, completefile, phase, present, itemPos, scan, location, finalresult, results,
          callVars>>

NoScan == [pc |-> "idle", st |-> ScanStart(NoSource), p |-> 1, block |-> NoEntry, todo |-> {}]

\* foreach_parallel's collection.  A target that is not there is reported as
\* missing at once.
Items ==
  IF phase = "source"
  THEN SelectSeq([i \in 1..Len(SortedFiles) |-> TargetName[SortedFiles[i]]],
                 LAMBDA d : d \in present)
  ELSE SelectSeq(ExtraFiles, LAMBDA d : d \in present)

Running == {d \in DiskFiles : scan[d].pc \notin {"idle", "done"}}

\* The source file a scan starts with: the owner of the target, none for an
\* extra file.
Owner(d) ==
  IF \E f \in Files : TargetName[f] = d THEN CHOOSE f \in Files : TargetName[f] = d
  ELSE NoSource

\* UpdateVerificationResults.
Results(loc) ==
  LET complete == {f \in Files : completefile[f] # NoFile}
      found    == {b \in Blocks : b[1] \in complete \/ IsSet(b, loc)}
  IN  [complete  |-> Cardinality({f \in complete : completefile[f] = TargetName[f]}),
       renamed   |-> Cardinality({f \in complete : completefile[f] # TargetName[f]}),
       damaged   |-> Cardinality({f \in Files \ complete : TargetName[f] \in present}),
       missing   |-> Cardinality({f \in Files \ complete : TargetName[f] \notin present}),
       available |-> Cardinality(found),
       missingblocks |-> Cardinality(Blocks) - Cardinality(found)]

Init ==
  /\ \E c \in Calls :
       /\ filethreads = c.filethreads /\ renameonly = c.renameonly
       /\ present \in SUBSET c.disk
       /\ \E cells \in [present -> c.contents] :
            /\ \A d \in present : Owner(d) = NoSource => cells[d] # <<>>
            /\ data = [d \in DiskFiles |-> IF d \in present THEN cells[d] ELSE <<>>]
  /\ completefile = [f \in Files |-> NoFile]
  /\ location = [b \in Blocks |-> Unset]
  /\ phase = "source" /\ itemPos = 0 /\ finalresult = TRUE
  /\ scan = [d \in DiskFiles |-> NoScan]
  /\ results = Results([b \in Blocks |-> Unset])

----------------------------------------------------------------------------
(* One scan *)

\* foreach_parallel hands out the next file; ScanDataFile starts if any file can
\* be verified by its blocks.
Begin(d) ==
  /\ phase \in {"source", "extra"}
  /\ itemPos < Len(Items) /\ Items[itemPos + 1] = d
  /\ Cardinality(Running) < filethreads
  /\ itemPos' = itemPos + 1
  /\ scan' = [scan EXCEPT ![d].pc = IF Verifiable # {} THEN "find" ELSE "whole",
                          ![d].st = ScanStart(Owner(d))]
  /\ UNCHANGED <<data, completefile, phase, present, location, finalresult, results, callVars>>

\* One turn of the scan loop: look for a match and go on after it.
Find(d) ==
  LET s == scan[d] IN
  /\ s.pc = "find" /\ s.p <= Len(data[d]) /\ ~s.st.stop
  /\ \E padded \in Padded(data[d], s.p, s.st.sync) :
       LET e  == FindMatch(s.st.next, s.st.sf, d, s.p, location, padded)
           st == Advance(s.st, e, s.p, renameonly /\ phase = "extra")
       IN
       scan' = [scan EXCEPT ![d] =
                  IF e = NoEntry \/ st.stop THEN [s EXCEPT !.st = st, !.p = s.p + 1]
                  ELSE [pc |-> "set", st |-> st, p |-> s.p, block |-> e,
                        todo |-> {"disk", "offset"}]]
  /\ UNCHANGED <<data, completefile, phase, present, itemPos, location, finalresult, results, callVars>>

\* A bug to check the properties with: only the first block of a whole file is located.
AfterSetFirst(s) ==
  IF s.pc = "set" THEN [s EXCEPT !.pc = "find", !.p = @ + 1]
  ELSE [s EXCEPT !.pc = "done"]

\* What the thread does after the location of a block is written: the next turn
\* of the loop, or the next block of a whole file.
AfterSet(s) ==
  IF s.pc = "set" THEN [s EXCEPT !.pc = "find", !.p = @ + 1]
  ELSE IF NextEntry(s.block) = NoEntry THEN [s EXCEPT !.pc = "done"]
  ELSE [s EXCEPT !.block = NextEntry(s.block), !.p = @ + 1, !.todo = {"disk", "offset"}]

\* A bug to check the properties with: the checksummer has gone on before the location is
\* recorded.
SetFieldLate(d, field) ==
  LET s == scan[d]
      left == [s EXCEPT !.todo = @ \ {field}]
  IN
  /\ s.pc \in {"set", "setwhole"} /\ field \in s.todo
  /\ location' = IF field = "disk" THEN [location EXCEPT ![s.block].disk = d]
                 ELSE [location EXCEPT ![s.block].offset = Offset(data[d], s.p + 1)]
  /\ scan' = [scan EXCEPT ![d] = IF left.todo = {} THEN AfterSet(left) ELSE left]
  /\ UNCHANGED <<data, completefile, phase, present, itemPos, finalresult, results, callVars>>

\* DataBlock::SetLocation writes two fields, in an order the compiler may choose.
SetField(d, field) ==
  LET s == scan[d]
      left == [s EXCEPT !.todo = @ \ {field}]
  IN
  /\ s.pc \in {"set", "setwhole"} /\ field \in s.todo
  /\ location' = IF field = "disk" THEN [location EXCEPT ![s.block].disk = d]
                 ELSE [location EXCEPT ![s.block].offset = Offset(data[d], s.p)]
  /\ scan' = [scan EXCEPT ![d] = IF left.todo = {} THEN AfterSet(left) ELSE left]
  /\ UNCHANGED <<data, completefile, phase, present, itemPos, finalresult, results, callVars>>

\* The end of ScanDataFile, and what VerifyDataFile does with the match.
Decide(d) ==
  LET s == scan[d]
      m == Matched(d, s.st)
  IN
  /\ s.pc = "find" /\ (s.p > Len(data[d]) \/ s.st.stop)
  /\ completefile' = IF m = "full" THEN [completefile EXCEPT ![s.st.sf] = d] ELSE completefile
  /\ scan' = [scan EXCEPT ![d].pc = IF m = "none" THEN "whole" ELSE "done"]
  /\ UNCHANGED <<data, phase, present, itemPos, location, finalresult, results, callVars>>

\* VerifyDataFile looks for a whole file without verification packet.
Whole(d) ==
  LET f == WholeFile(d) IN
  /\ scan[d].pc = "whole"
  /\ completefile' = IF f = NoSource THEN completefile ELSE [completefile EXCEPT ![f] = d]
  /\ scan' = [scan EXCEPT ![d] =
                IF f = NoSource \/ BlockCount(f) = 0 THEN [@ EXCEPT !.pc = "done"]
                ELSE [@ EXCEPT !.pc = "setwhole", !.block = <<f, 1>>, !.p = 1,
                               !.todo = {"disk", "offset"}]]
  /\ UNCHANGED <<data, phase, present, itemPos, location, finalresult, results, callVars>>

\* A read fails, in the scan or while the whole file is hashed: the scan ends.
\* VerifyExtraFiles ignores that.
Fail(d) ==
  /\ IF Verifiable # {} THEN scan[d].pc = "find" ELSE scan[d].pc = "whole"
  /\ scan[d].p <= Len(data[d]) /\ ~scan[d].st.stop
  /\ scan' = [scan EXCEPT ![d].pc = "done", ![d].st.stop = TRUE]
  /\ finalresult' = (finalresult /\ phase = "extra")
  /\ UNCHANGED <<data, completefile, phase, present, itemPos, location, results, callVars>>

----------------------------------------------------------------------------
(* The two loops *)

\* foreach_parallel has joined its threads: UpdateVerificationResults, and the
\* extra files if a file is not complete.
EndPhase ==
  /\ phase \in {"source", "extra"}
  /\ itemPos = Len(Items) /\ Running = {}
  /\ results' = Results(location)
  /\ phase' = IF phase = "extra" THEN "done"
              ELSE IF ~finalresult THEN "failed"
              ELSE IF results'.complete < Cardinality(Files) THEN "extra"
              ELSE "done"
  /\ itemPos' = 0
  /\ UNCHANGED <<data, completefile, present, scan, location, finalresult, callVars>>

Finished == phase \in {"done", "failed"} /\ UNCHANGED vars

Next ==
  \/ \E d \in DiskFiles :
       \/ Begin(d) \/ Find(d) \/ Decide(d) \/ Whole(d) \/ Fail(d)
       \/ \E field \in {"disk", "offset"} : SetField(d, field)
  \/ EndPhase
  \/ Finished

Spec == Init /\ [][Next]_vars

----------------------------------------------------------------------------
(* Properties *)

\* The type of the state: the locations, counts and scans of the verification.
TypeOK ==
  /\ phase \in {"source", "extra", "done", "failed"}
  /\ itemPos \in 0..Cardinality(DiskFiles)
  /\ completefile \in [Files -> DiskFiles \cup {NoFile}]
  /\ location \in [Blocks -> [disk : DiskFiles \cup {NoFile}, offset : Nat]]
  /\ \A d \in DiskFiles : scan[d].pc \in {"idle", "find", "set", "setwhole", "whole", "done"}
  /\ Cardinality(Running) <= filethreads

\* When the scans have ended, a DataBlock that is set is the block: ReadData finds the
\* data of the block at its offset in its file.
LocationsTrue ==
  phase = "done" => \A b \in Blocks : IsSet(b, location) => Holds(b, location)

\* The files on disk in which the contents of a block are found, whole or cut off.
Holders(b) == {d \in present : \E p \in DOMAIN data[d] : data[d][p].val = Value(b)}
\* Nothing is written by two threads: there is one, or no two files hold the block.
Apart(b) == filethreads = 1 \/ Cardinality(Holders(b)) <= 1

\* SetLocation: the location of a block is true unless two threads find it in two files;
\* whatever they find of other blocks meanwhile, a DataBlock has file and offset of the
\* same place, and one that runs over the end of its file has only zeros there.
LocationsTrueApart ==
  phase = "done" => \A b \in Blocks : IsSet(b, location) /\ Apart(b) => Holds(b, location)

\* UpdateVerificationResults counts all blocks of a complete file, ComputeRSmatrix takes
\* those that are set and makes its lists as long as that count: the two agree unless two
\* threads find a block in two files.
CountsAgree ==
  phase = "done" /\ (\A b \in Blocks : Apart(b)) =>
    results.available = Cardinality({b \in Blocks : IsSet(b, location)})

ScannedToEnd(d) == scan[d].pc = "done" /\ ~scan[d].st.stop
\* No block of the file is like one of another file, or on disk anywhere else.
Alone(f, d) ==
  \A k \in 1..BlockCount(f) :
    /\ Holders(<<f, k>>) = {d}
    /\ \A e \in ToSet(Loaded) : Value(e) = Value(<<f, k>>) => e[1] = f

\* FindMatch, "This ensures that we can find a perfect match for a target file even if
\* some of the blocks had already been found": a perfect copy that was scanned to its end is
\* found, whatever was found before and whatever the other threads find meanwhile, if no
\* two blocks are equal; and also with equal blocks in it if it is the only file with them.
PerfectFound ==
  phase = "done" =>
    \A d \in present, f \in Files :
      /\ ScannedToEnd(d) /\ data[d] = Source[f]
      /\ Alone(f, d) \/ \A k \in 1..BlockCount(f) : Unique(<<f, k>>)
      => completefile[f] # NoFile

\* ScanDataFile with one thread: a block of full size that no other block is like is found
\* if it is in a file that was scanned to its end, in whatever order the files were scanned,
\* at whatever offset and between whatever else; unless a cut-off copy of it in a shorter
\* file was taken instead, which IsSet then does not accept.
BlocksFound ==
  phase = "done" /\ filethreads = 1 =>
    \A d \in present, b \in Blocks :
      /\ ScannedToEnd(d) /\ b[1] \in Verifiable /\ Unique(b) /\ HoldsWhole(d, b)
      => \/ IsSet(b, location)
         \/ location[b].disk # NoFile /\ Truncated(location[b].disk, b)
=============================================================================
