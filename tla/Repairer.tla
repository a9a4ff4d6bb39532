------------------------------ MODULE Repairer ------------------------------
(* Par2Repairer::Process: verify the files, set damaged ones aside, rename   *)
(* misnamed ones, create and rebuild the missing ones, verify them, and      *)
(* delete what is no longer needed.  A call may fail at every file operation, *)
(* the program may be killed between any two of them and be run again, and   *)
(* one Par2Repairer may be asked to verify first and to repair later.        *)
(*                                                                           *)
(* The scan of a file is one step here (its interleavings are the subject    *)
(* of VerifyFiles), in any order among the files.  A block is processed in   *)
(* one pass (several passes, and the compute threads: ProcessData).  Files   *)
(* that are deleted by the code are deleted.                                 *)
EXTENDS ScanDataFile, FiniteSets

CONSTANTS
  TargetName,   \* file number -> the name of its target
  BackupNames,  \* file number -> the names name.1, name.2, ... of its backups
  ExtraNames,   \* names given on the command line
  Scenarios,    \* purgefiles, and for every file number the cells a file of its
                \* name may have at first
  ExtraContents,\* the cells an extra file may have at first
  NewFiles,     \* identities of files that are created
  ParFiles,     \* the PAR2 files, a sequence of names
  MaxRecovery,  \* bound: recovery packets
  MaxCalls      \* bound: calls of Process, in this process and later ones

NumFiles == Len(Source)
Backups  == UNION {ToSet(BackupNames[f]) : f \in Files}
Names    == {TargetName[f] : f \in Files} \cup ExtraNames \cup Backups
FileIds  == Names \cup NewFiles
NoName   == "no name"

ASSUME RepairerAssumption ==
  /\ MaxRecovery \in Nat /\ MaxCalls \in Nat
  /\ Names \cap NewFiles = {} /\ NoFile \notin FileIds /\ NoName \notin Names
  /\ Backups \subseteq ExtraNames
  /\ \A f, g \in Files : TargetName[f] = TargetName[g] => f = g
  /\ \A f \in Files : TargetName[f] \notin ExtraNames
  /\ <<>> \notin ExtraContents
  /\ \A s \in Scenarios : s.purge \in BOOLEAN /\ DOMAIN s.contents = Files

\* data and completefile are declared by ScanDataFile.  A file keeps its identity
\* when it is renamed: data is about identities, disk about names.
VARIABLES
  disk,         \* name -> the file with that name, or NoFile
  parfiles,     \* the PAR2 files on disk
  recovery,     \* recoverypacketmap.size()
  filename,     \* DiskFile -> its filename
  known,        \* the names in diskFileMap
  sourcefile,   \* file number -> targetexists, targetfile
  location,     \* block -> location of the source DataBlock
  targetblocks, \* the blocks whose target DataBlock is set
  counts,       \* completefilecount, availableblockcount, missingblockcount
  backuplist, verifylist,
  alreadyloaded,
  args,         \* dorepair, purgefiles
  pc, i,        \* where Process is, and the position in its loop
  done,         \* files or names a parallel loop has finished with
  ok,           \* finalresult; in ProcessData: the data read so far was right
  err,          \* what Process returns when the targets have been deleted
  result,       \* what Process returned last
  calls,        \* how often Process was called
  had,          \* history: the blocks that were on disk at the start
  overwritten,  \* history: files renamed over that this process could not open
  unread,       \* history: the files that this process could not open or read to the end
  fault,        \* history: a file operation, the matrix or an allocation failed in this process
  enough        \* history: there were enough blocks when Process was called

diskVars == <<disk, data, parfiles>>
fileVars == <<filename, known>>
findVars == <<sourcefile, completefile, location, counts>>
listVars == <<targetblocks, backuplist, verifylist, alreadyloaded>>
envVars  == <<recovery, args, calls, had>>
ctrlVars == <<pc, i, done, ok, err, result>>
histVars == <<overwritten, unread, fault, enough>>
vars == <<diskVars, fileVars, findVars, listVars, envVars, ctrlVars, histVars>>

----------------------------------------------------------------------------
(* What is on disk *)

On(n) == disk[n] # NoFile
OnDisk(b) ==
  \E n \in Names : On(n) /\ \E p \in DOMAIN data[disk[n]] :
    data[disk[n]][p].val = Value(b) /\ data[disk[n]][p].len = Length(b)
BlocksOnDisk == {b \in Blocks : OnDisk(b)}

\* The block is in a file that can be read, where a scan cannot miss it: no other
\* block looks like one of its file, and no file ends within it.
Findable(b) ==
  /\ b[1] \in Verifiable /\ \A c \in Blocks : c[1] = b[1] => Unique(c)
  /\ \A n \in Names : On(n) => ~Truncated(disk[n], b)
  /\ \E n \in Names : /\ On(n) /\ disk[n] \notin unread
                      /\ HoldsWhole(disk[n], b) \/ data[disk[n]] = Source[b[1]]
Enough(packets) == Cardinality({b \in Blocks : Findable(b)}) + packets >= Cardinality(Blocks)
BlockSeq == FlattenSeq([f \in Files |-> [k \in 1..BlockCount(f) |-> <<f, k>>]])

\* UpdateVerificationResults.
Counts(sf, complete, loc) ==
  LET found == {b \in Blocks : complete[b[1]] # NoFile \/ IsSet(b, loc)} IN
  [complete  |-> Cardinality({f \in Files : complete[f] # NoFile /\ complete[f] = sf[f].target}),
   available |-> Cardinality(found),
   missing   |-> Cardinality(Blocks) - Cardinality(found)]

----------------------------------------------------------------------------
(* A Par2Repairer before its first call *)

NoTarget == [exists |-> FALSE, target |-> NoFile]
NoCounts == [complete |-> 0, available |-> 0, missing |-> 0]

Fresh ==
  /\ filename = [d \in FileIds |-> NoName] /\ known = {}
  /\ sourcefile = [f \in Files |-> NoTarget]
  /\ completefile = [f \in Files |-> NoFile]
  /\ location = [b \in Blocks |-> Unset]
  /\ counts = NoCounts
  /\ targetblocks = {} /\ backuplist = <<>> /\ verifylist = <<>>
  /\ alreadyloaded = FALSE
  /\ pc = "idle" /\ i = 1 /\ done = {} /\ ok = TRUE /\ err = "none" /\ result = "none"
  /\ unread = {} /\ fault = FALSE /\ enough = FALSE

Init ==
  /\ \E here \in SUBSET Files, there \in SUBSET (ExtraNames \ Backups), s \in Scenarios :
     \E target \in [here -> UNION {s.contents[f] : f \in here}],
        extra \in [there -> ExtraContents] :
       /\ \A f \in here : target[f] \in s.contents[f]
       /\ disk = [n \in Names |-> IF n \in there \cup {TargetName[f] : f \in here}
                                 THEN n ELSE NoFile]
       /\ data = [d \in FileIds |->
                    IF d \in there THEN extra[d]
                    ELSE IF \E f \in here : d = TargetName[f]
                    THEN target[CHOOSE f \in here : d = TargetName[f]]
                    ELSE <<>>]
       /\ args = [dorepair |-> FALSE, purge |-> s.purge]
  /\ parfiles = ToSet(ParFiles) /\ overwritten = {}
  /\ recovery \in 0..MaxRecovery
  /\ calls = 0
  /\ had = BlocksOnDisk
  /\ Fresh

Go(where) == pc' = where /\ i' = 1 /\ done' = {} /\ ok' = TRUE /\ UNCHANGED <<err, result>>
Return(r) == pc' = "idle" /\ i' = 1 /\ done' = {} /\ ok' = TRUE /\ result' = r /\ UNCHANGED err

\* The next turn of a loop.
Turn == i' = i + 1 /\ UNCHANGED <<pc, done, ok, err, result>>

\* An operation failed, or none did.
Fails == fault' = TRUE /\ UNCHANGED <<overwritten, unread, enough>>
Works == UNCHANGED histVars

----------------------------------------------------------------------------
(* Calls, and the end of a process *)

\* Process is called: by a new process, or again after a call that changed no
\* file.  The results of the first call are kept.  If some PAR2 files are gone their
\* recovery packets are.
Call ==
  /\ pc = "idle" /\ calls < MaxCalls
  /\ result \in {"none", "eRepairPossible", "eRepairNotPossible"}
  /\ \E dorepair \in BOOLEAN : args' = [args EXCEPT !.dorepair = dorepair]
  /\ calls' = calls + 1
  /\ recovery' \in IF alreadyloaded \/ parfiles = ToSet(ParFiles) THEN {recovery} ELSE 0..recovery
  /\ enough' = ((alreadyloaded \/ parfiles # {}) /\ Enough(recovery'))
  /\ IF parfiles = {} /\ ~alreadyloaded THEN Return("eInsufficientCriticalData")
     ELSE Go(IF alreadyloaded THEN "check" ELSE "source")
  /\ UNCHANGED <<diskVars, fileVars, findVars, listVars, had, overwritten, unread, fault>>

\* The client loads another recovery file between two calls.
LoadRecovery ==
  /\ pc = "idle" /\ result = "eRepairNotPossible" /\ recovery < MaxRecovery
  /\ recovery' = recovery + 1
  /\ UNCHANGED <<diskVars, fileVars, findVars, listVars, ctrlVars, histVars, args, calls, had>>

\* The program ends or is killed, and starts again.
Restart ==
  /\ calls < MaxCalls /\ calls > 0
  /\ filename' = [d \in FileIds |-> NoName] /\ known' = {}
  /\ sourcefile' = [f \in Files |-> NoTarget]
  /\ completefile' = [f \in Files |-> NoFile]
  /\ location' = [b \in Blocks |-> Unset]
  /\ counts' = NoCounts
  /\ targetblocks' = {} /\ backuplist' = <<>> /\ verifylist' = <<>>
  /\ alreadyloaded' = FALSE
  /\ pc' = "idle" /\ i' = 1 /\ done' = {} /\ ok' = TRUE /\ err' = "none" /\ result' = "none"
  /\ unread' = {} /\ fault' = FALSE /\ enough' = FALSE
  /\ UNCHANGED <<diskVars, envVars, overwritten>>

----------------------------------------------------------------------------
(* VerifySourceFiles, VerifyExtraFiles, CheckVerificationResults *)

\* A file is opened under its name ...
Open(n) ==
  /\ filename' = [filename EXCEPT ![disk[n]] = n]
  /\ known' = known \cup {n}
CannotRead(n) ==
  unread' = unread \cup {disk[n]} /\ fault' = TRUE /\ UNCHANGED <<overwritten, enough>>

\* ... and scanned, to the end or until a read fails.
Scan(n, f) ==
  /\ \E v \in VerifyDataFile(disk[n], f, FALSE, location) :
       completefile' = v.complete /\ location' = v.loc
  /\ Works
ScanFails(n, f) ==
  /\ \E k \in 0..Len(data[disk[n]]) - 1 :
       location' = ScanCells(disk[n], k, f, FALSE, location, TRUE).loc
  /\ UNCHANGED completefile
  /\ CannotRead(n)
\* A file that cannot be opened is taken for one that does not exist.
OpenFails(n) == CannotRead(n) /\ UNCHANGED <<fileVars, completefile, location>>

\* The scan of a target.
ScanTarget(f) ==
  LET n == TargetName[f] IN
  /\ pc = "source" /\ f \notin done
  /\ done' = done \cup {f}
  /\ \/ ~On(n) /\ Works /\ UNCHANGED <<fileVars, sourcefile, completefile, location, ok>>
     \/ On(n) /\ OpenFails(n) /\ UNCHANGED <<sourcefile, ok>>
     \/ /\ On(n) /\ Open(n)
        /\ sourcefile' = [sourcefile EXCEPT ![f] = [exists |-> TRUE, target |-> disk[n]]]
        /\ \/ Scan(n, f) /\ UNCHANGED ok
           \/ ScanFails(n, f) /\ ok' = FALSE
  /\ UNCHANGED <<diskVars, counts, listVars, envVars, pc, i, err, result>>

\* A bug to check the properties with: that a target could not be read is ignored,
\* as it is for an extra file.
EndSourceIgnoring ==
  /\ pc = "source" /\ done = Files
  /\ counts' = Counts(sourcefile, completefile, location)
  /\ IF counts'.complete < NumFiles THEN Go("extra") /\ UNCHANGED alreadyloaded
     ELSE Go("check") /\ alreadyloaded' = TRUE
  /\ UNCHANGED <<diskVars, fileVars, sourcefile, completefile, location,
                 targetblocks, backuplist, verifylist, envVars, histVars>>

EndSource ==
  /\ pc = "source" /\ done = Files
  /\ counts' = Counts(sourcefile, completefile, location)
  /\ IF ~ok THEN Return("eFileIOError") /\ UNCHANGED alreadyloaded
     ELSE IF counts'.complete < NumFiles THEN Go("extra") /\ UNCHANGED alreadyloaded
     ELSE Go("check") /\ alreadyloaded' = TRUE
  /\ UNCHANGED <<diskVars, fileVars, sourcefile, completefile, location,
                 targetblocks, backuplist, verifylist, envVars, histVars>>

\* An extra file that is not a target; errors are ignored.
ScanExtra(n) ==
  /\ pc = "extra" /\ n \notin done /\ n \notin known /\ On(n)
  /\ \/ OpenFails(n)
     \/ Open(n) /\ (Scan(n, NoSource) \/ ScanFails(n, NoSource))
  /\ done' = done \cup {n}
  /\ UNCHANGED <<diskVars, sourcefile, counts, listVars, envVars, pc, i, ok, err, result>>

\* A bug to check the properties with: the extra files are not counted.
EndExtraStale ==
  /\ pc = "extra" /\ \A n \in ExtraNames : n \in done \/ n \in known \/ ~On(n)
  /\ alreadyloaded' = TRUE
  /\ Go("check")
  /\ UNCHANGED <<diskVars, fileVars, findVars, targetblocks, backuplist, verifylist, envVars,
                 histVars>>

EndExtra ==
  /\ pc = "extra" /\ \A n \in ExtraNames : n \in done \/ n \in known \/ ~On(n)
  /\ counts' = Counts(sourcefile, completefile, location)
  /\ alreadyloaded' = TRUE
  /\ Go("check")
  /\ UNCHANGED <<diskVars, fileVars, sourcefile, completefile, location,
                 targetblocks, backuplist, verifylist, envVars, histVars>>

\* A bug to check the properties with: nothing is done if no block is missing.
CheckByBlocks ==
  /\ pc = "check"
  /\ IF counts.missing = 0 THEN Go("purge")
     ELSE IF recovery < counts.missing THEN Return("eRepairNotPossible")
     ELSE IF args.dorepair THEN Go("backup")
     ELSE Return("eRepairPossible")
  /\ UNCHANGED <<diskVars, fileVars, findVars, listVars, envVars, histVars>>

\* CheckVerificationResults, and what Process does next.
Check ==
  /\ pc = "check"
  /\ IF counts.complete = NumFiles THEN Go("purge")
     ELSE IF recovery < counts.missing THEN Return("eRepairNotPossible")
     ELSE IF args.dorepair THEN Go("backup")
     ELSE Return("eRepairPossible")
  /\ UNCHANGED <<diskVars, fileVars, findVars, listVars, envVars, histVars>>

----------------------------------------------------------------------------
(* RenameTargetFiles *)

\* A bug to check the properties with: the DiskFile does not learn its new name.
RenameKeepsName(d, n) ==
  /\ disk' = [disk EXCEPT ![filename[d]] = NoFile, ![n] = d]
  /\ UNCHANGED <<data, parfiles, filename, known>>

\* DiskFile::Rename: the file gets the name, whatever had it before; diskFileMap
\* follows.
Rename(d, n) ==
  /\ disk' = [disk EXCEPT ![filename[d]] = NoFile, ![n] = d]
  /\ filename' = [filename EXCEPT ![d] = n]
  /\ known' = (known \ {filename[d]}) \cup {n}
  /\ UNCHANGED <<data, parfiles>>

RenameFails(d) ==
  /\ known' = known \ {filename[d]}
  /\ Return("eFileIOError") /\ Fails
  /\ UNCHANGED <<diskVars, filename, findVars, listVars, envVars>>

\* A bug to check the properties with: the first backup name is used even if it
\* is taken.
FreeBackupsAny(f) == BackupNames[f]

FreeBackups(f) == SelectSeq(BackupNames[f], LAMBDA n : ~On(n))

\* A bug to check the properties with: a target that is not complete is only set
\* aside if no complete version was found.
DamagedUnlessFound(f) == sourcefile[f].exists /\ completefile[f] = NoFile

Damaged(f) == sourcefile[f].exists /\ sourcefile[f].target # completefile[f]

\* The next target that is not a complete version of its file is set aside.
Backup ==
  LET d == sourcefile[i].target IN
  /\ pc = "backup"
  /\ IF i > NumFiles
     THEN /\ Go("rename") /\ Works
          /\ UNCHANGED <<diskVars, fileVars, findVars, listVars, envVars>>
     ELSE IF ~Damaged(i)
     THEN /\ Turn /\ Works
          /\ UNCHANGED <<diskVars, fileVars, findVars, listVars, envVars>>
     ELSE \/ RenameFails(d)
          \/ /\ FreeBackups(i) # <<>>
             /\ Rename(d, FreeBackups(i)[1])
             /\ backuplist' = Append(backuplist, d)
             /\ sourcefile' = [sourcefile EXCEPT ![i] = NoTarget]
             /\ Turn /\ Works
             /\ UNCHANGED <<completefile, location, counts, targetblocks, verifylist,
                            alreadyloaded, envVars>>

Misnamed(f) == sourcefile[f].target = NoFile /\ completefile[f] # NoFile

\* The next complete version of a file that has another name gets its name; a file
\* of that name that could not be opened is gone.
RenameComplete ==
  LET d == completefile[i]
      there == disk[TargetName[i]]
  IN
  /\ pc = "rename"
  /\ IF i > NumFiles
     THEN /\ Go(IF counts.complete < NumFiles THEN "create" ELSE "purge") /\ Works
          /\ UNCHANGED <<diskVars, fileVars, findVars, listVars, envVars>>
     ELSE IF ~Misnamed(i)
     THEN /\ Turn /\ Works
          /\ UNCHANGED <<diskVars, fileVars, findVars, listVars, envVars>>
     ELSE \/ RenameFails(d)
          \/ /\ Rename(d, TargetName[i])
             /\ sourcefile' = [sourcefile EXCEPT ![i] = [exists |-> TRUE, target |-> d]]
             /\ counts' = [counts EXCEPT !.complete = @ + 1]
             /\ overwritten' = overwritten \cup ({there} \cap unread)
             /\ Turn
             /\ UNCHANGED <<completefile, location, listVars, envVars, unread, fault, enough>>

----------------------------------------------------------------------------
(* CreateTargetFiles and DeleteIncompleteTargetFiles *)

Blank(f) == [k \in 1..BlockCount(f) |-> [val |-> Junk, len |-> Length(<<f, k>>)]]

UnusedFiles == {d \in NewFiles : filename[d] = NoName /\ \A n \in Names : disk[n] # d}

\* The next target that does not exist is created: exclusively, so not over a
\* file that is there.
Create ==
  LET n == TargetName[i]
      d == CHOOSE x \in UnusedFiles : TRUE
  IN
  /\ pc = "create"
  /\ IF i > NumFiles
     THEN /\ Go("matrix") /\ Works
          /\ UNCHANGED <<diskVars, fileVars, findVars, listVars, envVars>>
     ELSE IF sourcefile[i].exists
     THEN /\ Turn /\ Works
          /\ UNCHANGED <<diskVars, fileVars, findVars, listVars, envVars>>
     ELSE \/ /\ Return("eFileIOError")
             /\ IF On(n) THEN Works ELSE Fails
             /\ UNCHANGED <<diskVars, fileVars, findVars, listVars, envVars>>
          \/ /\ ~On(n) /\ UnusedFiles # {}
             /\ disk' = [disk EXCEPT ![n] = d]
             /\ data' = [data EXCEPT ![d] = Blank(i)]
             /\ filename' = [filename EXCEPT ![d] = n]
             /\ known' = known \cup {n}
             /\ sourcefile' = [sourcefile EXCEPT ![i] = [exists |-> TRUE, target |-> d]]
             /\ targetblocks' = targetblocks \cup {b \in Blocks : b[1] = i}
             /\ verifylist' = Append(verifylist, i)
             /\ Turn /\ Works
             /\ UNCHANGED <<parfiles, completefile, location, counts, backuplist,
                            alreadyloaded, envVars>>

\* The targets that were created are to be deleted and the error returned.
Cleanup(r) ==
  /\ pc' = "cleanup" /\ i' = 1 /\ done' = {} /\ ok' = TRUE /\ err' = r /\ UNCHANGED result
  /\ UNCHANGED <<diskVars, fileVars, findVars, listVars, envVars>>

\* DeleteIncompleteTargetFiles: the next of them is deleted, or cannot be, which
\* is ignored; it is forgotten in either case.
DeleteIncomplete ==
  LET f == verifylist[i]
      d == sourcefile[f].target
  IN
  /\ pc = "cleanup"
  /\ IF i > Len(verifylist)
     THEN /\ Return(err)
          /\ UNCHANGED <<disk, known, sourcefile>>
     ELSE IF ~sourcefile[f].exists
     THEN Turn /\ UNCHANGED <<disk, known, sourcefile>>
     ELSE /\ \/ disk' = [disk EXCEPT ![filename[d]] = NoFile]
             \/ UNCHANGED disk
          /\ known' = known \ {filename[d]}
          /\ sourcefile' = [sourcefile EXCEPT ![f] = NoTarget]
          /\ Turn
  /\ Works
  /\ UNCHANGED <<data, parfiles, filename, completefile, location, counts, listVars, envVars>>

----------------------------------------------------------------------------
(* ComputeRSmatrix, AllocateBuffers, ProcessData *)

Found == SelectSeq(BlockSeq, LAMBDA b : IsSet(b, location))
Lost  == SelectSeq(BlockSeq, LAMBDA b : ~IsSet(b, location))

\* The matrix has a solution, and there is memory, or not.
Matrix ==
  /\ pc = "matrix"
  /\ \/ /\ Go("input") /\ Works
        /\ UNCHANGED <<diskVars, fileVars, findVars, listVars, envVars>>
     \/ \E r \in {"eFileIOError", "eMemoryError", "eLogicError"} : Cleanup(r) /\ Fails

\* The file a DiskFile opens now.
Opened(d) == disk[filename[d]]

\* What is read for a block is the data of that block; behind the end of the file
\* ReadData fills in zeros.
ReadsRight(b) ==
  LET at == location[b]
      cells == data[Opened(at.disk)]
  IN  \E p \in DOMAIN cells :
        /\ Offset(cells, p) = at.offset /\ cells[p].val = Value(b)
        /\ cells[p].len >= Length(b) \/ p = Len(cells)

\* Writing a block of the target of its file.
Write(b, right) ==
  data' = [data EXCEPT ![sourcefile[b[1]].target][b[2]].val = IF right THEN Value(b) ELSE Junk]

\* The next block that was found is read, and copied if its file is rebuilt.  If
\* no block is missing only the blocks to copy are read.
Input ==
  /\ pc = "input"
  /\ IF i > Len(Found)
     THEN /\ pc' = IF counts.missing > 0 THEN "output" ELSE "verify"
          /\ i' = 1
          /\ Works
          /\ UNCHANGED <<diskVars, fileVars, findVars, listVars, envVars, done, ok, err, result>>
     ELSE LET b == Found[i]
              reads == counts.missing > 0 \/ b \in targetblocks
              there == reads => On(filename[location[b].disk])
          IN
          \/ Cleanup("eFileIOError") /\ IF there THEN Fails ELSE Works
          \/ /\ there
             /\ IF b \in targetblocks THEN Write(b, ReadsRight(b)) ELSE UNCHANGED data
             /\ ok' = (ok /\ (reads => ReadsRight(b)))
             /\ i' = i + 1
             /\ Works
             /\ UNCHANGED <<disk, parfiles, fileVars, findVars, listVars, envVars, pc, done, err, result>>

\* The next missing block is computed and written.  It is right if all that was
\* read is.
Output ==
  /\ pc = "output"
  /\ IF i > Len(Lost)
     THEN /\ Go("verify") /\ Works
          /\ UNCHANGED <<diskVars, fileVars, findVars, listVars, envVars>>
     ELSE \/ Cleanup("eFileIOError") /\ Fails
          \/ /\ Write(Lost[i], ok)
             /\ Turn /\ Works
             /\ UNCHANGED <<disk, parfiles, fileVars, findVars, listVars, envVars>>

----------------------------------------------------------------------------
(* VerifyTargetFiles *)

\* A thread forgets what is known about a file ...
VerifyClear(f) ==
  /\ pc = "verify" /\ f \in ToSet(verifylist) /\ <<f, "cleared">> \notin done
  /\ location' = [b \in Blocks |-> IF b[1] = f THEN Unset ELSE location[b]]
  /\ completefile' = [completefile EXCEPT ![f] = NoFile]
  /\ done' = done \cup {<<f, "cleared">>}
  /\ Works
  /\ UNCHANGED <<diskVars, fileVars, sourcefile, counts, listVars, envVars, pc, i, ok, err, result>>

\* ... and scans its target again, if it can be opened and read.
VerifyAgain(f) ==
  LET n == filename[sourcefile[f].target] IN
  /\ pc = "verify" /\ <<f, "cleared">> \in done /\ <<f, "verified">> \notin done
  /\ done' = done \cup {<<f, "verified">>}
  /\ \/ Scan(n, f) /\ UNCHANGED ok
     \/ ScanFails(n, f) /\ ok' = FALSE
  /\ UNCHANGED <<diskVars, fileVars, sourcefile, counts, listVars, envVars, pc, i, err, result>>

\* UpdateVerificationResults, and the end of the repair.
EndVerify ==
  /\ pc = "verify" /\ \A f \in ToSet(verifylist) : <<f, "verified">> \in done
  /\ counts' = Counts(sourcefile, completefile, location)
  /\ IF ~ok
     THEN /\ pc' = "cleanup" /\ i' = 1 /\ done' = {} /\ ok' = TRUE
          /\ err' = "eFileIOError" /\ UNCHANGED result
     ELSE IF counts'.complete < NumFiles THEN Return("eRepairFailed")
     ELSE Go("purge")
  /\ Works
  /\ UNCHANGED <<diskVars, fileVars, sourcefile, completefile, location, listVars, envVars>>

----------------------------------------------------------------------------
(* RemoveBackupFiles, RemoveParFiles *)

\* The next file of the backup list is deleted under the name it has now; a
\* failure is ignored.
PurgeBackup ==
  /\ pc = "purge"
  /\ IF ~args.purge THEN Return("eSuccess") /\ UNCHANGED disk
     ELSE IF i > Len(backuplist) THEN Go("purgepar") /\ UNCHANGED disk
     ELSE /\ \/ disk' = [disk EXCEPT ![filename[backuplist[i]]] = NoFile]
             \/ UNCHANGED disk
          /\ Turn
  /\ Works
  /\ UNCHANGED <<data, parfiles, fileVars, findVars, listVars, envVars>>

\* Then the next PAR2 file, unless it cannot be opened or deleted.
PurgePar ==
  /\ pc = "purgepar"
  /\ IF i > Len(ParFiles) THEN Return("eSuccess") /\ UNCHANGED parfiles
     ELSE /\ \/ parfiles' = parfiles \ {ParFiles[i]}
             \/ UNCHANGED parfiles
          /\ Turn
  /\ Works
  /\ UNCHANGED <<disk, data, fileVars, findVars, listVars, envVars>>

Finished ==
  /\ pc = "idle" /\ calls = MaxCalls
  /\ UNCHANGED vars

Process ==
  \/ \E f \in Files : ScanTarget(f) \/ VerifyClear(f) \/ VerifyAgain(f)
  \/ \E n \in ExtraNames : ScanExtra(n)
  \/ EndSource \/ EndExtra \/ Check \/ Backup \/ RenameComplete \/ Create \/ Matrix
  \/ Input \/ Output \/ EndVerify \/ DeleteIncomplete \/ PurgeBackup \/ PurgePar

Next == Call \/ LoadRecovery \/ Restart \/ Process \/ Finished

Spec == Init /\ [][Next]_vars

----------------------------------------------------------------------------
(* Properties *)

\* The type of the state: the lists, files and counts of the repairer.
TypeOK ==
  /\ disk \in [Names -> FileIds \cup {NoFile}]
  /\ filename \in [FileIds -> Names \cup {NoName}]
  /\ known \subseteq Names
  /\ completefile \in [Files -> FileIds \cup {NoFile}]
  /\ sourcefile \in [Files -> [exists : BOOLEAN, target : FileIds \cup {NoFile}]]
  /\ counts.complete \in 0..NumFiles
  /\ counts.available + counts.missing \in {0, Cardinality(Blocks)}
  /\ i \in 1..Cardinality(Blocks) + NumFiles + 1

\* RenameTargetFiles, CreateTargetFiles, DeleteIncompleteTargetFiles,
\* RemoveBackupFiles: whatever fails, and whenever the program is killed, every
\* block of a source file that was on disk at the start is still in some file on
\* disk.  The exception is a target that is there and cannot be opened: it is taken
\* for missing, and a complete version of the file is renamed over it.
BlocksKept ==
  \A b \in had \ BlocksOnDisk : \E d \in overwritten : \E p \in DOMAIN data[d] :
    data[d][p].val = Value(b) /\ data[d][p].len = Length(b)

Good(f) == On(TargetName[f]) /\ data[disk[TargetName[f]]] = Source[f]

\* Process: when it returns eSuccess every source file is on disk, right and
\* under its name.
SuccessMeansGood == result = "eSuccess" => \A f \in Files : Good(f)

\* RemoveParFiles: once a PAR2 file is deleted all source files are right, also
\* when the program is killed before the next one, and in every later process,
\* which finds fewer recovery packets or none.
ParFilesKept == parfiles # ToSet(ParFiles) => \A f \in Files : Good(f)

\* VerifyTargetFiles never finds that a rebuilt file is wrong: nothing that
\* RenameTargetFiles and CreateTargetFiles do makes ProcessData read other data
\* than the scan found.
NeverRepairFailed == result # "eRepairFailed"

\* CheckVerificationResults: a repair that is refused for want of recovery blocks
\* lacks them, also counting the blocks of targets set aside by a process that
\* was killed, but not those only in files that this process could not open or read.
NotPossibleIsTrue ==
  pc = "idle" /\ result = "eRepairNotPossible" /\ counts.missing > recovery => ~Enough(recovery)

\* Process: a repair with enough blocks to be found, in which nothing fails,
\* succeeds, whatever processes that failed or were killed before it left: backups,
\* targets created and not filled, targets that could not be deleted.
EnoughRepairs ==
  pc = "idle" /\ result # "none" /\ args.dorepair /\ enough /\ ~fault => result = "eSuccess"
=============================================================================
