---------------------------- MODULE Par1Repairer ----------------------------
(* Par1Repairer::Process: load the PAR1 volumes, verify the files, set damaged *)
(* ones aside, rename misnamed ones, create the missing ones and rebuild their *)
(* data with the Reed-Solomon matrix, verify them and delete what is no longer *)
(* needed.  Every file operation may fail, and the program may be killed       *)
(* between any two of them and be run again.                                   *)
(*                                                                             *)
(* A file is the sequence of its bytes, so that what is rebuilt is computed    *)
(* and not assumed.  MD5 is taken to tell different contents apart.  Files     *)
(* that are deleted by the code are deleted.                                   *)
EXTENDS ReedSolomon, FiniteSets, SequencesExt

CONSTANTS
  Lists,        \* file list -> its entries (name, data, inparity) and whether smartpar
                \* 1.1 wrote it, whose 16k hashes are wrong
  TheList,      \* the list of the files the user means
  MainPar,      \* the PAR file named on the command line
  OtherPars,    \* PAR files next to it
  ExtraPars,    \* PAR files among the extra files of the command line
  ExtraNames,   \* the other extra files of the command line, in order
  BackupNames,  \* name -> the names name.1, name.2, ... of its backups
  Names,        \* all names a file may have
  Scenarios,    \* the files (name -> bytes or NoFile) and PAR files (name -> content)
                \* on disk at first
  Args,         \* dorepair, purgefiles and memorylimit of a run
  MaxCalls,     \* bound: runs of the program
  MaxFaults,    \* bound: file operations that fail in one run
  NoFile, NoList

ParNames == {MainPar} \cup OtherPars \cup ExtraPars

\* A DiskFile that was opened, or created, under a name; it may be renamed later.
DiskFiles == [new : BOOLEAN, name : Names]

InParity(e) == e.inparity
SourcesOf(l) == SelectSeq(Lists[l].files, InParity)

ASSUME Par1Assumption ==
  /\ \A l \in DOMAIN Lists : \A e \in ToSet(Lists[l].files) : e.name \in DOMAIN BackupNames
  /\ ToSet(ExtraNames) \subseteq DOMAIN BackupNames
  /\ Names = DOMAIN BackupNames \cup UNION {ToSet(BackupNames[n]) : n \in DOMAIN BackupNames}
  /\ Names \cap ParNames = {}
  /\ TheList \in DOMAIN Lists
  /\ \A s \in Scenarios : DOMAIN s.par \subseteq ParNames
  /\ \A a \in Args : a.memorylimit >= 4 * Len(SourcesOf(TheList))
  /\ MaxCalls \in Nat /\ MaxFaults \in Nat

VARIABLES
  disk,           \* name -> the bytes of the file with that name, or NoFile
  par,            \* the PAR files on disk: name -> content
  args,           \* dorepair, purgefiles, memorylimit
  known,          \* the names in diskfilemap
  parlist,        \* the PAR files that were opened; their order does not matter
  todo,           \* PAR files that are still to be tried, or to be deleted
  list,           \* filelist
  sourcefiles,    \* its entries that are in the parity volumes
  blocksize,
  recoveryblocks, \* exponent -> the PAR file with that volume
  ignore16k,      \* ignore16kfilehash
  filename,       \* DiskFile -> its filename
  targetfile,     \* file number -> its target file (targetexists if there is one)
  completefile,   \* file number -> a file with its content
  backuplist, verifylist,
  matrix,         \* leftmatrix and rightmatrix
  offset,         \* blockoffset
  pc, i,          \* where Process is, and the position in its loop
  ok,             \* finalresult
  err,            \* what Process returns when the targets have been deleted
  result,         \* what Process returned
  calls,          \* how often the program was run
  start,          \* history: disk at the start of the first run, or after a purge
  purged,         \* history: this run has begun to purge
  faults,         \* history: the file operations that failed during this run
  unopened        \* history: the files some run could not open

envVars  == <<args, calls, start, table>>
parVars  == <<known, parlist, list, sourcefiles, blocksize, recoveryblocks, ignore16k>>
findVars == <<filename, targetfile, completefile>>
listVars == <<backuplist, verifylist>>
workVars == <<matrix, offset>>
histVars == <<faults, unopened, purged>>
ctrlVars == <<pc, i, ok, err, result>>
vars == <<disk, par, todo, envVars, parVars, findVars, listVars, workVars, histVars, ctrlVars>>

----------------------------------------------------------------------------
(* The source files of the set that was loaded *)

Files == 1..Len(sourcefiles)
FileName(f) == sourcefiles[f].name
Found(n) == [new |-> FALSE, name |-> n]
Created(f) == [new |-> TRUE, name |-> FileName(f)]
Content(d) == disk[filename[d]]

\* completefilecount and damagedfilecount + missingfilecount.
Complete == {f \in Files : completefile[f] # NoFile /\ completefile[f] = targetfile[f]}
Lost == {f \in Files : completefile[f] = NoFile}

Longest(l) == Max({Len(e.data) : e \in ToSet(Lists[l].files)})
LargerOf(a, b) == IF a > b THEN a ELSE b

----------------------------------------------------------------------------
(* A Par1Repairer before it has done anything *)

NoMatrix == [left |-> <<>>, right |-> <<>>]

Idle ==
  /\ known = {} /\ parlist = {} /\ todo = {MainPar}
  /\ list = NoList /\ sourcefiles = <<>>
  /\ blocksize = 0 /\ recoveryblocks = <<>> /\ ignore16k = FALSE
  /\ filename = [d \in DiskFiles |-> d.name] /\ targetfile = <<>> /\ completefile = <<>>
  /\ backuplist = <<>> /\ verifylist = <<>> /\ matrix = NoMatrix /\ offset = 0
  /\ pc = "main" /\ i = 1 /\ ok = TRUE /\ err = "none" /\ result = "none"
  /\ faults = 0 /\ purged = FALSE

Init ==
  /\ \E s \in Scenarios :
       /\ disk = [n \in Names |-> IF n \in DOMAIN s.disk THEN s.disk[n] ELSE NoFile]
       /\ par = s.par
  /\ start = disk
  /\ table = GaloisTable
  /\ unopened = {} /\ calls = 1
  /\ args \in Args
  /\ Idle

\* The program is started again, after it ended or was killed.
Restart ==
  /\ calls < MaxCalls
  /\ calls' = calls + 1
  /\ args' \in Args
  /\ known' = {} /\ parlist' = {} /\ todo' = {MainPar}
  /\ list' = NoList /\ sourcefiles' = <<>>
  /\ blocksize' = 0 /\ recoveryblocks' = <<>> /\ ignore16k' = FALSE
  /\ filename' = [d \in DiskFiles |-> d.name] /\ targetfile' = <<>> /\ completefile' = <<>>
  /\ backuplist' = <<>> /\ verifylist' = <<>> /\ matrix' = NoMatrix /\ offset' = 0
  /\ pc' = "main" /\ i' = 1 /\ ok' = TRUE /\ err' = "none" /\ result' = "none"
  /\ faults' = 0 /\ purged' = FALSE
  /\ start' = IF purged THEN disk ELSE start
  /\ UNCHANGED <<disk, par, unopened, table>>

Fault == faults < MaxFaults /\ faults' = faults + 1
Goto(place) == pc' = place /\ i' = 1 /\ UNCHANGED <<ok, err, result>>
Step == i' = i + 1 /\ UNCHANGED <<pc, ok, err, result>>
Return(r) == pc' = "done" /\ result' = r /\ UNCHANGED <<i, ok, err>>

----------------------------------------------------------------------------
(* LoadRecoveryFile *)

\* The file list, if there is none yet, and the volume of a PAR file whose control
\* hash was right.  A list with fewer entries than announced is dropped again, but not
\* what it did to blocksize.
Examine(p, r) ==
  LET size == IF list = NoList THEN LargerOf(blocksize, Longest(r.list)) ELSE blocksize IN
  /\ blocksize' = size
  /\ IF list = NoList /\ ~r.allentries
     THEN UNCHANGED <<list, sourcefiles, recoveryblocks>>
     ELSE /\ list' = r.list /\ sourcefiles' = SourcesOf(r.list)
          /\ recoveryblocks' =
               IF r.volume > 0 /\ Len(r.data) = size /\ r.volume - 1 \notin DOMAIN recoveryblocks
               THEN (r.volume - 1) :> p @@ recoveryblocks
               ELSE recoveryblocks

\* Any failure to read it is as good as a damaged file.
LoadRecoveryFile(p) ==
  \/ /\ p \in known \/ p \notin DOMAIN par
     /\ UNCHANGED <<parVars, faults>>
  \/ /\ p \in DOMAIN par \ known
     /\ Fault
     /\ UNCHANGED parVars
  \/ /\ p \in DOMAIN par \ known
     /\ known' = known \cup {p}
     /\ parlist' = parlist \cup {p}
     /\ \/ /\ Fault
           /\ ignore16k' \in {ignore16k, par[p].smart}
           /\ UNCHANGED <<list, sourcefiles, blocksize, recoveryblocks>>
        \/ /\ ignore16k' = IF par[p].header THEN par[p].smart ELSE ignore16k
           /\ IF /\ par[p].header /\ par[p].intact
                 /\ list \in {NoList, par[p].list}
              THEN Examine(p, par[p])
              ELSE UNCHANGED <<list, sourcefiles, blocksize, recoveryblocks>>
           /\ UNCHANGED faults

\* The main PAR file, then those next to it (it is among them) in the order of the
\* directory, then those on the command line.
Load ==
  /\ pc \in {"main", "others", "extras"}
  /\ \E p \in todo :
       /\ LoadRecoveryFile(p)
       /\ todo' = todo \ {p}
  /\ UNCHANGED <<disk, par, envVars, findVars, listVars, workVars, unopened, purged, ctrlVars>>

Loaded ==
  /\ todo = {}
  /\ \/ pc = "main" /\ Goto("others") /\ todo' = OtherPars \cup {MainPar} /\ UNCHANGED findVars
     \/ pc = "others" /\ Goto("extras") /\ todo' = ExtraPars /\ UNCHANGED findVars
     \/ /\ pc = "extras" /\ Goto("verify")
        /\ targetfile' = [f \in Files |-> NoFile]
        /\ completefile' = [f \in Files |-> NoFile]
        /\ UNCHANGED <<todo, filename>>
  /\ UNCHANGED <<disk, par, envVars, parVars, listVars, workVars, histVars>>

----------------------------------------------------------------------------
(* VerifySourceFiles and VerifyExtraFiles *)

\* Mutant: the size is enough.
MatchingSize(bytes) == {g \in Files : bytes # <<>> /\ Len(bytes) = Len(sourcefiles[g].data)}

\* VerifyDataFile: the file number that bytes, found under the name of file f (0 for
\* an extra file), are the content of, or 0.  Its own file comes first, then one that no
\* file was found for.
Matching(bytes) ==
  {g \in Files : bytes # <<>> /\ bytes = sourcefiles[g].data
                  /\ (ignore16k \/ ~Lists[list].smart)}
VerifyDataFile(bytes, f, complete) ==
  LET free == {g \in Matching(bytes) : complete[g] = NoFile}
  IN  IF f \in Matching(bytes) THEN f ELSE IF free = {} THEN 0 ELSE Min(free)

\* The file is only read if one of the source files has its size.
MayFail(bytes) == bytes # <<>> /\ \E g \in Files : Len(sourcefiles[g].data) = Len(bytes)

SetComplete(complete, g, d) == IF g = 0 THEN complete ELSE [complete EXCEPT ![g] = d]

VerifySourceFile ==
  /\ pc = "verify" /\ i \in Files
  /\ i' = i + 1
  /\ LET n == FileName(i) IN
     \/ /\ n \in known
        /\ ok' = FALSE
        /\ UNCHANGED <<known, targetfile, completefile, histVars>>
     \/ /\ n \notin known /\ disk[n] = NoFile
        /\ UNCHANGED <<known, targetfile, completefile, ok, histVars>>
     \/ /\ n \notin known /\ disk[n] # NoFile
        /\ Fault /\ unopened' = unopened \cup {n} /\ UNCHANGED purged
        /\ UNCHANGED <<known, targetfile, completefile, ok>>
     \/ /\ n \notin known /\ disk[n] # NoFile
        /\ known' = known \cup {n}
        /\ targetfile' = [targetfile EXCEPT ![i] = Found(n)]
        /\ \/ /\ MayFail(disk[n])
              /\ ok' = FALSE /\ Fault
              /\ UNCHANGED completefile
           \/ /\ completefile' = SetComplete(completefile, VerifyDataFile(disk[n], i, completefile),
                                            Found(n))
              /\ UNCHANGED <<ok, faults>>
        /\ UNCHANGED <<unopened, purged>>
  /\ UNCHANGED <<disk, par, todo, envVars, parlist, list, sourcefiles, blocksize, recoveryblocks,
                 ignore16k,
                 filename, listVars, workVars, pc, err, result>>

VerifySourceFiles ==
  /\ pc = "verify" /\ i \notin Files
  /\ IF ~ok THEN Return("eFileIOError")
     ELSE IF Complete # Files THEN Goto("scan") ELSE Goto("check")
  /\ UNCHANGED <<disk, par, todo, envVars, parVars, findVars, listVars, workVars, histVars>>

\* Errors are ignored.
VerifyExtraFile ==
  /\ pc = "scan" /\ i \in DOMAIN ExtraNames /\ Complete # Files
  /\ Step
  /\ LET n == ExtraNames[i] IN
     \/ /\ n \in known \/ disk[n] = NoFile
        /\ UNCHANGED <<known, completefile, histVars>>
     \/ /\ n \notin known /\ disk[n] # NoFile
        /\ Fault /\ unopened' = unopened \cup {n} /\ UNCHANGED purged
        /\ UNCHANGED <<known, completefile>>
     \/ /\ n \notin known /\ disk[n] # NoFile
        /\ known' = known \cup {n}
        /\ \/ /\ MayFail(disk[n])
              /\ Fault
              /\ UNCHANGED completefile
           \/ /\ completefile' = SetComplete(completefile, VerifyDataFile(disk[n], 0, completefile),
                                            Found(n))
              /\ UNCHANGED faults
        /\ UNCHANGED <<unopened, purged>>
  /\ UNCHANGED <<disk, par, todo, envVars, parlist, list, sourcefiles, blocksize, recoveryblocks,
                 ignore16k,
                 filename, targetfile, listVars, workVars>>

VerifyExtraFiles ==
  /\ pc = "scan"
  /\ i \notin DOMAIN ExtraNames \/ Complete = Files
  /\ Goto("check")
  /\ UNCHANGED <<disk, par, todo, envVars, parVars, findVars, listVars, workVars, histVars>>

\* Mutant: one recovery block more than necessary is asked for.
CheckStrict ==
  /\ pc = "check"
  /\ IF Complete = Files THEN Goto("purge")
     ELSE IF Cardinality(DOMAIN recoveryblocks) <= Cardinality(Lost)
          THEN Return("eRepairNotPossible")
     ELSE IF args.dorepair THEN Goto("aside") ELSE Return("eRepairPossible")
  /\ UNCHANGED <<disk, par, todo, envVars, parVars, findVars, listVars, workVars, histVars>>

\* CheckVerificationResults and the decisions of Process that follow it.
CheckVerificationResults ==
  /\ pc = "check"
  /\ IF Complete = Files THEN Goto("purge")
     ELSE IF Cardinality(DOMAIN recoveryblocks) < Cardinality(Lost)
          THEN Return("eRepairNotPossible")
     ELSE IF args.dorepair THEN Goto("aside") ELSE Return("eRepairPossible")
  /\ UNCHANGED <<disk, par, todo, envVars, parVars, findVars, listVars, workVars, histVars>>

----------------------------------------------------------------------------
(* RenameTargetFiles and CreateTargetFiles *)

\* DiskFile::Rename: what had the new name is gone.
Moved(d, to) == [disk EXCEPT ![filename[d]] = NoFile, ![to] = Content(d)]

\* Mutant: the first of them, in use or not.
FirstName(n) == BackupNames[n][1]

\* DiskFile::Rename(void): the first of name.1, name.2, ... that is not in use.
FreeName(n) ==
  LET free == {k \in DOMAIN BackupNames[n] : disk[BackupNames[n][k]] = NoFile}
  IN  BackupNames[n][Min(free)]

\* A step of RenameTargetFiles or CreateTargetFiles that fails.
GiveUp ==
  /\ Return("eFileIOError")
  /\ UNCHANGED <<disk, filename, targetfile, backuplist, verifylist, unopened, purged>>

RenameAside ==
  /\ pc = "aside" /\ i \in Files
  /\ \/ /\ targetfile[i] \in {NoFile, completefile[i]}
        /\ Step
        /\ UNCHANGED <<disk, filename, targetfile, backuplist, histVars, known>>
     \/ /\ targetfile[i] \notin {NoFile, completefile[i]}
        /\ \/ GiveUp /\ Fault /\ known' = known \ {filename[targetfile[i]]}
           \/ /\ Step
              /\ LET d == targetfile[i]
                     to == FreeName(filename[d])
                 IN  /\ disk' = Moved(d, to)
                     /\ filename' = [filename EXCEPT ![d] = to]
                     /\ known' = (known \ {filename[d]}) \cup {to}
                     /\ backuplist' = Append(backuplist, d)
              /\ targetfile' = [targetfile EXCEPT ![i] = NoFile]
              /\ UNCHANGED histVars
  /\ UNCHANGED <<par, todo, envVars, parlist, list, sourcefiles, blocksize, recoveryblocks,
                 ignore16k,
                 completefile, verifylist, workVars>>

RenameIntoPlace ==
  /\ pc = "rename" /\ i \in Files
  /\ \/ /\ targetfile[i] # NoFile \/ completefile[i] = NoFile
        /\ Step
        /\ UNCHANGED <<disk, filename, targetfile, histVars, known>>
     \/ /\ targetfile[i] = NoFile /\ completefile[i] # NoFile
        /\ \/ GiveUp /\ Fault /\ known' = known \ {filename[completefile[i]]}
           \/ /\ Step
              /\ LET d == completefile[i] IN
                    /\ disk' = Moved(d, FileName(i))
                    /\ filename' = [filename EXCEPT ![d] = FileName(i)]
                    /\ known' = (known \ {filename[d]}) \cup {FileName(i)}
                    /\ targetfile' = [targetfile EXCEPT ![i] = d]
              /\ UNCHANGED histVars
  /\ UNCHANGED <<par, todo, envVars, parlist, list, sourcefiles, blocksize, recoveryblocks,
                 ignore16k,
                 completefile, backuplist, verifylist, workVars>>

RenameTargetFiles ==
  /\ pc \in {"aside", "rename"} /\ i \notin Files
  /\ IF pc = "aside" THEN Goto("rename")
     ELSE IF Complete # Files THEN Goto("create") ELSE Goto("finish")
  /\ UNCHANGED <<disk, par, todo, envVars, parVars, findVars, listVars, workVars, histVars>>

\* A new file is full of zeros; a file that is there already is never replaced.
CreateTargetFile ==
  /\ pc = "create" /\ i \in Files
  /\ \/ /\ targetfile[i] # NoFile
        /\ Step
        /\ UNCHANGED <<disk, targetfile, verifylist, histVars, known>>
     \/ /\ targetfile[i] = NoFile
        /\ \/ GiveUp /\ Fault /\ UNCHANGED known
           \/ /\ disk[FileName(i)] # NoFile
              /\ GiveUp
              /\ UNCHANGED <<known, faults>>
           \/ /\ disk[FileName(i)] = NoFile
              /\ Step
              /\ disk' = [disk EXCEPT ![FileName(i)] = [b \in 1..Len(sourcefiles[i].data) |-> 0]]
              /\ targetfile' = [targetfile EXCEPT ![i] = Created(i)]
              /\ known' = known \cup {FileName(i)}
              /\ verifylist' = Append(verifylist, i)
              /\ UNCHANGED histVars
  /\ UNCHANGED <<par, todo, envVars, parlist, list, sourcefiles, blocksize, recoveryblocks,
                 ignore16k,
                 filename, completefile, backuplist, workVars>>

CreateTargetFiles ==
  /\ pc = "create" /\ i \notin Files
  /\ Goto("matrix")
  /\ UNCHANGED <<disk, par, todo, envVars, parVars, findVars, listVars, workVars, histVars>>

----------------------------------------------------------------------------
(* ComputeRSmatrix, AllocateBuffers and ProcessData *)

Ascending(S) == SetToSortSeq(S, <)

\* The recovery blocks with the lowest exponents, as many as files are lost.
Exponents == SubSeq(Ascending(DOMAIN recoveryblocks), 1, Cardinality(Lost))

\* inputblocks: the files that were found, then those recovery blocks.
InputBlocks ==
  LET present == Ascending(Files \ Lost) IN
  [k \in 1..Len(present) |-> Content(completefile[present[k]])]
    \o [k \in 1..Len(Exponents) |-> par[recoveryblocks[Exponents[k]]].data]

\* The targets that were created are to be deleted, and the error returned.
CleanUp(r) == pc' = "delete" /\ i' = 1 /\ err' = r /\ UNCHANGED <<ok, result>>

\* A file that cannot be opened, read or written while the data is rebuilt.
RebuildFails == Fault /\ CleanUp("eFileIOError")

\* The next of those targets; a failure to delete it is ignored.
DeleteIncompleteTargetFile ==
  /\ pc = "delete" /\ i \in DOMAIN verifylist
  /\ LET n == FileName(verifylist[i]) IN
     /\ \/ disk' = [disk EXCEPT ![n] = NoFile] /\ UNCHANGED faults
        \/ Fault /\ UNCHANGED disk
     /\ known' = known \ {n}
  /\ targetfile' = [targetfile EXCEPT ![verifylist[i]] = NoFile]
  /\ Step
  /\ UNCHANGED <<par, todo, envVars, parlist, list, sourcefiles, blocksize, recoveryblocks,
                 ignore16k,
                 filename, completefile, listVars, workVars, unopened, purged>>

DeleteIncompleteTargetFiles ==
  /\ pc = "delete" /\ i \notin DOMAIN verifylist
  /\ Return(err)
  /\ UNCHANGED <<disk, par, todo, envVars, parVars, findVars, listVars, workVars, histVars>>

\* The matrix has a row and a recovery block for every lost file.
ComputeRSmatrix ==
  /\ pc = "matrix"
  /\ \/ RebuildFails /\ UNCHANGED matrix
     \/ /\ matrix' = Matrices(Ascending(Files \ Lost), Ascending(Lost), Exponents)
        /\ Goto("solve")
        /\ UNCHANGED faults
  /\ UNCHANGED <<disk, par, todo, envVars, parVars, findVars, listVars, offset, unopened, purged>>

\* Solve one row at a time.  A pivot of zero is an "RS computation error"; with assertions
\* compiled in the program ends there instead, as if it were killed.
SolveRow ==
  /\ pc = "solve" /\ i \in DOMAIN matrix.right
  /\ IF matrix.right[i][i] = 0
     THEN CleanUp("eFileIOError") /\ UNCHANGED matrix
     ELSE matrix' = GaussElim(matrix, i) /\ Step
  /\ UNCHANGED <<disk, par, todo, envVars, parVars, findVars, listVars, offset, histVars>>

Solved ==
  /\ pc = "solve" /\ i \notin DOMAIN matrix.right
  /\ Goto("process")
  /\ UNCHANGED <<disk, par, todo, envVars, parVars, findVars, listVars, workVars, histVars>>

chunksize ==
  LET part == args.memorylimit \div Len(verifylist)
  IN  IF blocksize * Len(verifylist) > args.memorylimit THEN part - (part % 4) ELSE blocksize

\* DataBlock::ReadData: zeros beyond the end of the block.
ReadByte(bytes, b) == IF b <= Len(bytes) THEN bytes[b] ELSE 0

\* One pass: the bytes from blockoffset on, blocklength of them, of all output blocks.
\* DataBlock::WriteData stops at the end of the block.
Written(inputs, blocklength) ==
  [n \in Names |->
     IF \A k \in DOMAIN verifylist : n # FileName(verifylist[k]) THEN disk[n]
     ELSE LET k == CHOOSE k \in DOMAIN verifylist : n = FileName(verifylist[k]) IN
          [b \in DOMAIN disk[n] |->
             IF b \in offset + 1 .. offset + blocklength
             THEN Combine(matrix.left[k], [x \in DOMAIN inputs |-> ReadByte(inputs[x], b)])
             ELSE disk[n][b]]]

ProcessData ==
  /\ pc = "process" /\ offset < blocksize
  /\ \/ RebuildFails /\ UNCHANGED <<disk, offset>>
     \/ /\ LET blocklength == Min({chunksize, blocksize - offset}) IN
           /\ \E inputs \in {InputBlocks} : disk' = Written(inputs, blocklength)
           /\ offset' = offset + blocklength
        /\ UNCHANGED <<faults, ctrlVars>>
  /\ UNCHANGED <<par, todo, envVars, parVars, findVars, listVars, matrix, unopened, purged>>

DataProcessed ==
  /\ pc = "process" /\ offset = blocksize
  /\ Goto("verifytarget")
  /\ UNCHANGED <<disk, par, todo, envVars, parVars, findVars, listVars, workVars, histVars>>

----------------------------------------------------------------------------
(* VerifyTargetFiles and the end of Process *)

\* What was written last is lost when the file is closed, and nobody is told.
Cut(bytes) == [bytes EXCEPT ![Len(bytes)] = 0]

VerifyTargetFile ==
  /\ pc = "verifytarget" /\ i \in DOMAIN verifylist
  /\ LET f == verifylist[i]
         complete == [completefile EXCEPT ![f] = NoFile]
         bytes == disk[FileName(f)]
     IN  \/ /\ Fault                                   \* it cannot be opened or read
            /\ ok' = FALSE
            /\ completefile' = complete
            /\ UNCHANGED disk
         \/ /\ Fault /\ bytes # <<>>
            /\ disk' = [disk EXCEPT ![FileName(f)] = Cut(bytes)]
            /\ completefile' = SetComplete(complete, VerifyDataFile(Cut(bytes), f, complete),
                                           targetfile[f])
            /\ UNCHANGED ok
         \/ /\ completefile' = SetComplete(complete, VerifyDataFile(bytes, f, complete),
                                           targetfile[f])
            /\ UNCHANGED <<disk, ok, faults>>
  /\ i' = i + 1
  /\ UNCHANGED <<par, todo, envVars, parVars, filename, targetfile, listVars, workVars, unopened,
                 purged, pc, err, result>>

VerifyTargetFiles ==
  /\ pc = "verifytarget" /\ i \notin DOMAIN verifylist
  /\ IF ok THEN Goto("finish") ELSE CleanUp("eFileIOError")
  /\ UNCHANGED <<disk, par, todo, envVars, parVars, findVars, listVars, workVars, histVars>>

Finish ==
  /\ pc = "finish"
  /\ IF Complete # Files THEN Return("eRepairFailed") ELSE Goto("purge")
  /\ UNCHANGED <<disk, par, todo, envVars, parVars, findVars, listVars, workVars, histVars>>

\* The next backup is deleted under the name it has now; a failure is ignored.
RemoveBackupFile ==
  /\ pc = "purge" /\ args.purge /\ i \in DOMAIN backuplist
  /\ \/ disk' = [disk EXCEPT ![filename[backuplist[i]]] = NoFile] /\ UNCHANGED faults
     \/ Fault /\ UNCHANGED disk
  /\ purged' = TRUE
  /\ Step
  /\ UNCHANGED <<par, todo, envVars, parVars, findVars, listVars, workVars, unopened>>

RemoveBackupFiles ==
  /\ pc = "purge"
  /\ \/ ~args.purge /\ Return("eSuccess") /\ UNCHANGED <<todo, purged>>
     \/ /\ args.purge /\ i \notin DOMAIN backuplist
        /\ Goto("purgepar") /\ todo' = parlist /\ purged' = TRUE
  /\ UNCHANGED <<disk, par, envVars, parVars, findVars, listVars, workVars, faults, unopened>>

\* Then the PAR files that were opened, unless one cannot be opened or deleted now.
RemoveParFile ==
  /\ pc = "purgepar"
  /\ \E p \in todo :
       /\ \/ par' = Restrict(par, DOMAIN par \ {p}) /\ UNCHANGED faults
          \/ Fault /\ UNCHANGED par
       /\ todo' = todo \ {p}
  /\ UNCHANGED <<disk, envVars, parVars, findVars, listVars, workVars, unopened, purged, ctrlVars>>

RemoveParFiles ==
  /\ pc = "purgepar" /\ todo = {}
  /\ Return("eSuccess")
  /\ UNCHANGED <<disk, par, todo, envVars, parVars, findVars, listVars, workVars, histVars>>

Work ==
  \/ Load \/ Loaded \/ VerifySourceFile \/ VerifySourceFiles \/ VerifyExtraFile
  \/ VerifyExtraFiles \/ CheckVerificationResults \/ RenameAside \/ RenameIntoPlace
  \/ RenameTargetFiles \/ CreateTargetFile \/ CreateTargetFiles \/ ComputeRSmatrix \/ SolveRow \/ Solved
  \/ ProcessData \/ DataProcessed \/ VerifyTargetFile \/ VerifyTargetFiles
  \/ DeleteIncompleteTargetFile \/ DeleteIncompleteTargetFiles \/ Finish
  \/ RemoveBackupFile \/ RemoveBackupFiles \/ RemoveParFile \/ RemoveParFiles

Next == Work \/ Restart
Spec == Init /\ [][Next]_vars

----------------------------------------------------------------------------
(* Properties *)

Results == {"none", "eSuccess", "eRepairPossible", "eRepairNotPossible", "eRepairFailed",
            "eFileIOError"}

\* The type of the state.
TypeOK ==
  /\ DOMAIN disk = Names /\ DOMAIN par \subseteq ParNames /\ args \in Args
  /\ known \subseteq Names \cup ParNames /\ parlist \cup todo \subseteq ParNames
  /\ list \in DOMAIN Lists \cup {NoList} /\ Len(sourcefiles) <= Limit /\ blocksize \in Nat
  /\ ToSet(recoveryblocks) \subseteq ParNames /\ ignore16k \in BOOLEAN
  /\ filename \in [DiskFiles -> Names]
  /\ ToSet(targetfile) \cup ToSet(completefile) \subseteq DiskFiles \cup {NoFile}
  /\ ToSet(backuplist) \subseteq DiskFiles /\ ToSet(verifylist) \subseteq Files
  /\ Len(matrix.left) \in {0, Len(verifylist)} /\ offset \in 0..blocksize
  /\ ok \in BOOLEAN /\ {err, result} \subseteq Results /\ calls \in 1..MaxCalls
  /\ faults \in 0..MaxFaults /\ unopened \subseteq Names

\* A backup that was renamed into place as the complete copy of another file stays on
\* backuplist.
Swapped == \E f \in DOMAIN targetfile : targetfile[f] \in ToSet(backuplist)

\* When Process begins to purge, or returns eSuccess, after a file list was found,
\* every file of that list that is in the parity volumes is on disk under its name with
\* its content.  This is left out: files set aside and then renamed into place are
\* purged with the backups.
SuccessMeansGood ==
  (result = "eSuccess" \/ purged) /\ list # NoList /\ ~(args.purge /\ Swapped)
    => \A f \in Files : disk[FileName(f)] = sourcefiles[f].data

\* Whatever fails and whenever the program is killed, the content of every file that
\* was there at the start is still on disk, under some name, until a run that repaired
\* everything purges.  A file that exists but cannot be opened counts as missing, and a
\* copy that is renamed into its place replaces it.
FilesKept ==
  ~purged
    => \A n \in Names \ unopened : start[n] # NoFile => \E m \in Names : disk[m] = start[n]

\* A list that names a file twice is refused.
Ambiguous == \E f, g \in Files : f # g /\ FileName(f) = FileName(g)

\* The rows are solved from the first on and never exchanged: that fails if the first k
\* volumes in use say too little about the first k lost files, for some k.
Singular ==
  LET right == Matrices(<<>>, Ascending(Lost), Exponents).right IN
  \E k \in DOMAIN right : \E x \in [1..k -> 0..Limit] :
    /\ \E col \in 1..k : x[col] # 0
    /\ \A row \in 1..k : Combine(x, SubSeq(right[row], 1, k)) = 0

\* VerifyDataFile accepts no file that is empty, and none at all if smartpar 1.1 made the
\* list and another program the PAR file that was read last.
Recognised(f) == sourcefiles[f].data # <<>> /\ (ignore16k \/ ~Lists[list].smart)

\* If all file operations of a run work, it does not end with an error: it repairs
\* whatever it said it can repair, also after an earlier run was killed or failed
\* half-way.  The exceptions are a list that names a file twice, a file that is not
\* recognised even when it is right, and a matrix that cannot be solved.
RepairWorks ==
  result \in {"eFileIOError", "eRepairFailed"}
    => faults > 0 \/ Ambiguous \/ (\E f \in Files : ~Recognised(f)) \/ Singular

\* The volumes on disk that belong to the list that was loaded.
Volumes == {par[p].volume : p \in {q \in DOMAIN par : par[q].header /\ par[q].intact
                                                     /\ par[q].list = list
                                                     /\ par[q].volume > 0}}

Examined == {FileName(f) : f \in Files} \cup ToSet(ExtraNames)
Distinct == \A f, g \in Files : sourcefiles[f].data = sourcefiles[g].data => f = g

\* "Repair is not possible" is only said, in a run without failures, if fewer volumes
\* of the set are on disk than files have no complete copy, or none that is recognised,
\* among the files examined.  Left out are sets with two equal files, as a copy under
\* the name of one can be credited to both, and a block size taken from a list that
\* was dropped, with which no volume is accepted.
VerdictTrue ==
  result = "eRepairNotPossible" /\ faults = 0 /\ Distinct /\ blocksize = Longest(list)
    => Cardinality({f \in Files : ~Recognised(f)
                                   \/ \A n \in Examined : disk[n] # sourcefiles[f].data})
         > Cardinality(Volumes)
=============================================================================
