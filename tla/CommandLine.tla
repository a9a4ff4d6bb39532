---------------------------- MODULE CommandLine ----------------------------
(* CommandLine::Parse: the arguments are read one at a time, the values that   *)
(* were not given get their defaults, and for a creation the block size and    *)
(* the number of recovery blocks are computed. The format's limits are         *)
(* parameters; an argument is a record with its letter and its value, and the  *)
(* value Bad stands for text that is not a number. A file is a record of what  *)
(* the code asks about it: whether it is there, its size, and the base paths   *)
(* that its canonical name contains.                                           *)
EXTENDS RecoveryFiles, Bags, SequencesExt

CONSTANTS
  Calls,            \* the calls: an operation, its possible arguments, how many
  MaxSourceBlocks,  \* 32768
  TargetBlocks,     \* 2000
  Word,             \* 2^32, the width of u32
  Megabyte,         \* 1048576
  LongWord,         \* the width of size_t: 2^64, or 2^32 where a pointer has 32 bits
  Narrow,           \* a pointer has 32 bits
  Physical          \* the megabytes of memory the system may report, 0 unknown

VARIABLES
  call,    \* the call being parsed
  opt,     \* the members of CommandLine that ReadArgs sets
  options, \* ReadArgs: options are still recognised
  given,   \* the options read so far, each with how often
  nargs,   \* the number of arguments read
  extrafiles,
  search,  \* ComputeBlockSize: the bounds of its search
  sourceblockcount,
  pc, result, reason

argVars == <<opt, options, given, nargs>>
sizeVars == <<extrafiles, search, sourceblockcount>>
vars == <<call, argVars, sizeVars, pc, result, reason>>

Bad == -1
NoName == [name |-> <<>>, as |-> "nothing", version |-> "unknown"]
NoSearch == [lower |-> 0, upper |-> 0, size |-> 0, count |-> 0]
MaxRecoveryBlocks == 2 * MaxSourceBlocks
MaxFiles == 31
DefaultMemory == 256
NarrowMemory == 1024
DefaultLeaway == 64

CommandLine ==
  [par |-> NoName, noise |-> "unknown", memorylimit |-> 0, basepath |-> "",
   nthreads |-> 0, filethreads |-> 2, purgefiles |-> FALSE, renameonly |-> FALSE,
   skipdata |-> FALSE, skipleaway |-> 0, blockcount |-> 0, blocksize |-> 0,
   firstblock |-> 0, scheme |-> "unknown", recoveryfilecount |-> 0,
   recoveryblockcount |-> 0, recoveryblockcountset |-> FALSE, redundancy |-> 0,
   redundancysize |-> 0, redundancyset |-> FALSE, recursive |-> FALSE, raw |-> <<>>]

Init ==
  /\ call \in Calls
  /\ opt = CommandLine /\ options = TRUE /\ given = EmptyBag /\ nargs = 0
  /\ extrafiles = <<>> /\ search = NoSearch /\ sourceblockcount = 0
  /\ pc = "args" /\ result = "none" /\ reason = "none"

creating == call.operation = "create"

Finish(r, why) == pc' = "done" /\ result' = r /\ reason' = why
Refuse(why) == Finish("false", why)

----------------------------------------------------------------------------
(* ReadArgs: the options *)

Recognise(o) == given' = given (+) SetToBag({o}) /\ UNCHANGED <<call, options, sizeVars>>
Take(o, new) == Recognise(o) /\ opt' = new /\ UNCHANGED <<pc, result, reason>>
Reject(o) == Recognise(o) /\ Refuse("option") /\ UNCHANGED opt

\* The parse goes on with the new values or ends.
Read(o, ok, new) == IF ok THEN Take(o, new) ELSE Reject(o)

BlockCount(o) ==
  Read(o, /\ creating /\ opt.blockcount = 0 /\ opt.blocksize = 0
          /\ o.n \in 1..MaxSourceBlocks,
       [opt EXCEPT !.blockcount = o.n])

\* The loops over the digits of -s and -S stop at a value that one more digit may take
\* out of a u32, and digits that are left over make the option invalid.
DigitsRead(n) == n \div 10 <= Word \div 10

BlockSize(o) ==
  Read(o, /\ creating /\ opt.blocksize = 0 /\ opt.blockcount = 0
          /\ o.n > 0 /\ DigitsRead(o.n) /\ o.n % 4 = 0,
       [opt EXCEPT !.blocksize = o.n])

Threads(o) == Read(o, o.n > 0 /\ o.n % Word # 0, [opt EXCEPT !.nthreads = o.n % Word])
FileThreads(o) == Read(o, o.n > 0 /\ o.n % Word # 0, [opt EXCEPT !.filethreads = o.n % Word])

\* A percentage. The digits are read into a u32 whatever their number.
Redundancy(o) ==
  Read(o, /\ creating /\ ~opt.redundancyset /\ ~opt.recoveryblockcountset
          /\ o.n # Bad
          /\ ~(o.n % Word = 0 /\ opt.recoveryfilecount > 0),
       [opt EXCEPT !.redundancy = o.n % Word, !.redundancyset = TRUE])

\* A size in kilo-, mega- or gigabytes; what follows the digits is ignored.
RedundancySize(o) ==
  Read(o, creating /\ ~opt.redundancyset /\ ~opt.recoveryblockcountset,
       [opt EXCEPT !.redundancysize = o.n * o.unit, !.redundancyset = TRUE])

RecoveryCount(o) ==
  Read(o, /\ creating /\ ~opt.recoveryblockcountset /\ ~opt.redundancyset
          /\ o.n \in 0..MaxSourceBlocks
          /\ ~(o.n = 0 /\ opt.recoveryfilecount > 0),
       [opt EXCEPT !.recoveryblockcount = o.n, !.recoveryblockcountset = TRUE])

FirstBlock(o) ==
  Read(o, creating /\ opt.firstblock = 0 /\ o.n \in 0..MaxSourceBlocks,
       [opt EXCEPT !.firstblock = o.n])

Uniform(o) ==
  Read(o, creating /\ opt.scheme \in {"unknown", "uniform"}, [opt EXCEPT !.scheme = "uniform"])

Limited(o) ==
  Read(o, creating /\ opt.scheme = "unknown" /\ opt.recoveryfilecount = 0,
       [opt EXCEPT !.scheme = "limited"])

\* A bug to check the properties with: the scheme that was chosen is not looked at.
FileCountAnyScheme(o) ==
  Read(o, /\ creating /\ opt.recoveryfilecount = 0
          /\ ~(opt.recoveryblockcountset /\ opt.recoveryblockcount = 0)
          /\ o.n # Bad /\ o.n % Word \in 1..MaxFiles,
       [opt EXCEPT !.recoveryfilecount = o.n % Word, !.scheme = "uniform"])

\* A number of files also chooses files of the same size.
FileCount(o) ==
  Read(o, /\ creating /\ opt.recoveryfilecount = 0
          /\ ~(opt.recoveryblockcountset /\ opt.recoveryblockcount = 0)
          /\ opt.scheme # "limited"
          /\ o.n # Bad /\ o.n % Word \in 1..MaxFiles,
       [opt EXCEPT !.recoveryfilecount = o.n % Word, !.scheme = "uniform"])

Memory(o) ==
  Read(o, opt.memorylimit = 0 /\ o.n # Bad /\ o.n % LongWord # 0,
       [opt EXCEPT !.memorylimit = o.n % LongWord])

\* -v and -vv, -q and -qq: a second one has the effect of the double letter.
Noise(o, once, twice) ==
  Read(o, opt.noise \in {"unknown", once, twice},
       [opt EXCEPT !.noise = IF opt.noise = "unknown" /\ o.n = 1 THEN once ELSE twice])

Purge(o) == Read(o, ~creating, [opt EXCEPT !.purgefiles = TRUE])
RenameOnly(o) == Read(o, ~creating, [opt EXCEPT !.renameonly = TRUE])
Recursive(o) == Read(o, creating, [opt EXCEPT !.recursive = TRUE])
SkipData(o) == Read(o, ~creating, [opt EXCEPT !.skipdata = TRUE])

\* The digits are appended to those of an earlier -S; -N must come before it.
SkipLeaway(o) ==
  LET n == opt.skipleaway * 10 ^ o.digits + o.n
  IN  Read(o, /\ ~creating /\ opt.skipdata
              /\ o.n # Bad /\ n > 0 /\ (o.digits > 0 => DigitsRead(n)),
           [opt EXCEPT !.skipleaway = n])

BasePath(o) == Take(o, [opt EXCEPT !.basepath = o.base])

\* -h, an unknown letter, or a word that starts with two dashes.
Unknown(o) == Reject(o)

----------------------------------------------------------------------------
(* SetParFilename *)

\* What a name gives: for a creation itself; otherwise its ending tells the version,
\* and a name without a known ending is a data file with a PAR file beside it.
ParFilename(a) ==
  LET byEnding == CASE a.ending = "par2" -> [name |-> a, as |-> "itself", version |-> "par2"]
                    [] a.ending = "par"  -> [name |-> a, as |-> "itself", version |-> "par1"]
                    [] OTHER             -> opt.par
      beside == byEnding.version = "unknown" /\ a.beside # "none"
  IN  IF creating THEN [par |-> [name |-> a, as |-> "itself", version |-> "par2"], ok |-> TRUE]
      ELSE IF beside
      THEN [ok |-> TRUE, par |-> [name |-> a, as |-> "beside",
              version |-> IF a.beside = "par2" THEN "par2" ELSE "par1"]]
      ELSE [par |-> byEnding, ok |-> a.ending # "none" /\ a.file.there]

SetParFilename(a) ==
  /\ IF ~a.wildcard /\ ParFilename(a).ok
     THEN opt' = [opt EXCEPT !.par = ParFilename(a).par] /\ UNCHANGED <<pc, result, reason>>
     ELSE Refuse("name") /\ UNCHANGED opt
  /\ UNCHANGED <<call, given, sizeVars>>

----------------------------------------------------------------------------
(* ReadArgs: the words that are not options *)

\* The first word is the PAR file, unless -a has named it; the files that the others
\* match are the files to work on. A word ends the options.
NameWord(w) ==
  /\ options' = FALSE
  /\ IF opt.par.as = "nothing" THEN SetParFilename(w)
     ELSE /\ opt' = [opt EXCEPT !.raw = @ \o w.files]
          /\ UNCHANGED <<call, given, sizeVars, pc, result, reason>>

\* The files of a list, which does not end the options.
ListFile(l) ==
  /\ IF l.opens THEN opt' = [opt EXCEPT !.raw = @ \o l.files] /\ UNCHANGED <<pc, result, reason>>
     ELSE Refuse("list") /\ UNCHANGED opt
  /\ UNCHANGED <<call, options, given, sizeVars>>

\* A double dash ends the options.
EndOptions ==
  options' = FALSE /\ UNCHANGED <<call, opt, given, sizeVars, pc, result, reason>>

\* An option that comes too late is a word; there is no file of that name.
NoFile == [id |-> 0, size |-> 0, there |-> FALSE, under |-> {}]
AsWord == [ending |-> "none", beside |-> "none", wildcard |-> FALSE, file |-> NoFile, files |-> <<>>]

Option(o) ==
  \/ o.o = "a" /\ SetParFilename(o) /\ UNCHANGED options
  \/ o.o = "b" /\ BlockCount(o)
  \/ o.o = "s" /\ BlockSize(o)
  \/ o.o = "t" /\ Threads(o)
  \/ o.o = "T" /\ FileThreads(o)
  \/ o.o = "r" /\ Redundancy(o)
  \/ o.o = "rk" /\ RedundancySize(o)
  \/ o.o = "c" /\ RecoveryCount(o)
  \/ o.o = "f" /\ FirstBlock(o)
  \/ o.o = "u" /\ Uniform(o)
  \/ o.o = "l" /\ Limited(o)
  \/ o.o = "n" /\ FileCount(o)
  \/ o.o = "m" /\ Memory(o)
  \/ o.o = "v" /\ Noise(o, "noisy", "debug")
  \/ o.o = "q" /\ Noise(o, "quiet", "silent")
  \/ o.o = "p" /\ Purge(o)
  \/ o.o = "O" /\ RenameOnly(o)
  \/ o.o = "R" /\ Recursive(o)
  \/ o.o = "N" /\ SkipData(o)
  \/ o.o = "S" /\ SkipLeaway(o)
  \/ o.o = "B" /\ BasePath(o)
  \/ o.o = "--" /\ EndOptions
  \/ o.o = "?" /\ Unknown(o)

ReadArg ==
  /\ pc = "args" /\ nargs < call.maxargs
  /\ nargs' = nargs + 1
  /\ \E a \in call.args :
       \/ a.o = "word" /\ NameWord(a)
       \/ a.o = "list" /\ ListFile(a)
       \/ a.o \notin {"word", "list"} /\ options /\ Option(a)
       \/ a.o \notin {"word", "list"} /\ ~options /\ NameWord(AsWord)

EndArgs == pc = "args" /\ pc' = "check"
             /\ UNCHANGED <<call, argVars, sizeVars, result, reason>>

----------------------------------------------------------------------------
(* CheckValuesAndSetDefaults *)

Multiple4(n) == 4 * Ceil(n, 4)
GreatestOf(a, b) == IF a > b THEN a ELSE b
TotalSize(fs) == FoldLeft(LAMBDA sum, f : sum + f.size, 0, fs)
LargestFileSize(fs) == Max({f.size : f \in ToSet(fs)})

Usable(f, basepath) == f.there /\ basepath \in f.under /\ f.size > 0

\* The files named on the command line, each once, where it is named first.
ExtraFiles(basepath) ==
  LET First(n) == \A k \in 1 .. n - 1 : opt.raw[k] # opt.raw[n]
      Kept(n)  == IF Usable(opt.raw[n], basepath) /\ First(n) THEN <<opt.raw[n]>> ELSE <<>>
  IN  FoldLeftDomain(LAMBDA fs, n : fs \o Kept(n), <<>>, opt.raw)

\* Without source files the file that the name of the set names is the only one.
SourceFiles(basepath) ==
  LET f == opt.par.name.file
  IN  IF ExtraFiles(basepath) = <<>> /\ opt.par.name.ending # "par2" /\ f.there /\ f.size > 0
      THEN <<f>> ELSE ExtraFiles(basepath)

\* There is a set of this name already.
Exists(name) == IF name.ending = "par2" THEN name.file.there ELSE name.beside = "par2"

DefaultBlockSize(fs) ==
  GreatestOf(Multiple4(GreatestOf(Ceil(TotalSize(fs), TargetBlocks), 4)),
             Multiple4(GreatestOf(Ceil(TotalSize(fs), MaxSourceBlocks), 4)))

\* The megabytes that are used when none are given: an eighth of the memory.
DefaultMemoryLimit(physical) == GreatestOf(DefaultMemory, physical \div 8)

\* The bytes of so many megabytes, in a size_t; a narrow address space is not filled.
MemoryLimit(megabytes) ==
  ((IF Narrow /\ megabytes > NarrowMemory THEN NarrowMemory ELSE megabytes) * Megabyte) % LongWord

Defaults(basepath, physical, fs) ==
  [opt EXCEPT
     !.noise = IF @ = "unknown" THEN "normal" ELSE @,
     !.memorylimit = MemoryLimit(IF @ = 0 THEN DefaultMemoryLimit(physical) ELSE @),
     !.basepath = basepath,
     !.skipleaway = IF ~creating /\ opt.skipdata /\ @ = 0 THEN DefaultLeaway ELSE @,
     !.blocksize = IF creating /\ @ = 0 /\ opt.blockcount = 0 THEN DefaultBlockSize(fs) ELSE @,
     !.scheme = IF creating /\ @ = "unknown" THEN "variable" ELSE @,
     !.redundancy = IF creating /\ ~opt.redundancyset /\ ~opt.recoveryblockcountset THEN 5 ELSE @,
     !.redundancyset = IF creating /\ ~opt.recoveryblockcountset THEN TRUE ELSE @]

CheckValuesAndSetDefaults ==
  /\ pc = "check"
  /\ IF opt.par.as = "nothing" THEN Refuse("name") /\ UNCHANGED <<opt, extrafiles>>
     ELSE \E physical \in Physical, basepath \in {IF opt.basepath = "" THEN "par" ELSE opt.basepath} :
          \E fs \in {IF creating THEN SourceFiles(basepath) ELSE ExtraFiles(basepath)} :
           /\ extrafiles' = fs
           /\ opt' = Defaults(basepath, physical, fs)
           /\ IF ~creating THEN Finish("true", "none")
              ELSE IF fs = <<>> \/ Exists(opt.par.name) THEN Refuse("files")
              ELSE pc' = "size" /\ UNCHANGED <<result, reason>>
  /\ UNCHANGED <<call, options, given, nargs, search, sourceblockcount>>

----------------------------------------------------------------------------
(* ComputeBlockSize *)

\* The sizes in units of four bytes, in which the search for a block size counts.
Words(f) == Ceil(f.size, 4)
TotalWords == FoldLeft(LAMBDA sum, f : sum + Words(f), 0, extrafiles)
WordBlocks(size) == FoldLeft(LAMBDA sum, f : sum + Ceil(Words(f), size), 0, extrafiles)

SetBlockSize(size) == opt' = [opt EXCEPT !.blocksize = size] /\ pc' = "count"

ComputeBlockSize ==
  /\ pc = "size"
  /\ LET n == opt.blockcount  files == Len(extrafiles) IN
     \/ /\ opt.blocksize # 0
        /\ SetBlockSize(opt.blocksize) /\ UNCHANGED <<search, result, reason>>
     \/ /\ opt.blocksize = 0 /\ n < files
        /\ Refuse("count") /\ UNCHANGED <<opt, search>>
     \/ /\ opt.blocksize = 0 /\ n = files
        /\ SetBlockSize(Multiple4(LargestFileSize(extrafiles)))
        /\ UNCHANGED <<search, result, reason>>
     \/ /\ opt.blocksize = 0 /\ n > files /\ n > TotalWords
        /\ SetBlockSize(4) /\ UNCHANGED <<search, result, reason>>
     \/ /\ opt.blocksize = 0 /\ n > files /\ n <= TotalWords
        /\ search' = [NoSearch EXCEPT !.lower = TotalWords \div n,
                                      !.upper = Ceil(TotalWords, n - files)]
        /\ pc' = "search" /\ UNCHANGED <<opt, result, reason>>
  /\ UNCHANGED <<call, options, given, nargs, extrafiles, sourceblockcount>>

\* A bug to check the properties with: the number of blocks asked for counts as too many.
HalveStrict(s) ==
  LET size  == (s.lower + s.upper) \div 2
      tried == IF size + 1 >= s.upper THEN size + 1 ELSE size
  IN  IF WordBlocks(size) >= opt.blockcount
      THEN [s EXCEPT !.lower = size + 1, !.size = tried, !.count = WordBlocks(tried)]
      ELSE [s EXCEPT !.upper = size, !.size = size, !.count = WordBlocks(size)]

\* One iteration: a size that gives too many blocks raises the lower bound, and is
\* replaced by it when the bounds meet; any other size is the new upper bound.
Halve(s) ==
  LET size  == (s.lower + s.upper) \div 2
      tried == IF size + 1 >= s.upper THEN size + 1 ELSE size
  IN  IF WordBlocks(size) > opt.blockcount
      THEN [s EXCEPT !.lower = size + 1, !.size = tried, !.count = WordBlocks(tried)]
      ELSE [s EXCEPT !.upper = size, !.size = size, !.count = WordBlocks(size)]

SearchBlockSize ==
  /\ pc = "search"
  /\ search' = Halve(search)
  /\ IF search'.lower < search'.upper THEN UNCHANGED <<opt, pc, result, reason>>
     ELSE IF search'.count \in 1..MaxSourceBlocks
     THEN SetBlockSize(4 * search'.size) /\ UNCHANGED <<result, reason>>
     ELSE Refuse("count") /\ UNCHANGED opt
  /\ UNCHANGED <<call, options, given, nargs, extrafiles, sourceblockcount>>

----------------------------------------------------------------------------
(* Parse: the source blocks, and ComputeRecoveryBlockCount *)

\* The blocks of a file, and their sum, in a u32.
FileBlocks(f) == Ceil(f.size, opt.blocksize) % Word
SumBlocks == FoldLeft(LAMBDA sum, f : (sum + FileBlocks(f)) % Word, 0, extrafiles)

CountSourceBlocks ==
  /\ pc = "count"
  /\ sourceblockcount' = SumBlocks
  /\ IF SumBlocks > MaxSourceBlocks THEN Refuse("blocks")
     ELSE pc' = "recovery" /\ UNCHANGED <<result, reason>>
  /\ UNCHANGED <<call, argVars, extrafiles, search>>

EstimatedFileCount == 15
OverheadPerFile == sourceblockcount * 21
RecoveryPacketSize == opt.blocksize + 70

\* The recovery blocks that so many files of so many bytes in all hold.
BlocksIn(files) ==
  IF files * OverheadPerFile > opt.redundancysize THEN 1
  ELSE ((opt.redundancysize - files * OverheadPerFile) \div RecoveryPacketSize) % Word

\* The files they are estimated to be stored in.
RecoveryFileCount ==
  IF opt.recoveryfilecount # 0 THEN opt.recoveryfilecount
  ELSE ComputeRecoveryFileCount(opt.scheme, 0, BlocksIn(EstimatedFileCount),
                                Ceil(LargestFileSize(extrafiles), opt.blocksize))

\* The number that is given, the percentage of the source blocks but at least one, or
\* the number that fits in the size.
RecoveryBlocks ==
  IF opt.recoveryblockcountset THEN opt.recoveryblockcount
  ELSE IF opt.redundancy > 0
  THEN GreatestOf(1, ((sourceblockcount * opt.redundancy + 50) % Word) \div 100)
  ELSE BlocksIn(RecoveryFileCount)

\* A bug to check the properties with: one exponent too many.
FitsTogether(count) == count <= MaxRecoveryBlocks /\ opt.firstblock + count <= MaxRecoveryBlocks

\* The last recovery block number is not too large.
Fits(count) == count <= MaxRecoveryBlocks /\ opt.firstblock + count < MaxRecoveryBlocks

ComputeRecoveryBlockCount ==
  /\ pc = "recovery"
  /\ IF \/ ~opt.recoveryblockcountset /\ opt.redundancy = 0 /\ opt.redundancysize = 0
        \/ ~Fits(RecoveryBlocks)
     THEN Refuse("recovery") /\ UNCHANGED opt
     ELSE opt' = [opt EXCEPT !.recoveryblockcount = RecoveryBlocks] /\ Finish("true", "none")
  /\ UNCHANGED <<call, options, given, nargs, sizeVars>>

----------------------------------------------------------------------------

Next ==
  \/ ReadArg \/ EndArgs \/ CheckValuesAndSetDefaults \/ ComputeBlockSize
  \/ SearchBlockSize \/ CountSourceBlocks \/ ComputeRecoveryBlockCount

Spec == Init /\ [][Next]_vars

----------------------------------------------------------------------------
(* Properties *)

accepted == result = "true"
Asked(k) == {o \in BagToSet(given) : o.o = k}
Times(ks) == MapThenSumSet(LAMBDA o : given[o], {o \in BagToSet(given) : o.o \in ks})
SourceBlocks(size) == FoldLeft(LAMBDA sum, f : sum + Ceil(f.size, size), 0, extrafiles)

\* The members of CommandLine hold values of their types, at every step of Parse.
TypeOK ==
  /\ pc \in {"args", "check", "size", "search", "count", "recovery", "done"}
  /\ result \in {"none", "true", "false"} /\ (result # "none" <=> pc = "done")
  /\ opt.scheme \in {"unknown", "variable", "limited", "uniform"}
  /\ opt.noise \in {"unknown", "silent", "quiet", "normal", "noisy", "debug"}
  /\ opt.par.version \in {"unknown", "par1", "par2"}
  /\ {opt.blockcount, opt.blocksize, opt.redundancysize, opt.skipleaway} \subseteq Nat
  /\ {opt.firstblock, opt.recoveryblockcount, opt.redundancy, opt.nthreads,
      opt.filethreads, opt.recoveryfilecount, sourceblockcount} \subseteq 0 .. Word - 1
  /\ opt.memorylimit \in 0 .. LongWord - 1
  /\ \A k \in DOMAIN search : search[k] \in Nat

\* The value is not one the option may have, whatever the other options are.
OutOfRange(o) ==
  \/ o.o = "b" /\ o.n \notin 1..MaxSourceBlocks
  \/ o.o = "s" /\ (o.n <= 0 \/ ~DigitsRead(o.n) \/ o.n % 4 # 0)
  \/ o.o \in {"c", "f"} /\ o.n \notin 0..MaxSourceBlocks
  \/ o.o = "r" /\ o.n = Bad
  \/ o.o = "S" /\ (o.n = Bad \/ ~DigitsRead(o.n))
  \/ o.o = "n" /\ (o.n = Bad \/ o.n % Word \notin 1..MaxFiles)
  \/ o.o \in {"t", "T"} /\ (o.n = Bad \/ o.n % Word = 0)
  \/ o.o = "m" /\ (o.n = Bad \/ o.n % LongWord = 0)
  \/ o.o = "?"

\* Some of the options read contradict each other or the operation. No option that is
\* read later can undo that: a command line that holds them is refused in every order.
Contradiction ==
  \/ \E o \in BagToSet(given) :
       \/ OutOfRange(o)
       \/ o.o \in {"b", "s", "r", "rk", "c", "f", "u", "l", "n", "R"} /\ ~creating
       \/ o.o \in {"p", "O", "N", "S"} /\ creating
  \/ \E ks \in {{"b", "s"}, {"r", "rk", "c"}, {"l"}, {"n"}, {"m"}} : Times(ks) > 1
  \/ \E ks \in {{"l", "u"}, {"l", "n"}, {"v", "q"}} : \A k \in ks : Asked(k) # {}
  \/ Asked("n") # {} /\ \E o \in Asked("c") : o.n = 0

\* A -S lacks the -N it needs, or every -S so far is zero: both can be mended by an
\* option that comes later, but ReadArgs does not wait for it.
LeawayIncomplete ==
  Asked("S") # {} /\ (Asked("N") = {} \/ \A o \in Asked("S") : o.n = 0)

\* The combinations for which ReadArgs looks at one order only, so that one order of the
\* same options is refused and another accepted: a second -f, which only a -f that
\* is not zero keeps out; -n before or after a redundancy of zero; -S before or after
\* -N; -S0 before or after another -S; and two -S whose digits are appended in the
\* order of the two.
OneOrderOnly ==
  \/ Times({"f"}) > 1
  \/ Asked("n") # {} /\ \E o \in Asked("r") : o.n % Word = 0
  \/ LeawayIncomplete
  \/ Times({"S"}) > 1

\* Outside the combinations of OneOrderOnly, whether ReadArgs refuses the options is a
\* matter of which they are and not of their order: each of two options that exclude each
\* other tests for the other one, and what is refused holds a contradiction that no later
\* option undoes. What is accepted holds no contradiction, and no -S without -N.
OrderFree ==
  /\ reason = "option" => Contradiction \/ OneOrderOnly
  /\ reason # "option" => ~Contradiction /\ ~LeawayIncomplete

\* The block size that ComputeBlockSize finds for a given number of blocks makes no
\* more blocks than that, and it is the smallest that does: its bisection neither
\* stops early nor passes the boundary.
BlockSizeLeast ==
  accepted /\ creating /\ opt.blockcount > 0 =>
    /\ SourceBlocks(opt.blocksize) <= opt.blockcount
    /\ \A w \in 1 .. opt.blocksize \div 4 - 1 : SourceBlocks(4 * w) > opt.blockcount

\* What Parse accepts for a creation is within the limits of the format: whole words
\* to a block, no more source blocks than a set can have, unless their number does not
\* fit in the u32 that counts them, and no recovery block with an exponent past 65534,
\* the last one that the coefficients are defined for.
LimitsKept ==
  accepted /\ creating =>
    /\ opt.blocksize > 0 /\ opt.blocksize % 4 = 0
    /\ SourceBlocks(opt.blocksize) < Word =>
         SourceBlocks(opt.blocksize) \in 1..MaxSourceBlocks
    /\ opt.recoveryblockcount > 0 =>
         opt.firstblock + opt.recoveryblockcount - 1 <= MaxRecoveryBlocks - 2
=============================================================================
