--------------------------- MODULE MCCommandLine ---------------------------
(* Instances of CommandLine: a creation that meets every option, in every order; *)
(* creations of three files of every combination of small sizes for every number *)
(* of blocks; more files than the default block size allows for; and a           *)
(* verification. The limits are scaled down: 8 source blocks for 32768, 16       *)
(* recovery blocks for 65536, a target of 3 blocks for 2000, and a u32 that      *)
(* holds 2^12 values.                                                            *)
EXTENDS CommandLine

File(id, size) == [id |-> id, size |-> size, there |-> TRUE, under |-> {"par"}]
Elsewhere == [id |-> 20, size |-> 5, there |-> TRUE, under |-> {"other"}]
Both == [id |-> 21, size |-> 7, there |-> TRUE, under |-> {"par", "other"}]
Vanished == [id |-> 22, size |-> 5, there |-> FALSE, under |-> {"par"}]

Name(o, ending, beside, wildcard, file, files) ==
  [o |-> o, ending |-> ending, beside |-> beside, wildcard |-> wildcard, file |-> file,
   files |-> files]
Num(o, ns) == {[o |-> o, n |-> n] : n \in ns}
SizeOption(n, unit) == [o |-> "rk", n |-> n, unit |-> unit]
Flags(os) == Num(os, {1})
Leaway(n, digits) == [o |-> "S", n |-> n, digits |-> digits]

\* A new set, and files to protect: with one that is empty, one that is gone, one that
\* is elsewhere and one that is named twice.
NewSet == Name("word", "par2", "none", FALSE, NoFile, <<>>)
SomeFiles == Name("word", "none", "none", FALSE, File(1, 5),
                  <<File(1, 5), Vanished, File(2, 0), Elsewhere, File(3, 9), File(1, 5)>>)

CreateOptions ==
  Num("b", {0, 3}) \cup Num("s", {Bad, 6, 8, 4100}) \cup Num("r", {0, 5, 200}) \cup Num("c", {0, 8, 9})
    \cup {SizeOption(0, 1024), SizeOption(1, 1024), SizeOption(1, 1048576)}
    \cup Num("f", {0, 7, 8}) \cup Num("n", {2, 32}) \cup Flags("u") \cup Flags("l")
    \cup Num("p", {1}) \cup {Leaway(1, 1)} \cup {[o |-> "?"]}

OptionsOfCreate ==
  [operation |-> "create", maxargs |-> 5, args |-> CreateOptions \cup {NewSet, SomeFiles}]

OptionsOfAll ==
  [operation |-> "create", maxargs |-> 4,
   args |-> Num("t", {Bad, 2, 4097}) \cup Num("T", {0, 1}) \cup Num("m", {Bad, 3, 16})
              \cup Num("v", {1, 2}) \cup Num("q", {1, 2}) \cup Flags("R") \cup Num("O", {1})
              \cup Num("N", {1}) \cup {[o |-> "--"], [o |-> "B", base |-> "other"]}
              \cup {NewSet, [o |-> "list", opens |-> FALSE, files |-> <<>>],
                    [o |-> "list", opens |-> TRUE, files |-> <<File(1, 5), Both>>],
                    Name("a", "par2", "none", FALSE, NoFile, <<>>),
                    Name("word", "none", "par2", FALSE, File(1, 5), <<File(1, 5)>>),
                    Name("word", "other", "none", FALSE, File(4, 6), <<File(4, 6)>>),
                    Name("word", "none", "none", TRUE, NoFile, <<File(1, 5)>>)}]

OptionsOfVerify ==
  [operation |-> "verify", maxargs |-> 4,
   args |-> {Leaway(Bad, 1), Leaway(0, 0), Leaway(0, 1), Leaway(5, 1), Leaway(40, 2),
               Leaway(4095, 4), Leaway(4100, 4)}
              \cup Flags("N") \cup Flags("p") \cup Flags("O") \cup Num("b", {3})
              \cup Num("R", {1}) \cup Num("q", {1})
              \cup {Name("word", "par2", "none", FALSE, File(10, 9), <<File(10, 9)>>),
                    Name("word", "par", "none", FALSE, NoFile, <<>>),
                    Name("word", "none", "par2", FALSE, File(1, 5), <<File(1, 5)>>),
                    Name("word", "other", "par", FALSE, File(4, 6), <<File(4, 6)>>),
                    Name("word", "other", "none", FALSE, File(5, 6), <<File(5, 6)>>),
                    Name("a", "par", "none", FALSE, File(11, 9), <<File(11, 9)>>),
                    Name("a", "none", "none", FALSE, File(1, 5), <<File(1, 5)>>)}]

FileSizes == {1, 4, 6, 9, 16, 23, 37}

\* Every number of blocks for every three files.
Sized(a, b, c) ==
  [operation |-> "create", maxargs |-> 3,
   args |-> Num("b", 1 .. MaxSourceBlocks + 1) \cup Num("r", {100, 550})
              \cup {Name("word", "none", "none", FALSE, NoFile,
                         <<File(1, a), File(2, b), File(3, c)>>)}]

\* Files that take a part of a block each beside a large one, up to more than there may
\* be blocks, and one whose number of blocks does not fit in a u32.
Many(n) ==
  [operation |-> "create", maxargs |-> 2,
   args |-> {Name("word", "none", "none", FALSE, NoFile,
                  [k \in 1..n |-> File(k, IF k = 1 THEN 90 ELSE 1)])}]
Huge ==
  [operation |-> "create", maxargs |-> 3,
   args |-> Num("s", {4, 8})
              \cup {Name("word", "none", "none", FALSE, NoFile, <<File(1, 4 * (Word + 2))>>)}]

MCCalls ==
  {OptionsOfCreate, OptionsOfAll, OptionsOfVerify, Huge}
    \cup {Sized(a, b, c) : a, b, c \in FileSizes}
    \cup {Many(n) : n \in 1 .. MaxSourceBlocks + 1}
MCPhysical == {0, 4096}
=============================================================================
