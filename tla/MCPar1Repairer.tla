--------------------------- MODULE MCPar1Repairer ---------------------------
(* Three files of different lengths, three volumes, a misnamed copy and PAR    *)
(* files that are damaged, belong to another set or another program or have a  *)
(* broken list; a set with an empty file, and volumes with which the matrix is  *)
(* singular.  The field has 16 elements.                                       *)
EXTENDS Par1Repairer

s1 == <<11, 12, 13, 14, 15>>
s2 == <<1, 2>>
s3 == <<3, 4, 5, 6>>
junk == <<9, 9>>

Entry(n, d) == [name |-> n, data |-> d, inparity |-> TRUE]
MCFiles == <<Entry("t1", s1), Entry("t2", s2), Entry("t3", s3),
             [name |-> "n", data |-> <<7>>, inparity |-> FALSE]>>
MCLists == [set   |-> [files |-> MCFiles, smart |-> FALSE],
            smart |-> [files |-> MCFiles, smart |-> TRUE],
            other |-> [files |-> <<Entry("t1", s1), Entry("t1", s2)>>, smart |-> FALSE],
            empty |-> [files |-> <<Entry("t1", s1), Entry("t2", <<>>)>>, smart |-> FALSE],
            twins |-> [files |-> <<Entry("t1", s1), Entry("t2", s2), Entry("t3", s2)>>,
                       smart |-> FALSE],
            long  |-> [files |-> <<Entry("t1", s1 \o s2)>>, smart |-> FALSE]]
MCBackups == [n \in {"t1", "t2", "t3", "n", "x"} |->
                CASE n = "t1" -> <<"t1.1", "t1.2">> [] n = "t2" -> <<"t2.1", "t2.2">>
                  [] n = "t3" -> <<"t3.1", "t3.2">> [] OTHER -> <<>>]

\* The product of two polynomials over GF(2), modulo the generator.
Product(a, b) ==
  LET high[k \in 0..Bits] ==      \* of a and the bits of b from the k-th on
        IF k = Bits THEN 0
        ELSE Shift(2 * high[k + 1]) ^^ (a * ((b \div 2 ^ k) % 2))
  IN  high[0]

\* A volume of the set, as PAR1 software makes it: the sum of the files, the f-th of
\* them multiplied by f as often as the exponent says.
Scaled(value, f, exponent) ==
  LET p[e \in 0..exponent] == IF e = 0 THEN value ELSE Product(p[e - 1], f) IN p[exponent]
Volume(files, v) ==
  [b \in 1..5 |-> FoldLeftDomain(LAMBDA sum, f : sum ^^ Scaled(ReadByte(files[f].data, b), f, v - 1),
                                 0, files)]
ParFile(l, v) ==
  [header |-> TRUE, intact |-> TRUE, smart |-> l = "smart", allentries |-> TRUE, list |-> l,
   volume |-> v, data |-> IF v = 0 THEN <<>> ELSE Volume(SourcesOf(l), v)]
Damaged(r) == [r EXCEPT !.intact = FALSE]
Broken(r) == [r EXCEPT !.allentries = FALSE]
NoPar(r) == [r EXCEPT !.header = FALSE]

Whole == [m |-> ParFile("set", 0), p1 |-> ParFile("set", 1), p2 |-> ParFile("set", 2),
          p3 |-> ParFile("set", 6)]
Partial == {
  [m |-> Damaged(ParFile("set", 0)), p1 |-> ParFile("set", 1), p2 |-> ParFile("set", 2)],
  [m |-> Broken(ParFile("set", 0)), p1 |-> ParFile("other", 0), p2 |-> ParFile("set", 2)],
  [m |-> Broken(ParFile("long", 0)), p1 |-> ParFile("set", 1), p2 |-> ParFile("set", 2)],
  [p1 |-> ParFile("smart", 3), p2 |-> ParFile("smart", 3), p3 |-> NoPar(ParFile("set", 1))],
  [p1 |-> ParFile("smart", 1), p2 |-> ParFile("smart", 2), p3 |-> ParFile("other", 0)],
  [m |-> ParFile("empty", 0), p1 |-> ParFile("empty", 1), p2 |-> ParFile("empty", 2)]}

Nothing == [t1 |-> NoFile, t2 |-> NoFile, t3 |-> NoFile, x |-> NoFile]
MCScenarios ==
  [disk : {[Nothing EXCEPT !.t2 = junk],
           [Nothing EXCEPT !.t2 = junk, !.x = s3],
           [Nothing EXCEPT !.t2 = s1, !.t3 = s2],
           [Nothing EXCEPT !.t1 = s1, !.t2 = s1, !.x = s3],
           [Nothing EXCEPT !.t1 = s1, !.t2 = s2, !.t3 = s3]},
   par  : {Whole}]
  \cup
  [disk : {[Nothing EXCEPT !.t2 = s2, !.t3 = s3], [Nothing EXCEPT !.t2 = s2]}, par : Partial]
  \cup
  [disk : {Nothing}, par : {[Whole EXCEPT !.p3 = ParFile("set", 4)]}]
  \cup
  [disk : {[Nothing EXCEPT !.t1 = s1]}, par : {[p1 |-> ParFile("set", 1), p2 |-> ParFile("set", 6)]}]
  \cup
  [disk : {[Nothing EXCEPT !.t1 = s1, !.t2 = <<>>]},
   par  : {[m |-> ParFile("empty", 0), p1 |-> ParFile("empty", 1)]}]
  \cup
  [disk : {[Nothing EXCEPT !.t1 = s2, !.t2 = s2]},
   par  : {[p1 |-> ParFile("twins", 1)], [p1 |-> ParFile("twins", 1), p2 |-> ParFile("twins", 2)]}]
MCArgs == {[dorepair |-> r, purge |-> p, memorylimit |-> 12] :
             <<r, p>> \in {<<FALSE, FALSE>>, <<TRUE, FALSE>>, <<TRUE, TRUE>>}}
MCExtras == <<"x", "t1">>
=============================================================================
