---------------------------- MODULE MCVerifyFiles ----------------------------
EXTENDS VerifyFiles

Cell(v, n) == [val |-> v, len |-> n]

\* Four source files in blocks of two units: three blocks, the last one short; two blocks;
\* one file without verification packet; two equal blocks.
MCSource ==
  << <<Cell("a", 2), Cell("c", 2), Cell("b", 1)>>, <<Cell("d", 2), Cell("e", 2)>>,
     <<Cell("k", 2), Cell("m", 1)>>, <<Cell("g", 2), Cell("g", 2)>> >>
MCVerifiable == {1, 2, 4}
MCTargetName == <<"t1", "t2", "t3", "t4">>
MCSortedFiles == <<3, 2, 1, 4>>
MCExtraFiles == <<"x1", "x2">>

\* Damaged copies of the first file, with its second or last block; blocks of two files in
\* one; the second file truncated where only zeros are lost, also behind other data, so
\* that the file is longer than the original; the first with data after its end; one of
\* the two equal blocks.
Middle == <<Cell("x", 1), Cell("c", 2)>>
Ends == <<Cell("a", 2), Cell("x", 2), Cell("b", 1)>>
Mixture == <<Cell("x", 1), Cell("e", 2), Cell("c", 2), Cell("b", 1)>>
Truncated2 == <<Cell("d", 2), Cell("e", 1)>>
CutLonger == <<Cell("x", 2), Cell("d", 2), Cell("e", 1)>>
Appended == <<Cell("a", 2), Cell("c", 2), Cell("b", 1), Cell("x", 2)>>
OneOfTwo == <<Cell("g", 2), Cell("x", 1)>>

Call(threads, rename, disk, contents) ==
  [filethreads |-> threads, renameonly |-> rename, disk |-> disk, contents |-> contents]

Contents ==
  {<<>>, MCSource[1], MCSource[2], Middle, Ends, Mixture, Truncated2, CutLonger, Appended}
Targets == Call(1, FALSE, {"t1", "t2", "x1"}, Contents)
Extras == Call(1, FALSE, {"t2", "x1", "x2"}, Contents)
EqualBlocks ==
  Call(1, FALSE, {"t1", "t4", "x1"}, {MCSource[1], MCSource[3], MCSource[4], OneOfTwo})
TwoThreads ==
  Call(2, FALSE, {"t1", "t3", "x1"}, {MCSource[1], MCSource[3], MCSource[4], Mixture})
ThreeFiles ==
  Call(2, FALSE, {"t2", "x1", "x2"}, {MCSource[1], MCSource[2], Middle, Truncated2})
RenameThreads ==
  Call(2, TRUE, {"t1", "t2", "x1", "x2"}, {MCSource[1], MCSource[2], Ends})

MCCalls == {Targets, Extras, EqualBlocks, TwoThreads, ThreeFiles, RenameThreads}

\* Two threads that find the same block in two files.
MCTornCalls == {Call(2, FALSE, {"t1", "t2"}, {Middle, Mixture})}
=============================================================================
