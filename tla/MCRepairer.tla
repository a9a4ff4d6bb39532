----------------------------- MODULE MCRepairer -----------------------------
EXTENDS Repairer

Cell(v, n) == [val |-> v, len |-> n]
MCSource == << <<Cell("a", 2), Cell("b", 1)>>, <<Cell("c", 2)>> >>
MCVerifiable == {1, 2}

\* Without purging the names of the two files may be swapped; with it they are
\* right, damaged, or hold blocks of both files.
Mixed == <<Cell("x", 1), Cell("c", 2), Cell("a", 2)>>
Swapped == << {<<>>, MCSource[2]}, {MCSource[1], Mixed} >>
InPlace == << {MCSource[1], <<Cell("a", 2), Cell("x", 1)>>, Mixed}, {<<>>, MCSource[2]} >>
MCScenarios == { [purge |-> FALSE, contents |-> Swapped], [purge |-> TRUE, contents |-> InPlace] }
MCSwapScenarios == { [purge |-> TRUE, contents |-> Swapped] }
MCExtraContents == {<<Cell("c", 2), Cell("b", 1)>>}

MCTargetName == <<"f", "g">>
MCBackupNames == << <<"f.1", "f.2">>, <<"g.1", "g.2">> >>
MCExtraNames == {"e", "f.1", "f.2", "g.1", "g.2"}
MCParFiles == <<"par2", "vol0.par2">>
MCNewFiles == {"n1", "n2", "n3", "n4"}
=============================================================================
