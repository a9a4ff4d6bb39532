-------------------------- MODULE MCPar2Creator --------------------------
EXTENDS Par2Creator

CONSTANTS file1, file2

\* Two files of fewer, just as many and more bytes than the boundary of the 16k hash.
Sizes == {<<4, 11>>, <<5, 7>>, <<16, 3>>}

Sized(blocksize, size, first, scheme, filecount, recoveryblocks, memory) ==
  [files |-> <<file1, file2>>, size |-> (file1 :> size[1] @@ file2 :> size[2]), blocksize |-> blocksize,
   first |-> first, scheme |-> scheme, filecount |-> filecount,
   recoveryblocks |-> recoveryblocks, memory |-> memory]

Job(size, first, scheme, filecount, recoveryblocks, memory) ==
  Sized(8, size, first, scheme, filecount, recoveryblocks, memory)

\* One pass, and two of the same length; two of different lengths; too many blocks, and
\* blocks that are no multiple of four.
MCJobs ==
  {Job(s, 0, "variable", 0, r, m) : s \in Sizes, r \in {0, 3}, m \in {60, 1000}}
  \cup {Job(<<5, 7>>, 3, "limited", 0, r, m) : r \in {1, 4, 5}, m \in {60, 1000}}
  \cup {Job(<<16, 3>>, 1, "limited", 0, r, 1000) : r \in {2, 5, 7}}
  \cup {Job(<<4, 11>>, 2, "uniform", f, 5, m) : f \in {0, 2, 6}, m \in {60, 1000}}
  \cup {Job(<<4, 11>>, 0, "variable", 0, r, 1000) : r \in 4..9}
  \cup {Sized(12, <<15, 7>>, 1, "variable", 0, 2, 64), Job(<<16, 17>>, 0, "variable", 0, 3, 60),
        Sized(6, <<4, 11>>, 0, "variable", 0, 3, 1000)}

MCForeign == {{}, {Check}, {<<"main">>}, {<<"vol", 1, 2>>}}
=============================================================================
