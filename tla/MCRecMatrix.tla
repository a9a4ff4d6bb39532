----------------------------- MODULE MCRecMatrix -----------------------------
(* Up to seven of eight inputs are missing.  The jobs differ in the number of  *)
(* threads, stripes and rows processed together, and in the gaps between the   *)
(* recovery blocks.                                                            *)
EXTENDS RecMatrix

Job(missing, exponents, threads, stripe, cacherows, multiple, fastmul) ==
  [inputs |-> 8, valid |-> (0..7) \ missing, exponents |-> exponents, threads |-> threads,
   stripe |-> stripe, cacherows |-> cacherows, multiple |-> multiple, fastmul |-> fastmul]

\* Threads and words of a stripe: one thread; whole stripes for each of two workers; two
\* workers for a stripe; five workers for two stripes.  The rows of exponents 0 and 5 are
\* the same on inputs 0 and 2, so that one of these blocks is dropped.
MCJobs ==
  {Job(0..6, 0..7, w[1], w[2], c, n, TRUE) :
     w \in {<<1, 8>>, <<2, 3>>, <<2, 8>>, <<5, 4>>}, c \in {1, 4}, n \in {1, 2, 3, 4, 5, 6}}
  \cup {Job(0..6, {0, 1} \cup 3..7, 2, 8, 2, n, TRUE) : n \in {1, 6}}
  \cup {Job({0, 2} \cup m, {0, 5} \cup n .. 9, w[1], w[2], 2, 4, FALSE) :
           w \in {<<1, 8>>, <<3, 4>>}, n \in 6..9, m \in {{1}, {3, 5}, {3, 5, 6}}}
  \cup {Job({1}, {0}, 3, 8, 4, 6, TRUE), Job({0, 1}, {3}, 1, 8, 4, 6, TRUE)}
=============================================================================
