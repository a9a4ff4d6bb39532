------------------------------ MODULE RecMatrix ------------------------------
(* Galois16RecMatrix::Compute: build the matrix of the PAR2 repair and invert  *)
(* it in place, several rows at a time, with the rows and columns of each      *)
(* elimination divided among worker threads.  A recovery block that turns out  *)
(* to depend on those before it is dropped, and everything starts again.       *)
(*                                                                             *)
(* Rows and columns count from 0.  The first columns are those of the inputs   *)
(* that are there, the others belong to the missing ones, and later to the     *)
(* recovery blocks.  The field is that of the constants of ReedSolomon; the    *)
(* layout in which the kernels keep the numbers and prefetching are left out.  *)
EXTENDS ReedSolomon, FiniteSets, SequencesExt

CONSTANTS
  Factors,        \* the prime factors of Limit
  MIN_THREAD_REC, \* the least number of rows to send to a thread
  Jobs            \* the calls of Compute: inputs, the indices of those that are valid, the
                  \* exponents, the threads, the words of a stripe, the rows that fit in the
                  \* cache, idealInputMultiple, and whether gf16pmul can be used

PP_INVERT_MAX_MULTI_ROWS == 6

ASSUME RecMatrixAssumption ==
  /\ MIN_THREAD_REC \in Nat \ {0}
  /\ \A p \in Factors : p \in 2..Limit
  /\ \A j \in Jobs :
       /\ j.valid \subseteq 0 .. j.inputs - 1 /\ Cardinality(j.valid) < j.inputs
       /\ j.exponents # {} /\ j.exponents \subseteq 0 .. Limit - 1
       /\ j.threads >= 1 /\ j.stripe >= 1 /\ j.cacherows >= 1 /\ j.multiple >= 1

VARIABLES
  job,
  inputlog,     \* gfmat_input_log of every input
  columns,      \* the input of every column
  add, mul,     \* the sums and products Galois16Mul and gf16pmul compute
  dim,          \* numRec, validCount, numStripes, rowGroupSize, threads
  recovery,     \* the exponents still in use, in order
  mat, coeff,
  rows, rec,    \* the template parameter of processRows, and its position
  recStart, size,   \* the row group that is normalised: curRowGroupSize rows from recStart on
  step,         \* the position in scaleRows
  recGroup,     \* the first of the rows the group is applied to, or -1 for its own
  call,         \* the arguments of applyRows: the first source row and how many there are,
                \* and the first and last row they are subtracted from
  unsent, reqs, \* requests that are not in a queue yet, and those no worker has finished
  procRefs, done,
  dropped,      \* history: the exponents before the one that was dropped last, and it
  pc, result

fieldVars == <<job, table, inputlog, columns, add, mul>>
ctrlVars  == <<rows, rec, recStart, size, step, recGroup>>
workVars  == <<call, unsent, reqs, procRefs, done>>
vars == <<fieldVars, dim, recovery, mat, coeff, ctrlVars, workVars, dropped, pc, result>>

Ceil(a, b) == (a + b - 1) \div b
Least(a, b) == IF a < b THEN a ELSE b
Most(a, b) == IF a > b THEN a ELSE b
Ascending(S) ==
  [n \in 1..Cardinality(S) |-> CHOOSE x \in S : Cardinality({y \in S : y < x}) = n - 1]

----------------------------------------------------------------------------
(* gfmat_coeff.c *)

\* gfmat_init: the inputs are given the logarithms that have no factor in common with
\* the order of the field, in ascending order.
gfmat_init(inputs) ==
  LET logs == Ascending({l \in 1 .. Limit - 1 : \A p \in Factors : l % p # 0})
  IN  [i \in 0 .. inputs - 1 |-> logs[i + 1]]

\* The product of two polynomials over GF(2), modulo the generator.
Product(a, b) ==
  LET high[k \in 0..Bits] ==      \* of a and the bits of b from the k-th on
        IF k = Bits THEN 0
        ELSE Shift(2 * high[k + 1]) ^^ (a * ((b \div 2 ^ k) % 2))
  IN  high[0]

gf16_exp(v) == IF v = Limit THEN 1 ELSE table.antilog[v]

\* The remainder by Limit, except that Limit may stay.
gfmat_coeff_log(log, exponent) ==
  LET product == log * exponent
      once == (product \div Count) + (product % Count)
  IN  (once + (once \div Count)) % Count

gfmat_coeff_from_log(log, exponent) == gf16_exp(gfmat_coeff_log(log, exponent))

gf16_recip(n) == gf16_exp((Limit - table.log[n]) % Limit)

----------------------------------------------------------------------------
(* Compute, up to invert_loop *)

numRec == dim.numRec
Rows == 0 .. numRec - 1
Cols == 0 .. job.inputs - 1

\* The input of each column.
Columns(inputs, valid) ==
  LET order == Ascending(valid) \o Ascending((0 .. inputs - 1) \ valid)
  IN  [c \in 0 .. inputs - 1 |-> order[c + 1]]

missingCol(r) == dim.validCount + r
StripeOf(c) == c \div job.stripe

rowGroupSize(numrec, stripes, threads) ==
  LET cached == job.cacherows * (IF stripes < threads THEN threads \div stripes ELSE 1)
  IN  Least(Most(cached, 2 * Least(job.multiple, PP_INVERT_MAX_MULTI_ROWS)), numrec)

Init ==
  /\ job \in Jobs
  /\ table = GaloisTable
  /\ inputlog = gfmat_init(job.inputs)
  /\ columns = Columns(job.inputs, job.valid)
  /\ add = [a \in 0..Limit |-> [b \in 0..Limit |-> a ^^ b]]
  /\ mul = [a \in 0..Limit |-> [b \in 0..Limit |-> Product(a, b)]]
  /\ recovery = Ascending(job.exponents)
  /\ dim = [numRec |-> 0, validCount |-> 0, numStripes |-> 0, rowGroupSize |-> 0, threads |-> 0]
  /\ mat = <<>> /\ coeff = <<>>
  /\ rows = 0 /\ rec = 0 /\ recStart = 0 /\ size = 0 /\ step = 1 /\ recGroup = 0
  /\ call = <<0, 0, 0, 0>> /\ unsent = <<>> /\ reqs = {} /\ procRefs = 0 /\ done = FALSE
  /\ dropped = <<>>
  /\ pc = "start" /\ result = "none"

\* Few rows are not worth any threads.
Start ==
  /\ pc = "start"
  /\ LET numrec == job.inputs - Cardinality(job.valid)
         threads == IF numrec < MIN_THREAD_REC THEN 1 ELSE job.threads
         stripes == Ceil(job.inputs, job.stripe)
         group == rowGroupSize(numrec, stripes, threads)
     IN  IF numrec > Len(recovery)
         THEN pc' = "done" /\ result' = "false" /\ UNCHANGED <<dim, mat, coeff>>
         ELSE /\ dim' = [numRec |-> numrec, validCount |-> Cardinality(job.valid),
                         numStripes |-> stripes, rowGroupSize |-> group, threads |-> threads]
              /\ coeff' = [k \in 0 .. group * group - 1 |-> 0]
              /\ mat' = [r \in 0 .. numrec - 1 |-> [c \in Cols |-> 0]]
              /\ pc' = "invert" /\ UNCHANGED result
  /\ UNCHANGED <<fieldVars, recovery, ctrlVars, workVars, dropped>>

----------------------------------------------------------------------------
(* Construct *)

\* The first row with an exponent other than 0.
FirstRow == IF recovery[1] = 0 THEN 1 ELSE 0

\* The rows whose exponent does not follow that of the row before.
recSkips ==
  {r \in FirstRow .. numRec - 1 : r = FirstRow \/ recovery[r + 1] # recovery[r] + 1}

UseProducts ==
  /\ job.fastmul
  /\ FirstRow < Len(recovery) /\ recovery[FirstRow + 1] = 1
  /\ Cardinality(recSkips) < numRec \div 2

\* The row after another is its product with the row of exponent 1, if that pays.
Constructed(r) ==
  IF r < FirstRow THEN [c \in Cols |-> 1]
  ELSE IF UseProducts /\ r \notin recSkips
  THEN [c \in Cols |-> mul[mat[FirstRow][c]][mat[r - 1][c]]]
  ELSE [c \in Cols |-> gfmat_coeff_from_log(inputlog[columns[c]], recovery[r + 1])]

\* invert_loop: as long as there are enough recovery blocks.
Invert ==
  /\ pc = "invert"
  /\ IF numRec > Len(recovery)
     THEN pc' = "done" /\ result' = "false" /\ UNCHANGED step
     ELSE pc' = "construct" /\ step' = 0 /\ UNCHANGED result
  /\ UNCHANGED <<fieldVars, dim, recovery, mat, coeff, rows, rec, recStart, size, recGroup,
                 workVars, dropped>>

Construct ==
  /\ pc = "construct"
  /\ IF step \in Rows
     THEN /\ mat' = [r \in Rows |-> IF r = step THEN Constructed(r) ELSE mat[r]]
          /\ step' = step + 1
          /\ UNCHANGED <<rec, rows, pc>>
     ELSE /\ rec' = 0 /\ rows' = PP_INVERT_MAX_MULTI_ROWS
          /\ pc' = "group"
          /\ UNCHANGED <<mat, step>>
  /\ UNCHANGED <<fieldVars, dim, recovery, coeff, recStart, size, recGroup, workVars, dropped, result>>

----------------------------------------------------------------------------
(* processRows *)

\* The next row group, or the next smaller number of rows that are processed together.
Group ==
  /\ pc = "group"
  /\ IF rows = 0
     THEN /\ recovery' = SubSeq(recovery, 1, numRec)
          /\ pc' = "done" /\ result' = "true"
          /\ UNCHANGED ctrlVars
     ELSE IF job.multiple >= rows /\ numRec >= rows /\ rec <= numRec - rows
     THEN /\ recStart' = rec
          /\ size' = LET aligned == (dim.rowGroupSize \div rows) * rows
                         left == numRec - rec
                     IN  IF left < aligned THEN left - (left % rows) ELSE aligned
          /\ step' = 1
          /\ pc' = "scale"
          /\ UNCHANGED <<recovery, result, rows, rec, recGroup>>
     ELSE rows' = rows - 1 /\ UNCHANGED <<recovery, result, pc, rec, recStart, size, step, recGroup>>
  /\ UNCHANGED <<fieldVars, dim, mat, coeff, workVars, dropped>>

\* scaleRows: what it does to each of the rows it is called for.  A row is scaled, or
\* those in src are subtracted from it, all with factors read before any of them is.
Scale(r) == <<[dst |-> r, src |-> <<>>]>>
MulAdd(r, src) == <<[dst |-> r, src |-> src]>>
TwoRows == Scale(0) \o MulAdd(1, <<0>>) \o Scale(1) \o MulAdd(0, <<1>>)
FourRows ==
  TwoRows \o MulAdd(2, <<0, 1>>) \o Scale(2) \o MulAdd(3, <<0, 1>>) \o MulAdd(3, <<2>>)
    \o Scale(3) \o MulAdd(2, <<3>>) \o MulAdd(0, <<2, 3>>) \o MulAdd(1, <<2, 3>>)
scaleRows ==
  << Scale(0),
     TwoRows,
     TwoRows \o MulAdd(2, <<0, 1>>) \o Scale(2) \o MulAdd(0, <<2>>) \o MulAdd(1, <<2>>),
     FourRows,
     FourRows \o MulAdd(4, <<0, 1, 2, 3>>) \o Scale(4)
       \o MulAdd(0, <<4>>) \o MulAdd(1, <<4>>) \o MulAdd(2, <<4>>) \o MulAdd(3, <<4>>),
     FourRows \o MulAdd(4, <<0, 1, 2, 3>>) \o Scale(4) \o MulAdd(5, <<0, 1, 2, 3>>)
       \o MulAdd(5, <<4>>) \o Scale(5) \o MulAdd(4, <<5>>)
       \o MulAdd(0, <<4, 5>>) \o MulAdd(1, <<4, 5>>) \o MulAdd(2, <<4, 5>>) \o MulAdd(3, <<4, 5>>) >>

\* The pivot is replaced by 1, so that its column becomes that of the recovery block.
Scaled(r) ==
  [c \in Cols |-> mul[IF c = missingCol(r) THEN 1 ELSE mat[r][c]][gf16_recip(mat[r][missingCol(r)])]]

\* The factors are replaced by 0.
Added(r, src) ==
  [c \in Cols |->
     LET replaced == \E k \in 1..Len(src) : c = missingCol(rec + src[k])
         sum[k \in 0..Len(src)] ==
           IF k = 0 THEN IF replaced THEN 0 ELSE mat[r][c]
           ELSE add[sum[k - 1]][mul[mat[r][missingCol(rec + src[k])]][mat[rec + src[k]][c]]]
     IN  sum[Len(src)]]

\* A recovery block whose pivot is 0 is of no use.
ScaleStep ==
  /\ pc = "scale" /\ step <= Len(scaleRows[rows])
  /\ LET now == scaleRows[rows][step]
         r == rec + now.dst
     IN  IF now.src = <<>> /\ mat[r][missingCol(r)] = 0
         THEN /\ dropped' = SubSeq(recovery, 1, r + 1)
              /\ recovery' = RemoveAt(recovery, r + 1)
              /\ pc' = "invert"
              /\ UNCHANGED <<mat, step>>
         ELSE /\ mat' = [mat EXCEPT ![r] = IF now.src = <<>> THEN Scaled(r) ELSE Added(r, now.src)]
              /\ step' = step + 1
              /\ UNCHANGED <<recovery, pc, dropped>>
  /\ UNCHANGED <<fieldVars, dim, coeff, rows, rec, recStart, size, recGroup, workVars, result>>

----------------------------------------------------------------------------
(* fillCoeffs and applyRows *)

\* The rows src .. src + count - 1 are to be subtracted from first .. last - 1, but for
\* themselves.
Gap(src, count, first, last) == IF src \in first .. last - 1 THEN src .. src + count - 1 ELSE {}

\* The factors are moved from the matrix to coeff, a line of count of them for each row.
fillCoeffs(src, count, first, last) ==
  LET filled == (first .. last - 1) \ Gap(src, count, first, last)
      cols == missingCol(src) .. missingCol(src) + count - 1
  IN  /\ coeff' = [k \in DOMAIN coeff |->
                     IF first + (k \div count) \in filled
                     THEN mat[first + (k \div count)][missingCol(src) + (k % count)]
                     ELSE coeff[k]]
      /\ mat' = [r \in Rows |-> IF r \notin filled THEN mat[r]
                                ELSE [c \in Cols |-> IF c \in cols THEN 0 ELSE mat[r][c]]]

\* A bug to check the properties with: every request uses the first lines of coeff.
RequestFromStart(src, count, first, last, base, from, to) ==
  [src |-> src, count |-> count, first |-> first, last |-> last, base |-> 0,
   stripes |-> from .. to - 1]

\* A request for some rows and stripes; base counts the lines of coeff before its own.
Request(src, count, first, last, base, from, to) ==
  [src |-> src, count |-> count, first |-> first, last |-> last, base |-> base,
   stripes |-> from .. to - 1]

\* The share of the w-th of n when total things are divided among them, as floats that
\* start at 0.5 give it.
Share(w, n, total) == (n + 2 * w * total) \div (2 * n)

\* Whole stripes for each worker.
StripeRequests(src, count, first, last) ==
  [w \in 1 .. dim.threads |->
     Request(src, count, first, last, 0, Share(w - 1, dim.threads, dim.numStripes),
             Share(w, dim.threads, dim.numStripes))]

RowsEach(all, workerNum) == Most(Ceil(all, workerNum), MIN_THREAD_REC)

\* No request starts with the source rows.
AfterGap(pos, src) == IF pos = src THEN src + rows ELSE pos

\* Several workers for a stripe: numRows rows for each of them from rowPos on, and the gap.
RowRequests(src, count, first, last, stripe) ==
  LET workerNum == Share(stripe + 1, dim.numStripes, dim.threads)
                     - Share(stripe, dim.numStripes, dim.threads)
      all == (last - first) - (IF src \in first .. last - 1 THEN rows ELSE 0)
      numRows == RowsEach(all, workerNum)
      end(pos) == Least(last, pos + numRows
                                + (IF pos <= src /\ src < pos + numRows THEN rows ELSE 0))
      from[pos \in first .. last + rows] ==
        IF pos >= last THEN <<>>
        ELSE <<Request(src, count, pos, end(pos), pos - first, stripe, stripe + 1)>>
               \o from[AfterGap(end(pos), src)]
  IN  from[first]

AllRowRequests(src, count, first, last) ==
  LET upto[s \in 0 .. dim.numStripes] ==
        IF s = 0 THEN <<>> ELSE upto[s - 1] \o RowRequests(src, count, first, last, s - 1)
  IN  upto[dim.numStripes]

\* applyRows: without workers, the thread of Compute does it all.
Requests(src, count, first, last) ==
  IF dim.threads <= 1 THEN <<Request(src, count, first, last, 0, 0, dim.numStripes)>>
  ELSE IF dim.numStripes >= dim.threads THEN StripeRequests(src, count, first, last)
  ELSE AllRowRequests(src, count, first, last)

\* The end of one turn of the loop that normalises the row group.
NextRows ==
  /\ rec' = rec + rows
  /\ IF rec + rows < recStart + size
     THEN step' = 1 /\ pc' = "scale" /\ UNCHANGED recGroup
     ELSE recGroup' = 0 /\ pc' = "others" /\ UNCHANGED step

\* scaleRows has returned: the other rows of the group.
Normalize ==
  /\ pc = "scale" /\ step > Len(scaleRows[rows])
  /\ LET first == IF rec = recStart THEN rec + rows ELSE recStart
         last == recStart + size
     IN  IF first = last
         THEN /\ rec' = rec + rows /\ recGroup' = 0 /\ pc' = "others"
              /\ UNCHANGED <<step, mat, coeff, workVars>>
         ELSE /\ fillCoeffs(rec, rows, first, last)
              /\ call' = <<rec, rows, first, last>>
              /\ recGroup' = -1 /\ pc' = "apply"
              /\ UNCHANGED <<rec, step, unsent, reqs, procRefs, done>>
  /\ UNCHANGED <<fieldVars, dim, recovery, rows, recStart, size, dropped, result>>

\* curRowGroupSize2
OtherSize ==
  LET left == Least(dim.rowGroupSize, numRec - recGroup)
  IN  IF recGroup < recStart THEN Least(left, recStart - recGroup) ELSE left

\* The row group is applied to all others.
Others ==
  /\ pc = "others"
  /\ IF recGroup >= numRec
     THEN pc' = "group" /\ UNCHANGED <<mat, coeff, workVars, recGroup>>
     ELSE IF recGroup = recStart
     THEN recGroup' = recGroup + size /\ UNCHANGED <<mat, coeff, workVars, pc>>
     ELSE /\ fillCoeffs(recStart, size, recGroup, recGroup + OtherSize)
          /\ call' = <<recStart, size, recGroup, recGroup + OtherSize>>
          /\ pc' = "apply"
          /\ UNCHANGED <<recGroup, unsent, reqs, procRefs, done>>
  /\ UNCHANGED <<fieldVars, dim, recovery, rows, rec, recStart, size, step, dropped, result>>

\* A bug to check the properties with: a reference for each thread, with work or not.
applyRowsForAll ==
  /\ pc = "apply" /\ pc' = "send"
  /\ \E list \in {Requests(call[1], call[2], call[3], call[4])} :
       /\ unsent' = [w \in DOMAIN list |-> [request |-> list[w], worker |-> w]]
       /\ procRefs' = Most(dim.threads, 1)
  /\ done' = FALSE
  /\ UNCHANGED <<fieldVars, dim, recovery, mat, coeff, ctrlVars, call, reqs, dropped, result>>

\* The requests are counted before the first of them is sent.
applyRows ==
  /\ pc = "apply" /\ pc' = "send"
  /\ \E list \in {Requests(call[1], call[2], call[3], call[4])} :
       /\ unsent' = [w \in DOMAIN list |-> [request |-> list[w], worker |-> w]]
       /\ procRefs' = Len(list)
  /\ done' = FALSE
  /\ UNCHANGED <<fieldVars, dim, recovery, mat, coeff, ctrlVars, call, reqs, dropped, result>>

\* Each of them goes to the queue of a worker of its own.
Send ==
  /\ pc = "send"
  /\ reqs' = reqs \cup {Head(unsent)}
  /\ unsent' = Tail(unsent)
  /\ pc' = IF Len(unsent) = 1 THEN "wait" ELSE "send"
  /\ UNCHANGED <<fieldVars, dim, recovery, mat, coeff, ctrlVars, call, procRefs, done, dropped, result>>

\* The rows a request writes; the source rows are only noticed after the first.
Targets(q) ==
  (q.first .. q.last - 1) \ (IF q.src = q.first THEN {} ELSE Gap(q.src, rows, q.first, q.last))

\* A bug to check the properties with: the count of the group, not of the request.
CoeffLineNarrow(q, r) == (q.base + r - q.first) * rows

\* Where the factors of row r begin in coeff.
CoeffLine(q, r) == (q.base + r - q.first) * q.count

\* invertLoop: the rows of a request that a worker has taken from its queue.
Inverted(q) ==
  [r \in Rows |->
     IF r \notin Targets(q) THEN mat[r]
     ELSE [c \in Cols |->
             LET line == CoeffLine(q, r)
                 sum[k \in 0..q.count] ==
                   IF k = 0 THEN mat[r][c]
                   ELSE add[sum[k - 1]][mul[coeff[line + k - 1]][mat[q.src + k - 1][c]]]
             IN  IF StripeOf(c) \in q.stripes THEN sum[q.count] ELSE mat[r][c]]]

invert_worker ==
  /\ \E q \in reqs :
       /\ mat' = Inverted(q.request)
       /\ reqs' = reqs \ {q}
  /\ procRefs' = procRefs - 1
  /\ done' = (done \/ procRefs <= 1)
  /\ UNCHANGED <<fieldVars, dim, recovery, coeff, ctrlVars, call, unsent, dropped, pc, result>>

\* The future is ready.
Wait ==
  /\ pc = "wait" /\ done
  /\ IF recGroup = -1 THEN NextRows
     ELSE /\ recGroup' = recGroup + OtherSize
          /\ pc' = "others"
          /\ UNCHANGED <<rec, step>>
  /\ UNCHANGED <<fieldVars, dim, recovery, mat, coeff, rows, recStart, size, workVars, dropped,
                 result>>

Compute == Start \/ Invert \/ Construct \/ Group \/ ScaleStep \/ Normalize \/ Others \/ applyRows \/ Send \/ Wait

Next == Compute \/ invert_worker
Spec == Init /\ [][Next]_vars /\ WF_vars(Next)

----------------------------------------------------------------------------
(* The field once more, for the properties *)

Sum(term(_), n) ==
  LET upto[k \in 0..n] == IF k = 0 THEN 0 ELSE add[upto[k - 1]][term(k)] IN upto[n]

\* What input i contributes to the recovery block with that exponent.
Weight(i, exponent) == table.antilog[(inputlog[i] * exponent) % Limit]

----------------------------------------------------------------------------
(* Properties *)

\* The type of the state.
TypeOK ==
  /\ job \in Jobs
  /\ result \in {"none", "true", "false"}
  /\ pc \in {"start", "invert", "construct", "group", "scale", "apply", "send", "wait", "others", "done"}
  /\ rows \in 0..PP_INVERT_MAX_MULTI_ROWS /\ rec \in 0..numRec /\ recStart \in 0..numRec
  /\ size \in 0..dim.rowGroupSize /\ recGroup \in -1..numRec
  /\ \A r \in DOMAIN mat : r \in Rows /\ \A c \in Cols : mat[r][c] \in 0..Limit
  /\ \A k \in DOMAIN coeff : coeff[k] \in 0..Limit
  /\ procRefs \in 0..Most(dim.threads, 1) /\ done \in BOOLEAN

\* When Compute returns true, the rows of the matrix rebuild the missing inputs, whatever
\* the data: the recovery blocks in use times their factors, plus the inputs that are
\* there times theirs, give the missing input of the row.
Rebuilds ==
  result = "true" =>
    \A r \in Rows, c \in Cols :
      LET part(k) == mul[mat[r][missingCol(k - 1)]][Weight(columns[c], recovery[k])]
      IN  Sum(part, numRec) = IF c < dim.validCount THEN mat[r][c]
                              ELSE IF c = missingCol(r) THEN 1 ELSE 0

\* The determinant of the rows of the exponents in list on the first missing inputs, as many
\* as these are; signs do not matter.
Determinant(list) ==
  LET minor[S \in SUBSET (1..Len(list))] ==
        IF S = {} THEN 1
        ELSE LET term(c, sum) ==
                   add[sum][mul[Weight(columns[missingCol(c - 1)], list[Cardinality(S)])][minor[S \ {c}]]]
             IN  FoldSet(term, 0, S)
  IN  minor[1..Len(list)]

\* A recovery block is only dropped if it is of no use next to those before it: on the
\* first missing inputs, as many as these are, their rows depend on each other.
DropsDependent == pc = "invert" /\ dropped # <<>> => Determinant(dropped) = 0

\* Compute returns.
Returns == <>(pc = "done")
=============================================================================
