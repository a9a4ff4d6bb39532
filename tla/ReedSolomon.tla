----------------------------- MODULE ReedSolomon -----------------------------
(* The Galois field and the Reed-Solomon matrix with which PAR1 files are      *)
(* rebuilt.  A matrix is a sequence of rows; an index counts from 1.  All      *)
(* recovery blocks the repairer names are present, so the matrix has one row   *)
(* for each missing data block and no other.                                  *)
EXTENDS Integers, Sequences, Bitwise

CONSTANTS Bits, Generator   \* the field GF(2^Bits) and its generator

Count == 2 ^ Bits
Limit == Count - 1

VARIABLE table            \* GaloisTable: log and antilog

ASSUME FieldAssumption == Bits \in Nat \ {0} /\ Generator \in Count .. 2 * Count - 1

----------------------------------------------------------------------------
(* GaloisTable and Galois; + and - are both ^^ *)

Shift(b) == IF b >= Count THEN b ^^ Generator ELSE b

\* The values are the powers of 2, in the order in which b takes them.
GaloisTable ==
  LET b[l \in 0 .. Limit - 1] == IF l = 0 THEN 1 ELSE Shift(2 * b[l - 1])
  IN  [antilog |-> [l \in 0..Limit |-> IF l = Limit THEN 0 ELSE b[l]],
       log     |-> [v \in 0..Limit |-> IF v = 0 THEN Limit
                                       ELSE CHOOSE l \in 0 .. Limit - 1 : b[l] = v]]

Times(a, b) ==
  IF a = 0 \/ b = 0 THEN 0
  ELSE LET sum == table.log[a] + table.log[b]
       IN  table.antilog[IF sum >= Limit THEN sum - Limit ELSE sum]

Over(a, b) ==
  IF a = 0 \/ b = 0 THEN 0
  ELSE LET sum == table.log[a] - table.log[b]
       IN  table.antilog[IF sum < 0 THEN sum + Limit ELSE sum]

\* Mutant: the high bits of the logarithm are lost.
PowTruncated(a, right) ==
  IF right = 0 THEN 1
  ELSE IF a = 0 THEN 0
  ELSE table.antilog[(table.log[a] * right) % Count]

\* The logarithm is reduced by adding its high bits to its low bits.
Pow(a, right) ==
  IF right = 0 THEN 1
  ELSE IF a = 0 THEN 0
  ELSE LET product == table.log[a] * right
           sum == (product \div Count) + (product % Count)
       IN  table.antilog[IF sum >= Limit THEN sum - Limit ELSE sum]

----------------------------------------------------------------------------
(* SetInput, Compute and GaussElim *)

\* The base of the index-th data block: the ValueType base wraps.
database(index) == index % Count

\* The two matrices of Compute before they are solved.  present and missing are the
\* indices of the data blocks, in order; exponents are those of the recovery blocks, in
\* order.  Every recovery block in use stands in a column of its own.
Matrices(present, missing, exponents) ==
  [left  |-> [row \in 1..Len(missing) |->
                [col \in 1 .. Len(present) + Len(missing) |->
                   IF col <= Len(present) THEN Pow(database(present[col]), exponents[row])
                   ELSE IF col = Len(present) + row THEN 1 ELSE 0]],
   right |-> [row \in 1..Len(missing) |->
                [col \in 1..Len(missing) |-> Pow(database(missing[col]), exponents[row])]]]

ScaledRow(line, pivotvalue) == [col \in DOMAIN line |-> Over(line[col], pivotvalue)]
ReducedRow(line, by, scalevalue) ==
  [col \in DOMAIN line |-> line[col] ^^ Times(by[col], scalevalue)]

\* One half of the matrices after GaussElim has dealt with a row: the row is scaled so
\* that its pivot is 1, and the column of the pivot is cleared in all other rows.
Eliminated(half, right, row) ==
  [row2 \in DOMAIN half |->
     IF row2 = row THEN ScaledRow(half[row], right[row][row])
     ELSE ReducedRow(half[row2], ScaledRow(half[row], right[row][row]), right[row2][row])]
GaussElim(m, row) ==
  [left |-> Eliminated(m.left, m.right, row), right |-> Eliminated(m.right, m.right, row)]

----------------------------------------------------------------------------
(* Process *)

\* One position of an output block from that position of all input blocks.
Combine(factors, values) ==
  LET sum[n \in 0..Len(values)] ==
        IF n = 0 THEN 0 ELSE sum[n - 1] ^^ Times(factors[n], values[n])
  IN  sum[Len(values)]
=============================================================================
