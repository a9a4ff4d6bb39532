---------------------------- MODULE SliceWriter ----------------------------
(***************************************************************************)
(* What the processing of a repair promises: the slices of the recovered    *)
(* blocks are written pass by pass and output by output, and each holds     *)
(* every input slice of its pass exactly once, with that input's            *)
(* coefficient, in every chunk.  The work may be abandoned at any point but *)
(* is reported as done only when everything has been written.               *)
(***************************************************************************)
EXTENDS Integers, Sequences

CONSTANTS NumInputs, NumOutputs, NumChunks, NumPasses

VARIABLES written, status

Total == NumPasses * NumOutputs

\* The slice that is written after n others.
Slice(n) ==
  [pass   |-> n \div NumOutputs,
   output |-> n % NumOutputs,
   data   |-> [chunk |-> [c \in 0..NumChunks-1 |->
                           [i \in 1..NumInputs |->
                              <<i - 1, [pass |-> n \div NumOutputs, input |-> i - 1]>>]]]]

Init == written = <<>> /\ status = "busy"

Write ==
  /\ status = "busy"
  /\ Len(written) < Total
  /\ written' = Append(written, Slice(Len(written)))
  /\ status' = IF Len(written) + 1 = Total THEN "done" ELSE "busy"

Fail == status = "busy" /\ status' = "failed" /\ UNCHANGED written

Next == Write \/ Fail

Spec == Init /\ [][Next]_<<written, status>>
=============================================================================
