------------------------- MODULE MCFileCheckSummer -------------------------
(* Files of up to three blocks and a bit, of every size.                     *)
EXTENDS FileCheckSummer
MCFileSizes == 1 .. 3 * BlockSize + 1
=============================================================================
