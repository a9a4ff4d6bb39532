--------------------------- MODULE MCSliceChunks ---------------------------
(* A small instance of SliceChunks for TLC. *)
EXTENDS SliceChunks

MCIdealChunks == {4, 8}
=============================================================================
