--------------------------- MODULE MCProcessData ---------------------------
(* Small instances of ProcessData for TLC. *)
EXTENDS ProcessData

MCBuffers == 0..1
=============================================================================
