--------------------------- MODULE MCChunkOperator ---------------------------
(* Small instances of ChunkOperator for TLC. *)
EXTENDS ChunkOperator, TLC

=============================================================================
