---------------------------- MODULE MCVerifyChunks ----------------------------
(* Small instances of VerifyChunks for TLC. *)
EXTENDS VerifyChunks

=============================================================================
