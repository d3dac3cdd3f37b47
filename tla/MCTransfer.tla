----------------------------- MODULE MCTransfer -----------------------------
(* Transfer with an archive of two chunks and one of a single chunk.        *)
EXTENDS Transfer, TLC

CONSTANTS u1, u2

MCSize == (u1 :> 2) @@ (u2 :> 1)
=============================================================================
