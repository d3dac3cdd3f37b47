------------------------------ MODULE MCPairing ------------------------------
(* Pairing on a small instance; the machines are interchangeable.            *)
EXTENDS Pairing, TLC

Symmetry == Permutations(Nodes)
=============================================================================
