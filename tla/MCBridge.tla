------------------------------- MODULE MCBridge -------------------------------
(* Bridge on a small instance; the cfg gives the constants values.          *)
EXTENDS Bridge, TLC

\* For the run on macOS, which states no liveness.
Symmetry == Permutations(Handlers) \cup Permutations(Conns) \cup Permutations(Peers)
=============================================================================
