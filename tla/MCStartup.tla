------------------------------ MODULE MCStartup ------------------------------
(* Startup with a few launches of one machine's MouseShare.                  *)
EXTENDS Startup, TLC

\* Launches are interchangeable; the run states no liveness.
Symmetry == Permutations(Launches)
=============================================================================
