-------------------------- MODULE MCControlSession --------------------------
(* ControlSession on a small instance; the cfg gives the constants values.  *)
EXTENDS ControlSession, TLC

\* HTTP handlers are interchangeable, and so are connections not yet dialled;
\* sound for a run that states no liveness.
Symmetry == Permutations(Handlers) \cup Permutations(Conns) \cup Permutations(Peers)
=============================================================================
