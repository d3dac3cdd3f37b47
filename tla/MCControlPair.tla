---------------------------- MODULE MCControlPair ----------------------------
(* ControlPair: two machines that control each other and a third that       *)
(* controls one of them.                                                   *)
EXTENDS ControlPair, TLC

CONSTANTS a, b, d, shift

MCOS == (a :> "windows") @@ (b :> "darwin") @@ (d :> "windows")
MCClass == (shift :> "modifier")
MCControls == {<<a, b>>, <<b, a>>, <<d, b>>}
Symmetry == Permutations(Conns)
=============================================================================
