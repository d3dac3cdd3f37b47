---------------------------- MODULE MCEdgeHandoff ----------------------------
(* EdgeHandoff on a screen of 5 by 5 pixels with one or two peers of 4 by 3. *)
EXTENDS EdgeHandoff, TLC

CONSTANTS self, m1, m2

Rect(x, y, w, h) == [x |-> x, y |-> y, w |-> w, h |-> h]
MCLocal == Rect(0, 0, 5, 5)

\* The peers at two edges; one at the third and one touching a corner only;
\* one at the fourth, the other not placed.
MCLayouts ==
  { (self :> MCLocal) @@ (m1 :> Rect(5, 1, 4, 3)) @@ (m2 :> Rect(-4, 3, 4, 3)),
    (self :> MCLocal) @@ (m1 :> Rect(5, 5, 4, 3)) @@ (m2 :> Rect(2, -3, 4, 3)),
    (self :> MCLocal) @@ (m1 :> Rect(0, 5, 4, 3)) }

MCDeltas == {[x |-> 2, y |-> 0], [x |-> -2, y |-> 0], [x |-> 0, y |-> 2],
             [x |-> 0, y |-> -2], [x |-> 0, y |-> 0]}
=============================================================================
