---------------------------- MODULE MCLayoutSync ----------------------------
(* LayoutSync with three machines: A trusts both others, B's layout and one *)
(* of the drafts leave machines out, and C has no measured screen.          *)
EXTENDS LayoutSync, TLC

CONSTANTS a, b, c

Rect(x, y, w, h) == [x |-> x, y |-> y, w |-> w, h |-> h]
MCScreen == (a :> [w |-> 2, h |-> 2]) @@ (b :> [w |-> 1, h |-> 2]) @@ (c :> Unknown)
MCLoaded == (a :> << >>) @@ (b :> (b :> Rect(0, 0, 2, 2))) @@ (c :> << >>)
MCPaired == (a :> {b, c}) @@ (b :> {a}) @@ (c :> {})
MCDrafts ==
  {(a :> Rect(0, 0, 2, 2)) @@ (b :> Rect(2, 0, 1, 1)),
   (a :> Rect(0, 0, 2, 2)) @@ (b :> Rect(0, -2, 1, 2)) @@ (c :> Rect(2, 0, 1, 1))}
MCApprovals == {<<a, c>>, <<c, a>>}
=============================================================================
