------------------------------ MODULE Geometry ------------------------------
(***************************************************************************)
(* Points, rectangles and edges (internal/platform/platform.go and the     *)
(* helpers of internal/app/service.go).  Coordinates are whole pixels: the *)
(* code computes with floats, and the fraction of a pixel that scaling a   *)
(* position leaves is dropped here.                                        *)
(***************************************************************************)
EXTENDS Integers

CONSTANTS
  EdgeMargin, \* edgeMargin: how near an edge a move counts as crossing it
  Inset       \* how far inside the edge of the peer entryPointFor puts the cursor

ASSUME GeometryAssumption == EdgeMargin \in Nat /\ Inset \in Nat

Directions == {"left", "right", "up", "down"}
Points == [x : Int, y : Int]
Rects == [x : Int, y : Int, w : Int, h : Int]

MaxX(r) == r.x + r.w
MaxY(r) == r.y + r.h
Empty(r) == r.w <= 0 \/ r.h <= 0

\* v raised to lo, then lowered to hi.
Between(lo, hi, v) ==
  LET raised == IF v < lo THEN lo ELSE v IN IF raised > hi THEN hi ELSE raised

Clamp(r, p) ==
  IF Empty(r) THEN p
  ELSE [x |-> Between(r.x, MaxX(r) - 1, p.x), y |-> Between(r.y, MaxY(r) - 1, p.y)]

Moved(p, by) == [x |-> p.x + by.x, y |-> p.y + by.y]
Centre(r) == [x |-> r.x + r.w \div 2, y |-> r.y + r.h \div 2]

\* The edge of r that p is at, the first that applies; "" if none.
EdgeAt(r, p) ==
  CASE p.x <= r.x + EdgeMargin -> "left"
    [] p.x > r.x + EdgeMargin /\ p.x >= MaxX(r) - 1 - EdgeMargin -> "right"
    [] p.x > r.x + EdgeMargin /\ p.x < MaxX(r) - 1 - EdgeMargin
         /\ p.y <= r.y + EdgeMargin -> "up"
    [] p.x > r.x + EdgeMargin /\ p.x < MaxX(r) - 1 - EdgeMargin
         /\ p.y > r.y + EdgeMargin /\ p.y >= MaxY(r) - 1 - EdgeMargin -> "down"
    [] OTHER -> ""

Overlap(aStart, aEnd, bStart, bEnd) == aStart < bEnd /\ bStart < aEnd
OverlapX(a, b) == Overlap(a.x, MaxX(a), b.x, MaxX(b))
OverlapY(a, b) == Overlap(a.y, MaxY(a), b.y, MaxY(b))

\* Node lies against the edge of self in direction d.
Adjoins(d, self, node) ==
  \/ d = "left" /\ MaxX(node) = self.x /\ OverlapY(node, self)
  \/ d = "right" /\ MaxX(self) = node.x /\ OverlapY(node, self)
  \/ d = "up" /\ MaxY(node) = self.y /\ OverlapX(node, self)
  \/ d = "down" /\ MaxY(self) = node.y /\ OverlapX(node, self)

\* The position of at in local, scaled to peer, for a local that is not empty.
Scaled(local, peer, at) ==
  [x |-> peer.x + ((at.x - local.x) * peer.w) \div local.w,
   y |-> peer.y + ((at.y - local.y) * peer.h) \div local.h]

EntryPoint(d, local, peer, at) ==
  LET p == Scaled(local, peer, at) IN
  Clamp(peer, CASE d = "left"  -> [p EXCEPT !.x = MaxX(peer) - Inset]
                [] d = "right" -> [p EXCEPT !.x = peer.x + Inset]
                [] d = "up"    -> [p EXCEPT !.y = MaxY(peer) - Inset]
                [] d = "down"  -> [p EXCEPT !.y = peer.y + Inset]
                [] OTHER -> p)

\* shouldReturnToLocal: next lies beyond the edge d of the peer.
BeyondEdge(d, peer, next) ==
  \/ d = "left" /\ next.x < peer.x
  \/ d = "right" /\ next.x > MaxX(peer) - 1
  \/ d = "up" /\ next.y < peer.y
  \/ d = "down" /\ next.y > MaxY(peer) - 1

\* p is a pixel of r.
Inside(r, p) == /\ p.x >= r.x /\ p.x <= MaxX(r) - 1
                /\ p.y >= r.y /\ p.y <= MaxY(r) - 1

\* One pixel from p in direction d, and the direction opposite to d.
Neighbour(d, p) ==
  Moved(p, CASE d = "left" -> [x |-> -1, y |-> 0] [] d = "right" -> [x |-> 1, y |-> 0]
             [] d = "up" -> [x |-> 0, y |-> -1] [] d = "down" -> [x |-> 0, y |-> 1])
Opposite(d) ==
  CASE d = "left" -> "right" [] d = "right" -> "left" [] d = "up" -> "down" [] d = "down" -> "up"
=============================================================================
