----------------------------- MODULE EdgeHandoff -----------------------------
(***************************************************************************)
(* Where the cursor is while control moves between machines               *)
(* (internal/app/service.go): a move at a screen edge hands the mouse to   *)
(* the peer placed there, moves then steer the peer's cursor, and a move   *)
(* beyond an edge of the peer ends the session.                            *)
(*                                                                         *)
(* Events reach the consumer through a bounded channel, so that a move is  *)
(* acted on after later ones have been captured, and the layout or the     *)
(* trust in a peer may change under a session.  How a session is set up    *)
(* and torn down step by step is ControlSession's concern: here a begin    *)
(* and a stop are one step each, and they may come between the three steps *)
(* in which a move is forwarded.  Buttons and keys move no cursor of this  *)
(* model and are left out.                                                 *)
(***************************************************************************)
EXTENDS Geometry, Sequences

CONSTANTS
  Self, Peers,
  None,
  Local,     \* s.localBounds
  Layouts,   \* the layouts a user saves; bounds settings.Layout
  Deltas,    \* the moves of the mouse; bounds DeltaX, DeltaY
  Capacity   \* size of the event channel (512 in the code)

Moves == [at : Points, by : Points]
\* own: the last position stored in it was computed from it; the code has no
\* such flag, only the properties look at it.
Sessions == [peer : Peers, bounds : Rects, from : Directions \cup {""},
             cursor : Points, alive : BOOLEAN, own : BOOLEAN]
\* What forwardControlEvent has in its local variables: the position it is
\* going to send, whether the session and connection it read are still those of
\* the service, and whether it has stored the position.
Aims == [to : Points, current : BOOLEAN, stored : BOOLEAN]

ASSUME EdgeHandoffAssumption ==
  /\ Local \in Rects /\ ~Empty(Local)
  /\ \A l \in Layouts :
       /\ Self \in DOMAIN l /\ DOMAIN l \subseteq Peers \cup {Self}
       /\ \A n \in DOMAIN l : l[n] \in Rects /\ ~Empty(l[n])
  /\ Deltas \subseteq Points
  /\ Capacity \in Nat
  /\ Self \notin Peers
  /\ None \notin Points \cup Sessions \cup Aims

VARIABLES
  layout,   \* settings.Layout: a rectangle for each placed device
  trusted,  \* the peers whose status is trusted
  cursor,   \* the local cursor
  events,   \* the channel of captured moves: where the cursor was, and by how much
  session,  \* s.controlState, and whether its connection still works
  aim,      \* the move the consumer is forwarding
  injected  \* where the session's peer was last told to put its cursor, if it was

vars == <<layout, trusted, cursor, events, session, aim, injected>>

Init ==
  /\ layout \in Layouts
  /\ trusted \in SUBSET Peers
  /\ cursor = Centre(Local)
  /\ events = << >>
  /\ session = None
  /\ aim = None
  /\ injected = None

-----------------------------------------------------------------------------
(* Capture                                                                 *)

\* Bug: the channel has no bound.
Capture_NeverDrops(by) ==
  /\ cursor' = IF session = None THEN Clamp(Local, Moved(cursor, by)) ELSE cursor
  /\ events' = Append(events, [at |-> cursor', by |-> by])
  /\ UNCHANGED <<layout, trusted, session, aim, injected>>

\* The event tap or hook: while a session holds the input back the cursor is
\* detached and stays, otherwise it moves.  A full channel drops the event.
Capture(by) ==
  /\ cursor' = IF session = None THEN Clamp(Local, Moved(cursor, by)) ELSE cursor
  /\ events' = IF Len(events) < Capacity
                 THEN Append(events, [at |-> cursor', by |-> by])
                 ELSE events
  /\ UNCHANGED <<layout, trusted, session, aim, injected>>

-----------------------------------------------------------------------------
(* beginControl, stopControlSession                                        *)

\* The local cursor is released where it was held.
End == session' = None /\ injected' = None

NewSession(p, d, at, alive) ==
  [peer |-> p, bounds |-> layout[p], from |-> d,
   cursor |-> EntryPoint(d, Local, layout[p], at), alive |-> alive, own |-> TRUE]

\* A peer that is trusted and placed is dialled and told where its cursor
\* enters; the local cursor is put, and held, where the move was captured.
\* If the dial, the enter message or the bridge fails, the earlier session is
\* over and there is no new one; if only the first move fails there is one.
Begin(p, d, at) ==
  /\ p \in trusted /\ p \in DOMAIN layout
  /\ \/ /\ \E alive \in BOOLEAN :
             /\ session' = NewSession(p, d, at, alive)
             /\ injected' = IF alive THEN session'.cursor ELSE None
        /\ cursor' = at
     \/ End /\ UNCHANGED cursor
  /\ UNCHANGED <<layout, trusted>>

\* A handler of the UI's requests runs beside the consumer: the move being
\* forwarded was computed for a session that is over.
Outdated == aim' = IF aim = None THEN None ELSE [aim EXCEPT !.current = FALSE]

StartControl(p) == Begin(p, "", Centre(Local)) /\ Outdated /\ UNCHANGED events

StopControl == End /\ Outdated /\ UNCHANGED <<layout, trusted, cursor, events>>

-----------------------------------------------------------------------------
(* handleLocalEvent, for the oldest event in the channel                   *)

Pending == events # << >> /\ aim = None
Take == events' = Tail(events) /\ UNCHANGED aim

\* adjacentPeer: any of them, as the code takes the first of a map.
AdjacentPeers(d) ==
  {p \in trusted \cap DOMAIN layout : Adjoins(d, layout[Self], layout[p])}

\* Bug: only the position of the edges is compared, not the overlap.
CrossEdge_NoOverlap(p) ==
  /\ Pending /\ session = None
  /\ LET d == EdgeAt(Local, Head(events).at) IN
       /\ d # "" /\ p \in trusted \cap DOMAIN layout
       /\ \/ d = "left" /\ MaxX(layout[p]) = layout[Self].x
          \/ d = "right" /\ MaxX(layout[Self]) = layout[p].x
          \/ d = "up" /\ MaxY(layout[p]) = layout[Self].y
          \/ d = "down" /\ MaxY(layout[Self]) = layout[p].y
       /\ Begin(p, d, Head(events).at)
  /\ Take

CrossEdge(p) ==
  /\ Pending /\ session = None
  /\ LET d == EdgeAt(Local, Head(events).at) IN
       /\ d # "" /\ p \in AdjacentPeers(d)
       /\ Begin(p, d, Head(events).at)
  /\ Take

\* No edge, or nobody there.
StayLocal ==
  /\ Pending /\ session = None
  /\ AdjacentPeers(EdgeAt(Local, Head(events).at)) = {}
  /\ Take
  /\ UNCHANGED <<layout, trusted, cursor, session, injected>>

\* Where the oldest move would take the remote cursor.
Target == Moved(session.cursor, Head(events).by)

IgnoreMove ==
  /\ Pending /\ session # None
  /\ Target = session.cursor
  /\ Take
  /\ UNCHANGED <<layout, trusted, cursor, session, injected>>

ReturnToLocal ==
  /\ Pending /\ session # None
  /\ Target # session.cursor /\ BeyondEdge(session.from, session.bounds, Target)
  /\ End /\ Take
  /\ UNCHANGED <<layout, trusted, cursor>>

\* Bug: the position is not kept inside the peer.
SteerRemote_Unclamped ==
  /\ Pending /\ session # None
  /\ Target # session.cursor /\ ~BeyondEdge(session.from, session.bounds, Target)
  /\ aim' = [to |-> Target, current |-> TRUE, stored |-> FALSE]
  /\ events' = Tail(events)
  /\ UNCHANGED <<layout, trusted, cursor, session, injected>>

\* Session and connection are read, and the move is kept inside the peer.
SteerRemote ==
  /\ Pending /\ session # None
  /\ Target # session.cursor /\ ~BeyondEdge(session.from, session.bounds, Target)
  /\ aim' = [to |-> Clamp(session.bounds, Target), current |-> TRUE, stored |-> FALSE]
  /\ events' = Tail(events)
  /\ UNCHANGED <<layout, trusted, cursor, session, injected>>

\* Bug: the position is stored in a copy of the session.
StoreCursor_InCopy ==
  /\ aim # None /\ ~aim.stored
  /\ aim' = [aim EXCEPT !.stored = TRUE]
  /\ UNCHANGED <<layout, trusted, cursor, events, session, injected>>

\* The position is stored in whichever session there is by now.
StoreCursor ==
  /\ aim # None /\ ~aim.stored
  /\ session' = IF session = None THEN None
                ELSE [session EXCEPT !.cursor = aim.to, !.own = aim.current]
  /\ aim' = [aim EXCEPT !.stored = TRUE]
  /\ UNCHANGED <<layout, trusted, cursor, events, injected>>

Sending == aim # None /\ aim.stored /\ aim' = None

\* The position is sent on the connection that was read; one that is closed, or
\* no longer works, may swallow it.
SendMove ==
  /\ Sending
  /\ injected' = IF aim.current /\ session.alive THEN aim.to ELSE injected
  /\ UNCHANGED <<layout, trusted, cursor, events, session>>

\* ... or report an error, which stops whichever session there is.
SendFails ==
  /\ Sending /\ (aim.current => ~session.alive)
  /\ End
  /\ UNCHANGED <<layout, trusted, cursor, events>>

-----------------------------------------------------------------------------
(* Everything that happens under a session                                 *)

\* A layout the user saves here, or one that a peer's layout.update brings.
SaveLayout(l) ==
  /\ layout' = l
  /\ UNCHANGED <<trusted, cursor, events, session, aim, injected>>

ChangeTrust(p) ==
  /\ trusted' = IF p \in trusted THEN trusted \ {p} ELSE trusted \cup {p}
  /\ UNCHANGED <<layout, cursor, events, session, aim, injected>>

ConnectionBreaks ==
  /\ session # None /\ session.alive
  /\ session' = [session EXCEPT !.alive = FALSE]
  /\ UNCHANGED <<layout, trusted, cursor, events, aim, injected>>

-----------------------------------------------------------------------------
Next ==
  \/ \E by \in Deltas : Capture(by)
  \/ \E p \in Peers : StartControl(p) \/ CrossEdge(p) \/ ChangeTrust(p)
  \/ StopControl
  \/ StayLocal \/ IgnoreMove \/ ReturnToLocal \/ SteerRemote
  \/ StoreCursor \/ SendMove \/ SendFails
  \/ \E l \in Layouts : SaveLayout(l)
  \/ ConnectionBreaks

Spec == Init /\ [][Next]_vars

-----------------------------------------------------------------------------
(* Properties                                                              *)

\* Every variable holds values of the type it stands for.
TypeOK ==
  /\ layout \in Layouts
  /\ trusted \subseteq Peers
  /\ cursor \in Points
  /\ events \in Seq(Moves) /\ Len(events) <= Capacity
  /\ session \in Sessions \cup {None}
  /\ aim \in Aims \cup {None}
  /\ injected \in Points \cup {None}

\* Whatever was captured, dropped or saved since a session began, the peer is
\* only told positions on its screen, and the cursor the session steers is there
\* too: the clamps use the bounds the session began with, and no sum of moves
\* drifts out of them.  A position computed for an earlier session may be
\* stored, and then only what is told stays there.
RemoteCursorInBounds ==
  session # None =>
    /\ session.own => Inside(session.bounds, session.cursor)
    /\ injected # None => Inside(session.bounds, injected)

\* Between moves, what the peer was last told is what the session goes on from,
\* as long as its connection works: a move refused at one edge is refused on
\* both sides.  A session that got the position of an earlier one is in step
\* again with its first move.
PeerShowsTrackedCursor ==
  session # None /\ session.alive /\ session.own /\ aim = None =>
    injected = session.cursor

\* A pixel of b has one of a beside it, in the direction opposite to d.
Touches(d, a, b) ==
  \E x \in b.x .. MaxX(b) - 1, y \in b.y .. MaxY(b) - 1 :
    Inside(a, Neighbour(Opposite(d), [x |-> x, y |-> y]))

\* p is at most n pixels from the ones along edge d of r, inwards.
Near(d, r, p, n) ==
  \E i \in 0 .. n :
    \/ d = "left" /\ p.x = r.x + i
    \/ d = "right" /\ p.x = MaxX(r) - 1 - i
    \/ d = "up" /\ p.y = r.y + i
    \/ d = "down" /\ p.y = MaxY(r) - 1 - i

CrossingShared ==
  \A d \in Directions :
    session = None /\ session' # None /\ session'.from = d =>
      /\ session'.peer \in trusted
      /\ Touches(d, layout[Self], session'.bounds)
      /\ Near(d, Local, cursor', EdgeMargin)
      /\ Near(Opposite(d), session'.bounds, session'.cursor, Inset)

\* Control crosses an edge only to a trusted peer one of whose pixels touches
\* one of this machine's across that edge in the layout of that moment, from
\* within EdgeMargin of the edge, to within Inset of the edge that faces it.
CrossesSharedBorder == [][CrossingShared]_vars
=============================================================================
