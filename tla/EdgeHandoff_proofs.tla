------------------------- MODULE EdgeHandoff_proofs -------------------------
(***************************************************************************)
(* Proofs about Geometry and EdgeHandoff for any screens, layouts and      *)
(* moves: the peer is only told positions on its screen, and between moves *)
(* the one the session goes on from, whatever starts and stops come between *)
(* the steps of forwarding a move.                                         *)
(***************************************************************************)
EXTENDS EdgeHandoff, TLAPS

-----------------------------------------------------------------------------
(* Geometry                                                                *)

LEMMA BetweenBounds ==
  ASSUME NEW lo \in Int, NEW hi \in Int, NEW v \in Int, lo <= hi
  PROVE  Between(lo, hi, v) \in lo .. hi
BY DEF Between

\* Rect.Clamp returns a pixel of the rectangle, when it has one.
LEMMA ClampInside ==
  ASSUME NEW r \in Rects, NEW p \in Points, ~Empty(r)
  PROVE  Clamp(r, p) \in Points /\ Inside(r, Clamp(r, p))
<1>1. /\ r.x \in Int /\ MaxX(r) - 1 \in Int /\ r.x <= MaxX(r) - 1
      /\ r.y \in Int /\ MaxY(r) - 1 \in Int /\ r.y <= MaxY(r) - 1
      /\ p.x \in Int /\ p.y \in Int
  BY DEF Rects, Points, Empty, MaxX, MaxY
<1>2. /\ Between(r.x, MaxX(r) - 1, p.x) \in r.x .. MaxX(r) - 1
      /\ Between(r.y, MaxY(r) - 1, p.y) \in r.y .. MaxY(r) - 1
  BY <1>1, BetweenBounds
<1>3. Clamp(r, p) = [x |-> Between(r.x, MaxX(r) - 1, p.x), y |-> Between(r.y, MaxY(r) - 1, p.y)]
  BY DEF Clamp
<1> QED
  BY <1>1, <1>2, <1>3 DEF Points, Inside

LEMMA MovedPoint ==
  ASSUME NEW p \in Points, NEW by \in Points PROVE Moved(p, by) \in Points
BY DEF Moved, Points

LEMMA CentrePoint ==
  ASSUME NEW r \in Rects PROVE Centre(r) \in Points
BY DEF Centre, Points, Rects

\* entryPointFor returns a pixel of the peer, whatever the direction.
LEMMA EntryInside ==
  ASSUME NEW d, NEW local \in Rects, NEW peer \in Rects, NEW at \in Points,
         ~Empty(local), ~Empty(peer)
  PROVE  /\ EntryPoint(d, local, peer, at) \in Points
         /\ Inside(peer, EntryPoint(d, local, peer, at))
<1> DEFINE s == Scaled(local, peer, at)
           e == CASE d = "left"  -> [s EXCEPT !.x = MaxX(peer) - Inset]
                  [] d = "right" -> [s EXCEPT !.x = peer.x + Inset]
                  [] d = "up"    -> [s EXCEPT !.y = MaxY(peer) - Inset]
                  [] d = "down"  -> [s EXCEPT !.y = peer.y + Inset]
                  [] OTHER -> s
<1>1. s \in Points
  <2>1. /\ local.w \in Int /\ local.w > 0 /\ local.h \in Int /\ local.h > 0
        /\ (at.x - local.x) * peer.w \in Int /\ (at.y - local.y) * peer.h \in Int
        /\ peer.x \in Int /\ peer.y \in Int
    BY DEF Rects, Points, Empty
  <2>2. /\ peer.x + ((at.x - local.x) * peer.w) \div local.w \in Int
        /\ peer.y + ((at.y - local.y) * peer.h) \div local.h \in Int
    <3> DEFINE nx == (at.x - local.x) * peer.w
               ny == (at.y - local.y) * peer.h
    <3>1. nx \in Int /\ ny \in Int
      BY <2>1
    <3> HIDE DEF nx, ny
    <3>2. nx \div local.w \in Int /\ ny \div local.h \in Int
      BY <2>1, <3>1
    <3> QED
      BY <2>1, <3>2 DEF nx, ny
  <2> QED
    BY <2>2 DEF Scaled, Points
<1>2. MaxX(peer) - Inset \in Int /\ peer.x + Inset \in Int
      /\ MaxY(peer) - Inset \in Int /\ peer.y + Inset \in Int
  BY GeometryAssumption DEF Rects, MaxX, MaxY
<1> HIDE DEF s
<1>3. e \in Points
  BY <1>1, <1>2 DEF Points
<1>4. EntryPoint(d, local, peer, at) = Clamp(peer, e)
  BY DEF EntryPoint, s
<1> HIDE DEF e
<1> QED
  BY <1>3, <1>4, ClampInside

LEMMA EdgeIsDirection ==
  ASSUME NEW r, NEW p PROVE EdgeAt(r, p) \in Directions \cup {""}
BY DEF EdgeAt, Directions

-----------------------------------------------------------------------------
(* The invariant                                                           *)

\* A session's peer has pixels, the peer was told one of them, and the cursor
\* is one too unless it was computed for an earlier session.
SessionSound ==
  session # None =>
    /\ ~Empty(session.bounds)
    /\ session.own => Inside(session.bounds, session.cursor)
    /\ injected # None => Inside(session.bounds, injected)

\* A move whose session is still there aims at a pixel of its peer, and once
\* stored it is where that session's cursor is.
AimSound ==
  aim # None /\ aim.current =>
    /\ session # None
    /\ Inside(session.bounds, aim.to)
    /\ aim.stored => session.own /\ session.cursor = aim.to

\* The peer lags behind the session's cursor only while a move is stored and
\* not sent.
InStep ==
  session # None /\ session.alive /\ session.own /\ ~(aim # None /\ aim.current /\ aim.stored) =>
    injected = session.cursor

HandoffInv == TypeOK /\ SessionSound /\ AimSound /\ InStep

LEMMA LayoutSound ==
  ASSUME NEW l \in Layouts, NEW n \in DOMAIN l
  PROVE  l[n] \in Rects /\ ~Empty(l[n])
BY EdgeHandoffAssumption

LEMMA InitHandoff == Init => HandoffInv
<1> SUFFICES ASSUME Init PROVE HandoffInv
  OBVIOUS
<1>1. cursor \in Points
  BY CentrePoint, EdgeHandoffAssumption DEF Init
<1>2. events \in Seq(Moves) /\ Len(events) = 0
  BY DEF Init
<1> QED
  BY <1>1, <1>2, EdgeHandoffAssumption
  DEF Init, HandoffInv, TypeOK, SessionSound, AimSound, InStep

\* Taking the oldest event leaves a channel within its capacity, and what is
\* taken is a move.
LEMMA TakeTyped ==
  ASSUME TypeOK, Pending, events' = Tail(events)
  PROVE  /\ events' \in Seq(Moves) /\ Len(events') <= Capacity
         /\ Head(events) \in Moves
         /\ Head(events).at \in Points /\ Head(events).by \in Points
<1>1. events \in Seq(Moves) /\ events # << >> /\ Len(events) <= Capacity
  BY DEF TypeOK, Pending
<1>2. Head(events) \in Moves /\ Tail(events) \in Seq(Moves) /\ Len(Tail(events)) = Len(events) - 1
  BY <1>1
<1>3. Len(events) \in Nat /\ Capacity \in Nat
  BY <1>1, EdgeHandoffAssumption
<1> QED
  BY <1>1, <1>2, <1>3 DEF Moves

LEMMA CaptureKeeps ==
  ASSUME HandoffInv, NEW by \in Deltas, Capture(by)
  PROVE  HandoffInv'
<1>1. by \in Points /\ cursor \in Points
  BY EdgeHandoffAssumption DEF HandoffInv, TypeOK
<1>2. cursor' \in Points
  <2>1. Clamp(Local, Moved(cursor, by)) \in Points
    BY <1>1, MovedPoint, ClampInside, EdgeHandoffAssumption
  <2> QED
    BY <1>1, <2>1 DEF Capture
<1>3. events' \in Seq(Moves) /\ Len(events') <= Capacity
  <2> DEFINE m == [at |-> cursor', by |-> by]
  <2>1. m \in Moves
    BY <1>1, <1>2 DEF Moves
  <2>2. events \in Seq(Moves) /\ Len(events) <= Capacity /\ Capacity \in Nat
    BY EdgeHandoffAssumption DEF HandoffInv, TypeOK
  <2>3. events' = IF Len(events) < Capacity THEN Append(events, m) ELSE events
    BY DEF Capture
  <2> HIDE DEF m
  <2>4. Append(events, m) \in Seq(Moves) /\ Len(Append(events, m)) = Len(events) + 1
    BY <2>1, <2>2
  <2>5. CASE Len(events) < Capacity
    <3>1. events' = Append(events, m) /\ Len(events) \in Nat
      BY <2>2, <2>3, <2>5
    <3> QED
      BY <2>2, <2>4, <2>5, <3>1
  <2>6. CASE ~(Len(events) < Capacity)
    BY <2>2, <2>3, <2>6
  <2> QED
    BY <2>5, <2>6
<1> QED
  BY <1>2, <1>3 DEF Capture, HandoffInv, TypeOK, SessionSound, AimSound, InStep

\* A handler's start or stop leaves the consumer with a move of a session that
\* is over, if with any.
LEMMA OutdatedAim ==
  ASSUME TypeOK, Outdated
  PROVE  aim' \in Aims \cup {None} /\ ~(aim' # None /\ aim'.current)
<1>1. CASE aim = None
  BY <1>1 DEF Outdated
<1>2. CASE aim # None
  BY <1>2 DEF Outdated, TypeOK, Aims
<1> QED
  BY <1>1, <1>2

\* A new session has its cursor at an entry point of the peer.
LEMMA BeginKeeps ==
  ASSUME HandoffInv, NEW p \in Peers, NEW d \in Directions \cup {""}, NEW at \in Points,
         Begin(p, d, at), events' \in Seq(Moves), Len(events') <= Capacity,
         aim' \in Aims \cup {None}, ~(aim' # None /\ aim'.current)
  PROVE  HandoffInv'
<1>1. p \in DOMAIN layout /\ layout \in Layouts /\ UNCHANGED <<layout, trusted>>
  BY DEF Begin, HandoffInv, TypeOK
<1>2. layout[p] \in Rects /\ ~Empty(layout[p])
  BY <1>1, LayoutSound
<1> DEFINE e == EntryPoint(d, Local, layout[p], at)
<1>3. e \in Points /\ Inside(layout[p], e)
  BY <1>2, EntryInside, EdgeHandoffAssumption
<1>4. CASE End /\ UNCHANGED cursor
  BY <1>1, <1>4 DEF End, HandoffInv, TypeOK, SessionSound, AimSound, InStep
<1>5. ASSUME NEW alive \in BOOLEAN, session' = NewSession(p, d, at, alive),
             injected' = IF alive THEN session'.cursor ELSE None, cursor' = at
      PROVE  HandoffInv'
  <2>1. session' = [peer |-> p, bounds |-> layout[p], from |-> d, cursor |-> e, alive |-> alive,
                   own |-> TRUE]
    BY <1>5 DEF NewSession
  <2> HIDE DEF e
  <2>2. session' \in Sessions
    BY <1>2, <1>3, <2>1 DEF Sessions
  <2>3. injected' \in {e, None} /\ (alive => injected' = e)
    <3>1. session'.cursor = e
      BY <2>1
    <3>2. CASE alive = TRUE
      BY <1>5, <3>1, <3>2
    <3>3. CASE alive = FALSE
      BY <1>5, <3>3
    <3> QED
      BY <3>2, <3>3
  <2>4. TypeOK'
    BY <1>1, <1>3, <1>5, <2>2, <2>3 DEF HandoffInv, TypeOK
  <2>5. /\ session'.bounds = layout[p] /\ session'.cursor = e /\ session'.alive = alive
    BY <2>1
  <2>6. SessionSound' /\ AimSound' /\ InStep'
    BY <1>2, <1>3, <2>3, <2>5 DEF SessionSound, AimSound, InStep
  <2> QED
    BY <2>4, <2>6 DEF HandoffInv
<1> QED
  BY <1>4, <1>5 DEF Begin

LEMMA SteerKeeps ==
  ASSUME HandoffInv, SteerRemote
  PROVE  HandoffInv'
<1>1. /\ session \in Sessions /\ session # None /\ Pending /\ events' = Tail(events)
      /\ UNCHANGED <<layout, trusted, cursor, session, injected>>
  BY DEF SteerRemote, HandoffInv, TypeOK
<1>2. /\ events' \in Seq(Moves) /\ Len(events') <= Capacity
      /\ Head(events).by \in Points
  BY <1>1, TakeTyped DEF HandoffInv
<1>3. Clamp(session.bounds, Target) \in Points
      /\ Inside(session.bounds, Clamp(session.bounds, Target))
  <2>1. session.cursor \in Points /\ session.bounds \in Rects /\ ~Empty(session.bounds)
    BY <1>1 DEF Sessions, HandoffInv, SessionSound
  <2>2. Target \in Points
    BY <1>2, <2>1, MovedPoint DEF Target
  <2> QED
    BY <2>1, <2>2, ClampInside
<1>4. /\ aim' \in Aims /\ aim'.to = Clamp(session.bounds, Target) /\ ~aim'.stored
  BY <1>3 DEF SteerRemote, Aims
<1>5. TypeOK'
  BY <1>1, <1>2, <1>4 DEF HandoffInv, TypeOK
<1>6. AimSound'
  BY <1>1, <1>3, <1>4 DEF AimSound
<1>7. SessionSound' /\ InStep'
  BY <1>1 DEF HandoffInv, SessionSound, InStep, Pending
<1> QED
  BY <1>5, <1>6, <1>7 DEF HandoffInv

\* The position goes into its own session, or into another's, which is marked.
LEMMA StoreKeeps ==
  ASSUME HandoffInv, StoreCursor
  PROVE  HandoffInv'
<1>1. /\ aim \in Aims /\ aim # None /\ ~aim.stored /\ aim' = [aim EXCEPT !.stored = TRUE]
      /\ session \in Sessions \cup {None}
      /\ UNCHANGED <<layout, trusted, cursor, events, injected>>
  BY DEF StoreCursor, HandoffInv, TypeOK
<1>2. aim' \in Aims /\ aim'.to = aim.to /\ aim'.current = aim.current /\ aim'.stored
  BY <1>1 DEF Aims
<1>3. CASE session = None
  <2>1. session' = None /\ ~aim.current
    BY <1>1, <1>3 DEF StoreCursor, HandoffInv, AimSound
  <2> QED
    BY <1>1, <1>2, <2>1 DEF HandoffInv, TypeOK, SessionSound, AimSound, InStep
<1>4. CASE session # None
  <2>1. session' = [session EXCEPT !.cursor = aim.to, !.own = aim.current]
    BY <1>4 DEF StoreCursor
  <2>2. /\ session' \in Sessions /\ session'.cursor = aim.to /\ session'.own = aim.current
        /\ session'.bounds = session.bounds /\ session'.alive = session.alive
    BY <1>1, <1>4, <2>1 DEF Sessions, Aims
  <2>3. session' # None
    BY <2>2, EdgeHandoffAssumption
  <2>4. TypeOK'
    BY <1>1, <1>2, <2>2 DEF HandoffInv, TypeOK
  <2>5. aim.current => Inside(session.bounds, aim.to)
    BY <1>1 DEF HandoffInv, AimSound
  <2>6. SessionSound'
    BY <1>1, <1>4, <2>2, <2>3, <2>5 DEF HandoffInv, SessionSound
  <2>7. AimSound'
    BY <1>1, <1>2, <2>2, <2>3, <2>5 DEF AimSound
  <2>8. InStep'
    <3>1. CASE aim.current
      <4>1. aim' # None /\ aim'.current /\ aim'.stored
        BY <1>2, <3>1, EdgeHandoffAssumption
      <4> QED
        BY <4>1 DEF InStep
    <3>2. CASE ~aim.current
      <4>1. ~session'.own
        BY <2>2, <3>2
      <4> QED
        BY <4>1 DEF InStep
    <3> QED
      BY <3>1, <3>2
  <2> QED
    BY <2>4, <2>6, <2>7, <2>8 DEF HandoffInv
<1> QED
  BY <1>3, <1>4

\* What is sent to a working connection was stored in its session.
LEMMA SendKeeps ==
  ASSUME HandoffInv, SendMove
  PROVE  HandoffInv'
<1>1. /\ aim \in Aims /\ aim # None /\ aim.stored /\ aim' = None
      /\ UNCHANGED <<layout, trusted, cursor, events, session>>
  BY DEF SendMove, Sending, HandoffInv, TypeOK
<1>2. CASE aim.current /\ session.alive
  <2>1. /\ injected' = aim.to /\ aim.to \in Points
        /\ Inside(session.bounds, aim.to) /\ session.cursor = aim.to
    BY <1>1, <1>2 DEF SendMove, HandoffInv, AimSound, Aims
  <2> QED
    BY <1>1, <2>1 DEF HandoffInv, TypeOK, SessionSound, AimSound, InStep
<1>3. CASE ~(aim.current /\ session.alive)
  <2>1. injected' = injected
    BY <1>3 DEF SendMove
  <2> QED
    BY <1>1, <1>3, <2>1 DEF HandoffInv, TypeOK, SessionSound, AimSound, InStep
<1> QED
  BY <1>2, <1>3

LEMMA OtherStepsKeepHandoff ==
  ASSUME HandoffInv,
         \/ StopControl \/ StayLocal \/ IgnoreMove \/ ReturnToLocal \/ SendFails
         \/ \E l \in Layouts : SaveLayout(l)
         \/ \E p \in Peers : ChangeTrust(p)
         \/ ConnectionBreaks
  PROVE  HandoffInv'
<1> USE DEF HandoffInv, TypeOK, SessionSound, AimSound, InStep
<1>1. CASE StopControl
  BY <1>1, OutdatedAim DEF StopControl, End
<1>2. CASE StayLocal
  BY <1>2, TakeTyped DEF StayLocal, Take
<1>3. CASE IgnoreMove
  BY <1>3, TakeTyped DEF IgnoreMove, Take
<1>4. CASE ReturnToLocal
  BY <1>4, TakeTyped DEF ReturnToLocal, Take, End, Pending
<1>5. CASE SendFails
  BY <1>5 DEF SendFails, Sending, End
<1>6. ASSUME NEW l \in Layouts, SaveLayout(l) PROVE HandoffInv'
  BY <1>6 DEF SaveLayout
<1>7. ASSUME NEW p \in Peers, ChangeTrust(p) PROVE HandoffInv'
  BY <1>7 DEF ChangeTrust
<1>8. CASE ConnectionBreaks
  <2>1. session \in Sessions /\ session' = [session EXCEPT !.alive = FALSE]
    BY <1>8 DEF ConnectionBreaks
  <2>2. /\ session' \in Sessions /\ session'.alive = FALSE
        /\ session'.cursor = session.cursor /\ session'.bounds = session.bounds
        /\ session'.own = session.own
    BY <2>1 DEF Sessions
  <2>3. session' # None
    BY <2>2, EdgeHandoffAssumption
  <2> QED
    BY <1>8, <2>2, <2>3 DEF ConnectionBreaks
<1> QED
  BY <1>1, <1>2, <1>3, <1>4, <1>5, <1>6, <1>7, <1>8

LEMMA NextHandoff == HandoffInv /\ [Next]_vars => HandoffInv'
<1> SUFFICES ASSUME HandoffInv, [Next]_vars PROVE HandoffInv'
  OBVIOUS
<1>1. ASSUME NEW p \in Peers, StartControl(p) PROVE HandoffInv'
  <2>1. Centre(Local) \in Points
    BY CentrePoint, EdgeHandoffAssumption
  <2> QED
    BY <1>1, <2>1, BeginKeeps, OutdatedAim DEF StartControl, HandoffInv, TypeOK
<1>2. ASSUME NEW p \in Peers, CrossEdge(p) PROVE HandoffInv'
  <2> DEFINE d == EdgeAt(Local, Head(events).at)
  <2>1. d \in Directions \cup {""}
    BY EdgeIsDirection
  <2>2. /\ Head(events).at \in Points
        /\ events' \in Seq(Moves) /\ Len(events') <= Capacity
        /\ aim' = None
    BY <1>2, TakeTyped DEF CrossEdge, Take, Pending, HandoffInv
  <2>3. Begin(p, d, Head(events).at)
    BY <1>2 DEF CrossEdge
  <2> HIDE DEF d
  <2> QED
    BY <2>1, <2>2, <2>3, BeginKeeps
<1>3. CASE UNCHANGED vars
  BY <1>3 DEF vars, HandoffInv, TypeOK, SessionSound, AimSound, InStep
<1> QED
  BY <1>1, <1>2, <1>3, CaptureKeeps, SteerKeeps, StoreKeeps, SendKeeps, OtherStepsKeepHandoff
  DEF Next

-----------------------------------------------------------------------------
\* The inductive invariant holds in every reachable state.
THEOREM HandoffInvariant == Spec => []HandoffInv
BY InitHandoff, NextHandoff, PTL DEF Spec

\* Every variable of the hand-off keeps its type.
THEOREM HandoffTypeCorrect == Spec => []TypeOK
<1>1. HandoffInv => TypeOK
  BY DEF HandoffInv
<1> QED
  BY <1>1, HandoffInvariant, PTL

\* What forwardControlEvent sends lies on the peer, and so does the cursor it
\* steers, unless that was computed for an earlier session.
THEOREM CursorStaysOnPeer == Spec => []RemoteCursorInBounds
<1>1. HandoffInv => RemoteCursorInBounds
  BY DEF HandoffInv, SessionSound, RemoteCursorInBounds
<1> QED
  BY <1>1, HandoffInvariant, PTL

\* Between moves, while the connection works, the peer was told the position
\* the session keeps.
THEOREM PeerIsInStep == Spec => []PeerShowsTrackedCursor
<1>1. HandoffInv => PeerShowsTrackedCursor
  BY DEF HandoffInv, InStep, PeerShowsTrackedCursor
<1> QED
  BY <1>1, HandoffInvariant, PTL

-----------------------------------------------------------------------------
(* Where control crosses                                                   *)

\* The cursor, and every captured position, is a pixel of this screen.
Captured ==
  /\ Inside(Local, cursor)
  /\ \A i \in 1 .. Len(events) : Inside(Local, events[i].at)

LEMMA CentreInside ==
  ASSUME NEW r \in Rects, ~Empty(r) PROVE Inside(r, Centre(r))
BY DEF Rects, Empty, Centre, Inside, MaxX, MaxY

LEMMA TailCaptured ==
  ASSUME TypeOK, Captured, Pending, events' = Tail(events)
  PROVE  /\ \A i \in 1 .. Len(events') : Inside(Local, events'[i].at)
         /\ Inside(Local, Head(events).at)
<1>1. events \in Seq(Moves) /\ events # << >>
  BY DEF TypeOK, Pending
<1>2. /\ Len(events) \in Nat \ {0} /\ Len(events') = Len(events) - 1
      /\ \A i \in 1 .. Len(events') : events'[i] = events[i + 1]
      /\ Head(events) = events[1]
  BY <1>1
<1> QED
  BY <1>2 DEF Captured

LEMMA CapturedKept ==
  ASSUME TypeOK, Captured, [Next]_vars
  PROVE  Captured'
<1>1. ASSUME NEW by \in Deltas, Capture(by) PROVE Captured'
  <2>1. Inside(Local, cursor')
    <3>1. Inside(Local, Clamp(Local, Moved(cursor, by)))
      BY MovedPoint, ClampInside, EdgeHandoffAssumption DEF TypeOK
    <3> QED
      BY <1>1, <3>1 DEF Capture, Captured
  <2> DEFINE m == [at |-> cursor', by |-> by]
  <2>2. events' = IF Len(events) < Capacity THEN Append(events, m) ELSE events
    BY <1>1 DEF Capture
  <2>3. m.at = cursor' /\ events \in Seq(Moves) /\ Len(events) \in Nat
    BY DEF TypeOK
  <2> HIDE DEF m
  <2>4. /\ Len(Append(events, m)) = Len(events) + 1
        /\ \A i \in 1 .. Len(events) + 1 :
             Append(events, m)[i] = IF i = Len(events) + 1 THEN m ELSE events[i]
    BY <2>3
  <2>5. CASE Len(events) < Capacity
    <3>1. events' = Append(events, m)
      BY <2>2, <2>5
    <3>2. ASSUME NEW i \in 1 .. Len(events') PROVE Inside(Local, events'[i].at)
      <4>1. i \in 1 .. Len(events) + 1 /\ (i = Len(events) + 1 \/ i \in 1 .. Len(events))
        BY <2>3, <2>4, <3>1
      <4> QED
        BY <2>1, <2>3, <2>4, <3>1, <4>1 DEF Captured
    <3> QED
      BY <2>1, <3>2 DEF Captured
  <2>6. CASE ~(Len(events) < Capacity)
    BY <2>1, <2>2, <2>6 DEF Captured
  <2> QED
    BY <2>5, <2>6
<1>2. ASSUME NEW p \in Peers, StartControl(p) PROVE Captured'
  <2>1. Inside(Local, Centre(Local))
    BY CentreInside, EdgeHandoffAssumption
  <2> QED
    BY <1>2, <2>1 DEF StartControl, Begin, Captured
<1>3. ASSUME NEW p \in Peers, CrossEdge(p) PROVE Captured'
  <2>1. Pending /\ events' = Tail(events) /\ (cursor' = Head(events).at \/ cursor' = cursor)
    BY <1>3 DEF CrossEdge, Begin, Take
  <2> QED
    BY <2>1, TailCaptured DEF Captured
<1>4. CASE StayLocal \/ IgnoreMove \/ ReturnToLocal \/ SteerRemote
  <2>1. Pending /\ events' = Tail(events) /\ cursor' = cursor
    BY <1>4 DEF StayLocal, IgnoreMove, ReturnToLocal, SteerRemote, Take
  <2> QED
    BY <2>1, TailCaptured DEF Captured
<1>5. CASE UNCHANGED <<cursor, events>>
  BY <1>5 DEF Captured
<1>6. /\ (\E l \in Layouts : SaveLayout(l)) => UNCHANGED <<cursor, events>>
      /\ (\E p \in Peers : ChangeTrust(p)) => UNCHANGED <<cursor, events>>
      /\ StopControl \/ StoreCursor \/ SendMove \/ SendFails \/ ConnectionBreaks
           => UNCHANGED <<cursor, events>>
      /\ UNCHANGED vars => UNCHANGED <<cursor, events>>
  BY DEF SaveLayout, ChangeTrust, StopControl, StoreCursor, SendMove, SendFails,
         ConnectionBreaks, vars
<1> QED
  BY <1>1, <1>2, <1>3, <1>4, <1>5, <1>6 DEF Next

\* Screens that adjoin by adjacentPeer have pixels beside each other.
LEMMA AdjoiningTouch ==
  ASSUME NEW d \in Directions, NEW a \in Rects, NEW b \in Rects,
         ~Empty(a), ~Empty(b), Adjoins(d, a, b)
  PROVE  Touches(d, a, b)
<1> DEFINE x == IF a.x < b.x THEN b.x ELSE a.x
           y == IF a.y < b.y THEN b.y ELSE a.y
<1> USE DEF Rects, Empty, Adjoins, OverlapX, OverlapY, Overlap, MaxX, MaxY,
            Inside, Neighbour, Opposite, Moved
<1>1. CASE d = "left"
  <2>1. MaxX(b) - 1 \in b.x .. MaxX(b) - 1 /\ y \in b.y .. MaxY(b) - 1
    BY <1>1
  <2>2. Inside(a, Neighbour(Opposite(d), [x |-> MaxX(b) - 1, y |-> y]))
    BY <1>1
  <2> QED
    BY <2>1, <2>2 DEF Touches
<1>2. CASE d = "right"
  <2>1. b.x \in b.x .. MaxX(b) - 1 /\ y \in b.y .. MaxY(b) - 1
    BY <1>2
  <2>2. Inside(a, Neighbour(Opposite(d), [x |-> b.x, y |-> y]))
    BY <1>2
  <2> QED
    BY <2>1, <2>2 DEF Touches
<1>3. CASE d = "up"
  <2>1. x \in b.x .. MaxX(b) - 1 /\ MaxY(b) - 1 \in b.y .. MaxY(b) - 1
    BY <1>3
  <2>2. Inside(a, Neighbour(Opposite(d), [x |-> x, y |-> MaxY(b) - 1]))
    BY <1>3
  <2> QED
    BY <2>1, <2>2 DEF Touches
<1>4. CASE d = "down"
  <2>1. x \in b.x .. MaxX(b) - 1 /\ b.y \in b.y .. MaxY(b) - 1
    BY <1>4
  <2>2. Inside(a, Neighbour(Opposite(d), [x |-> x, y |-> b.y]))
    BY <1>4
  <2> QED
    BY <2>1, <2>2 DEF Touches
<1> QED
  BY <1>1, <1>2, <1>3, <1>4 DEF Directions

\* A move crosses an edge only when it is within EdgeMargin of it.
LEMMA EdgeIsNear ==
  ASSUME NEW r \in Rects, NEW p \in Points, Inside(r, p),
         NEW d \in Directions, EdgeAt(r, p) = d
  PROVE  Near(d, r, p, EdgeMargin)
<1> USE GeometryAssumption DEF Rects, Points, Inside, MaxX, MaxY
<1>1. CASE d = "left"
  <2>1. p.x - r.x \in 0 .. EdgeMargin /\ p.x = r.x + (p.x - r.x)
    BY <1>1 DEF EdgeAt
  <2> QED
    BY <1>1, <2>1 DEF Near
<1>2. CASE d = "right"
  <2> DEFINE i == MaxX(r) - 1 - p.x
  <2>1. i \in 0 .. EdgeMargin /\ p.x = MaxX(r) - 1 - i
    BY <1>2 DEF EdgeAt
  <2> QED
    BY <1>2, <2>1 DEF Near
<1>3. CASE d = "up"
  <2>1. p.y - r.y \in 0 .. EdgeMargin /\ p.y = r.y + (p.y - r.y)
    BY <1>3 DEF EdgeAt
  <2> QED
    BY <1>3, <2>1 DEF Near
<1>4. CASE d = "down"
  <2> DEFINE i == MaxY(r) - 1 - p.y
  <2>1. i \in 0 .. EdgeMargin /\ p.y = MaxY(r) - 1 - i
    BY <1>4 DEF EdgeAt
  <2> QED
    BY <1>4, <2>1 DEF Near
<1> QED
  BY <1>1, <1>2, <1>3, <1>4 DEF Directions

\* entryPointFor stays within Inset of the edge that faces this machine, on
\* peers narrower than Inset too.
LEMMA EntryIsNear ==
  ASSUME NEW d \in Directions, NEW local \in Rects, NEW peer \in Rects, NEW at \in Points,
         ~Empty(local), ~Empty(peer)
  PROVE  Near(Opposite(d), peer, EntryPoint(d, local, peer, at), Inset)
<1> DEFINE s == Scaled(local, peer, at)
<1>1. s = [x |-> s.x, y |-> s.y]
  BY DEF Scaled
<1> HIDE DEF s
<1> USE GeometryAssumption DEF Rects, Points, Empty, MaxX, MaxY
<1>2. CASE d = "left"
  <2>1. EntryPoint(d, local, peer, at).x = Between(peer.x, MaxX(peer) - 1, MaxX(peer) - Inset)
    BY <1>1, <1>2 DEF EntryPoint, Clamp, s
  <2> DEFINE i == MaxX(peer) - 1 - Between(peer.x, MaxX(peer) - 1, MaxX(peer) - Inset)
  <2>2. i \in 0 .. Inset /\ MaxX(peer) - 1 - i = Between(peer.x, MaxX(peer) - 1, MaxX(peer) - Inset)
    BY DEF Between
  <2> HIDE DEF i
  <2> QED
    BY <1>2, <2>1, <2>2 DEF Near, Opposite
<1>3. CASE d = "right"
  <2>1. EntryPoint(d, local, peer, at).x = Between(peer.x, MaxX(peer) - 1, peer.x + Inset)
    BY <1>1, <1>3 DEF EntryPoint, Clamp, s
  <2> DEFINE i == Between(peer.x, MaxX(peer) - 1, peer.x + Inset) - peer.x
  <2>2. i \in 0 .. Inset /\ peer.x + i = Between(peer.x, MaxX(peer) - 1, peer.x + Inset)
    BY DEF Between
  <2> HIDE DEF i
  <2> QED
    BY <1>3, <2>1, <2>2 DEF Near, Opposite
<1>4. CASE d = "up"
  <2>1. EntryPoint(d, local, peer, at).y = Between(peer.y, MaxY(peer) - 1, MaxY(peer) - Inset)
    BY <1>1, <1>4 DEF EntryPoint, Clamp, s
  <2> DEFINE i == MaxY(peer) - 1 - Between(peer.y, MaxY(peer) - 1, MaxY(peer) - Inset)
  <2>2. i \in 0 .. Inset /\ MaxY(peer) - 1 - i = Between(peer.y, MaxY(peer) - 1, MaxY(peer) - Inset)
    BY DEF Between
  <2> HIDE DEF i
  <2> QED
    BY <1>4, <2>1, <2>2 DEF Near, Opposite
<1>5. CASE d = "down"
  <2>1. EntryPoint(d, local, peer, at).y = Between(peer.y, MaxY(peer) - 1, peer.y + Inset)
    BY <1>1, <1>5 DEF EntryPoint, Clamp, s
  <2> DEFINE i == Between(peer.y, MaxY(peer) - 1, peer.y + Inset) - peer.y
  <2>2. i \in 0 .. Inset /\ peer.y + i = Between(peer.y, MaxY(peer) - 1, peer.y + Inset)
    BY DEF Between
  <2> HIDE DEF i
  <2> QED
    BY <1>5, <2>1, <2>2 DEF Near, Opposite
<1> QED
  BY <1>2, <1>3, <1>4, <1>5 DEF Directions

LEMMA StepCrosses ==
  ASSUME TypeOK, Captured, [Next]_vars
  PROVE  CrossingShared
<1> SUFFICES ASSUME NEW d \in Directions, session = None, session' # None,
                    session'.from = d
             PROVE  /\ session'.peer \in trusted
                    /\ Touches(d, layout[Self], session'.bounds)
                    /\ Near(d, Local, cursor', EdgeMargin)
                    /\ Near(Opposite(d), session'.bounds, session'.cursor, Inset)
  BY DEF CrossingShared
<1>1. PICK p \in Peers : StartControl(p) \/ CrossEdge(p)
  BY DEF Next, vars, Capture, ChangeTrust, StopControl, End, StayLocal, IgnoreMove,
         ReturnToLocal, SteerRemote, StoreCursor, SendMove, SendFails, SaveLayout,
         ConnectionBreaks
<1>2. ~StartControl(p)
  <2> SUFFICES ASSUME StartControl(p) PROVE FALSE
    OBVIOUS
  <2>1. PICK alive \in BOOLEAN : session' = NewSession(p, "", Centre(Local), alive)
    BY DEF StartControl, Begin, End
  <2>2. session'.from = ""
    BY <2>1 DEF NewSession
  <2> QED
    BY <2>2 DEF Directions
<1> DEFINE at == Head(events).at
           e == EdgeAt(Local, at)
<1>3. CrossEdge(p)
  BY <1>1, <1>2
<1>4. Pending /\ events' = Tail(events) /\ p \in AdjacentPeers(e) /\ Begin(p, e, at)
  BY <1>3 DEF CrossEdge, Take
<1>5. at \in Points /\ Inside(Local, at)
  BY <1>4, TakeTyped, TailCaptured
<1> HIDE DEF at
<1>6. PICK alive \in BOOLEAN : session' = NewSession(p, e, at, alive) /\ cursor' = at
  BY <1>4 DEF Begin, End
<1> HIDE DEF e
<1>7. /\ session'.peer = p /\ session'.bounds = layout[p] /\ e = d
      /\ session'.cursor = EntryPoint(d, Local, layout[p], at)
  BY <1>6 DEF NewSession
<1>8. p \in trusted /\ p \in DOMAIN layout /\ Adjoins(d, layout[Self], layout[p])
  BY <1>4, <1>7 DEF AdjacentPeers
<1>9. /\ layout \in Layouts /\ Self \in DOMAIN layout
      /\ layout[p] \in Rects /\ ~Empty(layout[p])
      /\ layout[Self] \in Rects /\ ~Empty(layout[Self])
  BY <1>8, EdgeHandoffAssumption DEF TypeOK
<1>10. Touches(d, layout[Self], layout[p])
  BY <1>8, <1>9, AdjoiningTouch
<1>11. Near(d, Local, at, EdgeMargin)
  BY <1>5, <1>7, EdgeIsNear, EdgeHandoffAssumption DEF e
<1>12. Near(Opposite(d), layout[p], EntryPoint(d, Local, layout[p], at), Inset)
  BY <1>5, <1>9, EntryIsNear, EdgeHandoffAssumption
<1> QED
  BY <1>6, <1>7, <1>8, <1>10, <1>11, <1>12

\* Control crosses an edge only where a trusted peer's screen touches this one
\* in the layout of that moment, whatever was captured before and when.
THEOREM BorderIsShared == Spec => CrossesSharedBorder
<1>1. Init => Captured
  <2>1. Inside(Local, Centre(Local))
    BY CentreInside, EdgeHandoffAssumption
  <2> QED
    BY <2>1 DEF Init, Captured
<1>2. TypeOK /\ Captured /\ [Next]_vars => Captured'
  BY CapturedKept
<1>3. TypeOK /\ Captured /\ [Next]_vars => [CrossingShared]_vars
  BY StepCrosses
<1> QED
  BY <1>1, <1>2, <1>3, HandoffTypeCorrect, PTL DEF Spec, CrossesSharedBorder
=============================================================================
