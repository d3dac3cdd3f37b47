----------------------- MODULE ControlSession_proofs -----------------------
(***************************************************************************)
(* ControlSession's safety properties and its refinement of ControlWire,   *)
(* and what Bridge adds to it, proved for any number of peers, connections *)
(* and handlers.                                                           *)
(*                                                                         *)
(* The argument is ownership.  A connection that has been dialled has one  *)
(* owner: the thread that dialled it, until it publishes it; the service,  *)
(* while it is s.controlConn; the thread whose stopControlSession took it  *)
(* out, until it has closed it.  Only an owner writes control.enter or     *)
(* control.leave and closes, so no interleaving can do so twice.           *)
(***************************************************************************)
EXTENDS Bridge, TLAPS

\* Labels at which thread t owns the connection in its local variable.
Owning == {"leave", "exit", "close", "enter", "lock", "publish"}

\* Labels at which the local variable holds a connection to the local peer.
Holding == {"enter", "lock", "publish", "first", "steer", "write"}

Owns(t, c) == pc[t] \in Owning /\ call[t].conn = c

\* The local variables thread t relies on are set.
FrameSet(t) ==
  /\ pc[t] \in Holding \cup {"lookup", "dial"} => call[t].peer \in Peers
  /\ pc[t] \in {"clear", "leave", "exit", "close"} /\ call[t].then = "dial" =>
       call[t].peer \in Peers
  /\ pc[t] \in Holding =>
       /\ call[t].conn \in Conns
       /\ link[call[t].conn] # "unused"
       /\ dest[call[t].conn] = call[t].peer

FramesSet == \A t \in Threads : FrameSet(t)

DialledHasPeer == \A c \in Conns : link[c] # "unused" => dest[c] \in Peers

\* What is owned has not been closed and is no longer the service's.
OwnedIsOpen ==
  \A t \in Threads, c \in Conns :
    Owns(t, c) => link[c] \in {"open", "broken"} /\ controlConn # c

OneOwner ==
  \A t, u \in Threads, c \in Conns : Owns(t, c) /\ Owns(u, c) => t = u

ControlInv ==
  /\ TypeOK
  /\ FramesSet
  /\ DialledHasPeer
  /\ OwnedIsOpen
  /\ OneOwner
  /\ SessionOwnsOpenConnection

-----------------------------------------------------------------------------
(* Threads: a step of t changes the pc and the locals of t alone.          *)

Moved(t) ==
  /\ pc' \in [Threads -> Labels]
  /\ call' \in [Threads -> Frame]
  /\ \A u \in Threads : u # t => pc'[u] = pc[u] /\ call'[u] = call[u]

\* GotoWith moves t to l with the locals f; Goto keeps its locals.
LEMMA MoveWith ==
  ASSUME TypeOK, NEW t \in Threads, NEW l \in Labels, NEW f \in Frame, GotoWith(t, l, f)
  PROVE  Moved(t) /\ pc'[t] = l /\ call'[t] = f
BY DEF TypeOK, GotoWith, Moved

LEMMA Move ==
  ASSUME TypeOK, NEW t \in Threads, NEW l \in Labels, Goto(t, l)
  PROVE  Moved(t) /\ pc'[t] = l /\ call'[t] = call[t]
BY DEF TypeOK, Goto, Moved

LEMMA MoveBack ==
  ASSUME TypeOK, NEW t \in Threads, Return(t)
  PROVE  Moved(t) /\ pc'[t] = "idle" /\ call'[t] = NoCall
<1>1. NoCall \in Frame
  BY DEF NoCall, Frame
<1>2. QED
  BY <1>1, MoveWith DEF Return, Labels

LEMMA MoveToStop ==
  ASSUME TypeOK, NEW t \in Threads, NEW p \in Peers \cup {None},
         NEW l \in {"idle", "dial"}, CallStop(t, p, l)
  PROVE  /\ Moved(t) /\ pc'[t] = "clear"
         /\ call'[t].then = l /\ call'[t].peer = p
<1> DEFINE f == [NoCall EXCEPT !.peer = p, !.then = l]
<1>1. f \in Frame /\ f.then = l /\ f.peer = p
  BY DEF Frame, NoCall
<1>2. GotoWith(t, "clear", f)
  BY DEF CallStop
<1> HIDE DEF f
<1>3. QED
  BY <1>1, <1>2, MoveWith DEF Labels

\* A call for peer p begins at label l.
LEMMA MoveForPeer ==
  ASSUME TypeOK, NEW t \in Threads, NEW l \in Labels, NEW p \in Peers,
         GotoWith(t, l, [NoCall EXCEPT !.peer = p])
  PROVE  Moved(t) /\ pc'[t] = l /\ call'[t].peer = p
<1> DEFINE f == [NoCall EXCEPT !.peer = p]
<1>1. f \in Frame /\ f.peer = p
  BY DEF Frame, NoCall
<1>2. GotoWith(t, l, f)
  OBVIOUS
<1> HIDE DEF f
<1>3. QED
  BY <1>1, <1>2, MoveWith

\* A message handed to a connection leaves the wires well typed.
LEMMA WrittenTyped ==
  ASSUME TypeOK, NEW c \in Conns, NEW m \in Messages, Written(c, m)
  PROVE  wire' \in [Conns -> Seq(Messages)]
BY DEF TypeOK, Written, W!Say

\* A step that moves one thread, takes nothing into its ownership and leaves
\* connections and session alone keeps all of the invariant but the types.
LEMMA LocalStep ==
  ASSUME ControlInv, NEW t \in Threads, Moved(t), FrameSet(t)',
         UNCHANGED <<link, dest, controlConn>>,
         controlState' = None <=> controlState = None,
         controlState # None => controlState'.peer = controlState.peer,
         \A c \in Conns : Owns(t, c)' => Owns(t, c)
  PROVE  FramesSet' /\ DialledHasPeer' /\ OwnedIsOpen' /\ OneOwner'
           /\ SessionOwnsOpenConnection'
<1>1. FramesSet'
  BY DEF ControlInv, FramesSet, FrameSet, Moved
<1>2. DialledHasPeer'
  BY DEF ControlInv, DialledHasPeer
<1>3. \A u \in Threads, c \in Conns : Owns(u, c)' => Owns(u, c)
  BY DEF Moved, Owns
<1>4. OwnedIsOpen' /\ OneOwner'
  BY <1>3 DEF ControlInv, OwnedIsOpen, OneOwner
<1>5. SessionOwnsOpenConnection'
  BY DEF ControlInv, SessionOwnsOpenConnection
<1>6. QED
  BY <1>1, <1>2, <1>4, <1>5

-----------------------------------------------------------------------------
(* The actions that move one thread alone.                                 *)


LEMMA StartControlStep ==
  ASSUME ControlInv, NEW t \in Handlers, NEW p \in Peers, StartControl(t, p)
  PROVE  ControlInv'
<1>1. TypeOK /\ t \in Threads
  BY DEF ControlInv, Threads
<1>2. Moved(t) /\ pc'[t] = "lookup" /\ call'[t].peer = p
  BY <1>1, MoveForPeer DEF StartControl, Labels
<1>3. FrameSet(t)' /\ \A c \in Conns : Owns(t, c)' => Owns(t, c)
  BY <1>1, <1>2 DEF StartControl, At, ControlInv, FramesSet, FrameSet, Holding, Owns, Owning, sessionVars, netVars
<1>4. TypeOK'
  BY <1>1, <1>2 DEF StartControl, TypeOK, Moved, sessionVars, netVars
<1>5. QED
  BY <1>1, <1>2, <1>3, <1>4, LocalStep DEF StartControl, ControlInv, sessionVars, netVars

LEMMA StopControlStep ==
  ASSUME ControlInv, NEW t \in Handlers, StopControl(t)
  PROVE  ControlInv'
<1>1. TypeOK /\ t \in Threads
  BY DEF ControlInv, Threads
<1>2. Moved(t) /\ pc'[t] = "clear" /\ call'[t].then = "idle"
  BY <1>1, MoveToStop DEF StopControl
<1>3. FrameSet(t)' /\ \A c \in Conns : Owns(t, c)' => Owns(t, c)
  BY <1>1, <1>2 DEF StopControl, At, ControlInv, FramesSet, FrameSet, Holding, Owns, Owning, sessionVars, netVars
<1>4. TypeOK'
  BY <1>1, <1>2 DEF StopControl, TypeOK, Moved, sessionVars, netVars
<1>5. QED
  BY <1>1, <1>2, <1>3, <1>4, LocalStep DEF StopControl, ControlInv, sessionVars, netVars

LEMMA TakeEventStep ==
  ASSUME ControlInv, NEW p \in Peers, TakeEvent(p)
  PROVE  ControlInv'
<1>1. TypeOK /\ Consumer \in Threads
  BY DEF ControlInv, Threads
<1>2. /\ Moved(Consumer)
      /\ \/ pc'[Consumer] \in {"tap", "read"}
         \/ pc'[Consumer] = "lookup" /\ call'[Consumer].peer = p
  BY <1>1, Move, MoveForPeer DEF TakeEvent, Labels
<1>3. FrameSet(Consumer)' /\ \A c \in Conns : Owns(Consumer, c)' => Owns(Consumer, c)
  BY <1>1, <1>2 DEF TakeEvent, At, ControlInv, FramesSet, FrameSet, Holding, Owns, Owning, sessionVars, netVars
<1>4. TypeOK'
  BY <1>1, <1>2 DEF TakeEvent, TypeOK, Moved, sessionVars, netVars
<1>5. QED
  BY <1>1, <1>2, <1>3, <1>4, LocalStep DEF TakeEvent, ControlInv, sessionVars, netVars

LEMMA SendLeaveStep ==
  ASSUME ControlInv, NEW t \in Threads, SendLeave(t)
  PROVE  ControlInv'
<1>1. TypeOK /\ t \in Threads
  BY DEF ControlInv, Threads
<1>2. /\ Moved(t) /\ pc'[t] = "exit"
      /\ call'[t].peer = call[t].peer /\ call'[t].conn = call[t].conn
      /\ call'[t].then = call[t].then
  <2> DEFINE f == [call[t] EXCEPT !.hadControl = FALSE]
  <2>1. call[t] \in Frame
    BY <1>1 DEF TypeOK
  <2>2. /\ f \in Frame
        /\ f.peer = call[t].peer /\ f.conn = call[t].conn /\ f.then = call[t].then
    BY <2>1 DEF Frame
  <2>3. GotoWith(t, "exit", f)
    BY DEF SendLeave
  <2> HIDE DEF f
  <2>4. QED
    BY <1>1, <2>2, <2>3, MoveWith DEF Labels
<1>3. FrameSet(t)' /\ \A c \in Conns : Owns(t, c)' => Owns(t, c)
  BY <1>1, <1>2 DEF SendLeave, At, ControlInv, FramesSet, FrameSet, Holding, Owns, Owning, sessionVars, netVars
<1>4. TypeOK'
  <2>1. wire' \in [Conns -> Seq(Messages)]
    <3>1. call[t].conn \in Conns \cup {None}
      BY <1>1 DEF TypeOK, Frame
    <3>2. CASE call[t].conn = None
      BY <1>1, <3>2 DEF SendLeave, TypeOK
    <3>3. CASE call[t].conn \in Conns
      <4>1. dest[call[t].conn] \in Peers
        BY <1>1, <3>3 DEF ControlInv, DialledHasPeer, OwnedIsOpen, Owns, Owning, SendLeave, At
      <4>2. W!Leave(dest[call[t].conn]) \in Messages
        BY <4>1 DEF W!Leave, Messages
      <4>3. QED
        BY <1>1, <3>3, <4>2, WrittenTyped DEF SendLeave, WriteError, TypeOK
    <3>4. QED
      BY <3>1, <3>2, <3>3
  <2>2. QED
    BY <1>1, <1>2, <2>1 DEF SendLeave, TypeOK, Moved, sessionVars
<1>5. QED
  BY <1>1, <1>2, <1>3, <1>4, LocalStep DEF SendLeave, ControlInv, sessionVars, netVars

LEMMA ExitControlStep ==
  ASSUME ControlInv, NEW t \in Threads, ExitControl(t)
  PROVE  ControlInv'
<1>1. TypeOK /\ t \in Threads
  BY DEF ControlInv, Threads
<1>2. Moved(t) /\ pc'[t] = "close" /\ call'[t] = call[t]
  BY <1>1, Move DEF ExitControl, Labels
<1>3. FrameSet(t)' /\ \A c \in Conns : Owns(t, c)' => Owns(t, c)
  BY <1>1, <1>2 DEF ExitControl, At, ControlInv, FramesSet, FrameSet, Holding, Owns, Owning, sessionVars, netVars
<1>4. TypeOK'
  BY <1>1, <1>2 DEF ExitControl, TypeOK, Moved, sessionVars, netVars
<1>5. QED
  BY <1>1, <1>2, <1>3, <1>4, LocalStep DEF ExitControl, ControlInv, sessionVars, netVars

LEMMA LookupStep ==
  ASSUME ControlInv, NEW t \in Threads, Lookup(t)
  PROVE  ControlInv'
<1>1. TypeOK /\ t \in Threads
  BY DEF ControlInv, Threads
<1>2. /\ Moved(t)
      /\ \/ pc'[t] = "clear" /\ call'[t].peer = call[t].peer
         \/ pc'[t] = "idle"
  <2>1. CASE CallStop(t, call[t].peer, "dial")
    <3>1. call[t].peer \in Peers
      BY <1>1 DEF Lookup, At, ControlInv, FramesSet, FrameSet
    <3>2. QED
      BY <1>1, <2>1, <3>1, MoveToStop
  <2>2. CASE Return(t)
    BY <1>1, <2>2, MoveBack
  <2>3. QED
    BY <2>1, <2>2 DEF Lookup
<1>3. FrameSet(t)' /\ \A c \in Conns : Owns(t, c)' => Owns(t, c)
  BY <1>1, <1>2 DEF Lookup, At, ControlInv, FramesSet, FrameSet, Holding, Owns, Owning, sessionVars, netVars
<1>4. TypeOK'
  BY <1>1, <1>2 DEF Lookup, TypeOK, Moved, sessionVars, netVars
<1>5. QED
  BY <1>1, <1>2, <1>3, <1>4, LocalStep DEF Lookup, ControlInv, sessionVars, netVars

LEMMA SendFirstStep ==
  ASSUME ControlInv, NEW t \in Threads, SendFirst(t)
  PROVE  ControlInv'
<1>1. TypeOK /\ t \in Threads
  BY DEF ControlInv, Threads
<1>2. Moved(t) /\ pc'[t] = "idle"
  BY <1>1, MoveBack DEF SendFirst
<1>3. FrameSet(t)' /\ \A c \in Conns : Owns(t, c)' => Owns(t, c)
  BY <1>1, <1>2 DEF SendFirst, At, ControlInv, FramesSet, FrameSet, Holding, Owns, Owning, sessionVars, netVars
<1>4. TypeOK'
  <2>1. call[t].conn \in Conns /\ W!Event(call[t].peer) \in Messages
    BY <1>1 DEF ControlInv, FramesSet, FrameSet, Holding, SendFirst, At, W!Event, Messages
  <2>2. wire' \in [Conns -> Seq(Messages)]
    BY <1>1, <2>1, WrittenTyped DEF SendFirst, WriteError, TypeOK
  <2>3. QED
    BY <1>1, <1>2, <2>2 DEF SendFirst, TypeOK, Moved, sessionVars
<1>5. QED
  BY <1>1, <1>2, <1>3, <1>4, LocalStep DEF SendFirst, ControlInv, sessionVars, netVars

LEMMA EscapeTapStep ==
  ASSUME ControlInv, EscapeTap
  PROVE  ControlInv'
<1>1. TypeOK /\ Consumer \in Threads
  BY DEF ControlInv, Threads
<1>2. Moved(Consumer) /\ pc'[Consumer] \in {"panic", "idle"}
  BY <1>1, Move, MoveBack DEF EscapeTap, Labels
<1>3. FrameSet(Consumer)' /\ \A c \in Conns : Owns(Consumer, c)' => Owns(Consumer, c)
  BY <1>1, <1>2 DEF EscapeTap, At, ControlInv, FramesSet, FrameSet, Holding, Owns, Owning, sessionVars, netVars
<1>4. TypeOK'
  BY <1>1, <1>2 DEF EscapeTap, TypeOK, Moved, sessionVars, netVars
<1>5. QED
  BY <1>1, <1>2, <1>3, <1>4, LocalStep DEF EscapeTap, ControlInv, sessionVars, netVars

LEMMA PanicStopStep ==
  ASSUME ControlInv, PanicStop
  PROVE  ControlInv'
<1>1. TypeOK /\ Consumer \in Threads
  BY DEF ControlInv, Threads
<1>2. Moved(Consumer) /\ pc'[Consumer] = "clear" /\ call'[Consumer].then = "idle"
  BY <1>1, MoveToStop DEF PanicStop
<1>3. FrameSet(Consumer)' /\ \A c \in Conns : Owns(Consumer, c)' => Owns(Consumer, c)
  BY <1>1, <1>2 DEF PanicStop, At, ControlInv, FramesSet, FrameSet, Holding, Owns, Owning, sessionVars, netVars
<1>4. TypeOK'
  BY <1>1, <1>2 DEF PanicStop, TypeOK, Moved, sessionVars, netVars
<1>5. QED
  BY <1>1, <1>2, <1>3, <1>4, LocalStep DEF PanicStop, ControlInv, sessionVars, netVars

LEMMA ReadSessionStep ==
  ASSUME ControlInv, ReadSession
  PROVE  ControlInv'
<1>1. TypeOK /\ Consumer \in Threads
  BY DEF ControlInv, Threads
<1>2. /\ Moved(Consumer)
      /\ \/ pc'[Consumer] = "idle"
         \/ pc'[Consumer] = "clear" /\ call'[Consumer].then = "idle"
         \/ /\ controlState # None
            /\ pc'[Consumer] \in {"steer", "write"}
            /\ call'[Consumer].peer = controlState.peer
            /\ call'[Consumer].conn = controlConn
  <2>1. CASE Return(Consumer)
    BY <1>1, <2>1, MoveBack
  <2>2. CASE CallStop(Consumer, None, "idle")
    BY <1>1, <2>2, MoveToStop
  <2>3. ASSUME NEW l \in {"steer", "write"}, controlState # None,
               GotoWith(Consumer, l, [NoCall EXCEPT !.peer = controlState.peer,
                                                    !.conn = controlConn])
        PROVE  /\ Moved(Consumer) /\ pc'[Consumer] = l
               /\ call'[Consumer].peer = controlState.peer
               /\ call'[Consumer].conn = controlConn
    <3> DEFINE f == [NoCall EXCEPT !.peer = controlState.peer, !.conn = controlConn]
    <3>1. f \in Frame /\ f.peer = controlState.peer /\ f.conn = controlConn
      BY <1>1, <2>3 DEF Frame, NoCall, TypeOK, Session
    <3>2. GotoWith(Consumer, l, f)
      BY <2>3
    <3> HIDE DEF f
    <3>3. QED
      BY <1>1, <3>1, <3>2, MoveWith DEF Labels
  <2>4. QED
    BY <2>1, <2>2, <2>3 DEF ReadSession
<1>3. FrameSet(Consumer)' /\ \A c \in Conns : Owns(Consumer, c)' => Owns(Consumer, c)
  <2>1. controlState # None =>
          /\ controlState.peer \in Peers /\ controlConn \in Conns
          /\ link[controlConn] # "unused" /\ dest[controlConn] = controlState.peer
    BY <1>1 DEF ControlInv, SessionOwnsOpenConnection, TypeOK, Session
  <2>2. QED
    BY <1>2, <2>1 DEF ReadSession, FrameSet, Holding, Owns, Owning, sessionVars, netVars
<1>4. TypeOK'
  BY <1>1, <1>2 DEF ReadSession, TypeOK, Moved, sessionVars, netVars
<1>5. QED
  BY <1>1, <1>2, <1>3, <1>4, LocalStep DEF ReadSession, ControlInv, sessionVars, netVars

LEMMA SteerStep ==
  ASSUME ControlInv, Steer
  PROVE  ControlInv'
<1>1. TypeOK /\ Consumer \in Threads
  BY DEF ControlInv, Threads
<1>2. Moved(Consumer) /\ pc'[Consumer] = "write" /\ call'[Consumer] = call[Consumer]
  BY <1>1, Move DEF Steer, Labels
<1>3. FrameSet(Consumer)' /\ \A c \in Conns : Owns(Consumer, c)' => Owns(Consumer, c)
  BY <1>1, <1>2 DEF Steer, At, ControlInv, FramesSet, FrameSet, Holding, Owns, Owning, sessionVars, netVars
<1>4. /\ controlState' \in Session \cup {None}
      /\ controlState' = None <=> controlState = None
      /\ controlState # None => controlState'.peer = controlState.peer
  <2>1. call[Consumer].peer \in Peers
    BY <1>1 DEF ControlInv, FramesSet, FrameSet, Holding, Steer, At
  <2>2. CASE controlState = None
    BY <2>2 DEF Steer
  <2>3. CASE controlState # None
    <3> DEFINE f == [controlState EXCEPT !.cursor = call[Consumer].peer]
    <3>1. controlState \in Session
      BY <1>1, <2>3 DEF TypeOK
    <3>2. f \in Session /\ f.peer = controlState.peer
      BY <2>1, <3>1 DEF Session
    <3>3. controlState' = f
      BY <2>3 DEF Steer
    <3> HIDE DEF f
    <3>4. QED
      BY <2>3, <3>2, <3>3, ControlSessionAssumption
  <2>4. QED
    BY <2>2, <2>3
<1>6. TypeOK'
  BY <1>1, <1>2, <1>4 DEF Steer, TypeOK, Moved, netVars
<1>5. QED
  BY <1>1, <1>2, <1>3, <1>4, <1>6, LocalStep DEF Steer, ControlInv, sessionVars, netVars

LEMMA ForwardEventStep ==
  ASSUME ControlInv, ForwardEvent
  PROVE  ControlInv'
<1>1. TypeOK /\ Consumer \in Threads
  BY DEF ControlInv, Threads
<1>2. /\ Moved(Consumer)
      /\ \/ pc'[Consumer] = "idle"
         \/ pc'[Consumer] = "clear" /\ call'[Consumer].then = "idle"
  BY <1>1, MoveBack, MoveToStop DEF ForwardEvent
<1>3. FrameSet(Consumer)' /\ \A c \in Conns : Owns(Consumer, c)' => Owns(Consumer, c)
  BY <1>1, <1>2 DEF ForwardEvent, At, ControlInv, FramesSet, FrameSet, Holding, Owns, Owning, sessionVars, netVars
<1>4. TypeOK'
  <2>1. /\ call[Consumer].conn \in Conns
        /\ W!Event(call[Consumer].peer) \in Messages
    BY <1>1 DEF ControlInv, FramesSet, FrameSet, Holding, ForwardEvent, At, W!Event, Messages
  <2>2. wire' \in [Conns -> Seq(Messages)]
    BY <1>1, <2>1, WrittenTyped DEF ForwardEvent, WriteError, TypeOK
  <2>3. QED
    BY <1>1, <1>2, <2>2 DEF ForwardEvent, TypeOK, Moved, sessionVars
<1>5. QED
  BY <1>1, <1>2, <1>3, <1>4, LocalStep DEF ForwardEvent, ControlInv, sessionVars, netVars

-----------------------------------------------------------------------------
(* The actions that change who owns a connection, or its state.            *)

\* The owner closes the connection and owns nothing any more.
LEMMA CloseStep ==
  ASSUME ControlInv, NEW t \in Threads, NEW c \in Conns, Owns(t, c), CloseLink(c),
         Moved(t), FrameSet(t)', \A d \in Conns : ~Owns(t, d)',
         UNCHANGED <<sessionVars, dest>>
  PROVE  FramesSet' /\ DialledHasPeer' /\ OwnedIsOpen' /\ OneOwner'
           /\ SessionOwnsOpenConnection'
<1>1. /\ link' \in [Conns -> {"unused", "open", "broken", "closed"}]
      /\ link'[c] = "closed"
      /\ \A d \in Conns : d # c => link'[d] = link[d]
  BY DEF CloseLink, ControlInv, TypeOK
<1>2. link[c] # "unused" /\ controlConn # c
  BY DEF ControlInv, OwnedIsOpen
<1>3. FramesSet'
  <2>1. \A u \in Threads : u # t => FrameSet(u)'
    BY <1>1 DEF ControlInv, FramesSet, FrameSet, Moved
  <2>2. QED
    BY <2>1 DEF FramesSet
<1>4. DialledHasPeer'
  BY <1>1, <1>2 DEF ControlInv, DialledHasPeer
<1>5. \A u \in Threads, d \in Conns : Owns(u, d)' => u # t /\ Owns(u, d)
  BY DEF Moved, Owns
<1>6. \A u \in Threads, d \in Conns : Owns(u, d)' => d # c
  BY <1>5 DEF ControlInv, OneOwner
<1>7. OwnedIsOpen' /\ OneOwner'
  BY <1>1, <1>5, <1>6 DEF ControlInv, OwnedIsOpen, OneOwner, sessionVars
<1>8. SessionOwnsOpenConnection'
  BY <1>1, <1>2, ControlSessionAssumption
     DEF ControlInv, SessionOwnsOpenConnection, sessionVars, TypeOK
<1>9. QED
  BY <1>3, <1>4, <1>7, <1>8

LEMMA ClearSessionStep ==
  ASSUME ControlInv, NEW t \in Threads, ClearSession(t)
  PROVE  ControlInv'
<1>1. TypeOK
  BY DEF ControlInv
<1>2. /\ Moved(t) /\ pc'[t] = "leave" /\ call'[t].conn = controlConn
      /\ call'[t].peer = call[t].peer /\ call'[t].then = call[t].then
  <2> DEFINE f == [call[t] EXCEPT !.conn = controlConn, !.hadControl = control # None]
  <2>1. /\ f \in Frame /\ f.conn = controlConn
        /\ f.peer = call[t].peer /\ f.then = call[t].then
    BY <1>1 DEF TypeOK, Frame
  <2>2. GotoWith(t, "leave", f)
    BY DEF ClearSession
  <2> HIDE DEF f
  <2>3. QED
    BY <1>1, <2>1, <2>2, MoveWith DEF Labels
<1>3. UNCHANGED <<link, dest>> /\ pc[t] = "clear"
  BY DEF ClearSession, netVars, At
<1>4. FramesSet'
  <2>1. FrameSet(t)'
    BY <1>2, <1>3 DEF ControlInv, FramesSet, FrameSet, Holding
  <2>2. \A u \in Threads : u # t => FrameSet(u)'
    BY <1>2, <1>3 DEF ControlInv, FramesSet, FrameSet, Moved
  <2>3. QED
    BY <2>1, <2>2 DEF FramesSet
<1>5. DialledHasPeer'
  BY <1>3 DEF ControlInv, DialledHasPeer
<1>6. \A u \in Threads, c \in Conns :
        Owns(u, c)' => (u = t /\ c = controlConn) \/ (u # t /\ Owns(u, c))
  BY <1>2 DEF Moved, Owns
<1>7. controlConn \in Conns => link[controlConn] \in {"open", "broken"}
  BY ControlSessionAssumption DEF ControlInv, SessionOwnsOpenConnection
<1>8. OwnedIsOpen' /\ OneOwner'
  BY <1>3, <1>6, <1>7, ControlSessionAssumption
     DEF ControlInv, OwnedIsOpen, OneOwner, ClearSession
<1>9. SessionOwnsOpenConnection'
  BY DEF ClearSession, SessionOwnsOpenConnection
<1>10. TypeOK'
  BY <1>1, <1>2, <1>3 DEF ClearSession, TypeOK, Moved, netVars
<1>11. QED
  BY <1>4, <1>5, <1>8, <1>9, <1>10 DEF ControlInv

LEMMA CloseConnStep ==
  ASSUME ControlInv, NEW t \in Threads, CloseConn(t)
  PROVE  ControlInv'
<1>1. TypeOK /\ t \in Threads
  BY DEF ControlInv
<1>2. /\ Moved(t)
      /\ \/ pc'[t] = "idle"
         \/ /\ pc'[t] = "dial" /\ call'[t].peer = call[t].peer /\ call[t].peer \in Peers
  <2>1. CASE Return(t)
    BY <1>1, <2>1, MoveBack
  <2>2. CASE call[t].then = "dial"
               /\ GotoWith(t, "dial", [NoCall EXCEPT !.peer = call[t].peer])
    <3>1. call[t].peer \in Peers
      BY <2>2 DEF ControlInv, FramesSet, FrameSet, CloseConn, At
    <3>2. QED
      BY <1>1, <2>2, <3>1, MoveForPeer DEF Labels
  <2>3. QED
    BY <2>1, <2>2 DEF CloseConn, StopReturns
<1>3. FrameSet(t)' /\ \A d \in Conns : ~Owns(t, d)'
  BY <1>2 DEF FrameSet, Holding, Owns, Owning
<1>4. link' \in [Conns -> {"unused", "open", "broken", "closed"}]
  BY <1>1 DEF CloseConn, CloseLink, TypeOK
<1>5. TypeOK'
  BY <1>1, <1>2, <1>4 DEF CloseConn, TypeOK, Moved, sessionVars
<1>6. CASE call[t].conn = None
  BY <1>1, <1>2, <1>3, <1>5, <1>6, LocalStep DEF CloseConn, ControlInv, sessionVars
<1>7. CASE call[t].conn \in Conns
  <2>1. Owns(t, call[t].conn) /\ CloseLink(call[t].conn)
    BY <1>7, ControlSessionAssumption DEF CloseConn, At, Owns, Owning
  <2>2. UNCHANGED <<sessionVars, dest>>
    BY DEF CloseConn
  <2>3. QED
    BY <1>2, <1>3, <1>5, <1>7, <2>1, <2>2, CloseStep DEF ControlInv
<1>8. QED
  BY <1>1, <1>6, <1>7 DEF TypeOK, Frame

LEMMA DialStep ==
  ASSUME ControlInv, NEW t \in Threads, Dial(t)
  PROVE  ControlInv'
<1>1. TypeOK /\ t \in Threads
  BY DEF ControlInv
<1>2. CASE Return(t) /\ UNCHANGED <<link, dest>>
  <2>1. Moved(t) /\ pc'[t] = "idle"
    BY <1>1, <1>2, MoveBack
  <2>2. FrameSet(t)' /\ \A c \in Conns : Owns(t, c)' => Owns(t, c)
    BY <2>1 DEF FrameSet, Holding, Owns, Owning
  <2>3. TypeOK'
    BY <1>1, <1>2, <2>1 DEF Dial, TypeOK, Moved, sessionVars
  <2>4. QED
    BY <1>1, <1>2, <2>1, <2>2, <2>3, LocalStep DEF Dial, ControlInv, sessionVars
<1>3. ASSUME NEW c \in Conns, link[c] = "unused",
             link' = [link EXCEPT ![c] = "open"],
             dest' = [dest EXCEPT ![c] = call[t].peer],
             GotoWith(t, "enter", [call[t] EXCEPT !.conn = c])
      PROVE  ControlInv'
  <2>1. call[t].peer \in Peers /\ UNCHANGED <<sessionVars, escRecent, locked, wire>>
    BY DEF ControlInv, FramesSet, FrameSet, Dial, At
  <2>2. /\ Moved(t) /\ pc'[t] = "enter"
        /\ call'[t].peer = call[t].peer /\ call'[t].conn = c
    <3> DEFINE f == [call[t] EXCEPT !.conn = c]
    <3>1. f \in Frame /\ f.peer = call[t].peer /\ f.conn = c
      BY <1>1 DEF TypeOK, Frame
    <3>2. GotoWith(t, "enter", f)
      BY <1>3
    <3> HIDE DEF f
    <3>3. QED
      BY <1>1, <3>1, <3>2, MoveWith DEF Labels
  <2>3. /\ link' \in [Conns -> {"unused", "open", "broken", "closed"}]
        /\ dest' \in [Conns -> Peers \cup {None}]
        /\ link'[c] = "open" /\ dest'[c] = call[t].peer
        /\ \A d \in Conns : d # c => link'[d] = link[d] /\ dest'[d] = dest[d]
    BY <1>1, <1>3, <2>1 DEF TypeOK
  <2>4. FramesSet'
    <3>1. FrameSet(t)'
      BY <1>3, <2>1, <2>2, <2>3 DEF FrameSet
    <3>2. \A u \in Threads : u # t => FrameSet(u)'
      BY <1>3, <2>2, <2>3 DEF ControlInv, FramesSet, FrameSet, Moved
    <3>3. QED
      BY <3>1, <3>2 DEF FramesSet
  <2>5. DialledHasPeer'
    BY <2>1, <2>3 DEF ControlInv, DialledHasPeer
  <2>6. \A u \in Threads, d \in Conns :
          Owns(u, d)' => (u = t /\ d = c) \/ (u # t /\ d # c /\ Owns(u, d))
    BY <1>3, <2>2 DEF ControlInv, OwnedIsOpen, Moved, Owns
  <2>7. controlConn # c
    BY <1>3, ControlSessionAssumption DEF ControlInv, SessionOwnsOpenConnection
  <2>8. OwnedIsOpen' /\ OneOwner'
    BY <2>1, <2>3, <2>6, <2>7 DEF ControlInv, OwnedIsOpen, OneOwner, sessionVars
  <2>9. SessionOwnsOpenConnection'
    BY <1>1, <2>1, <2>3, <2>7 DEF ControlInv, SessionOwnsOpenConnection, sessionVars, TypeOK
  <2>10. TypeOK'
    BY <1>1, <2>1, <2>2, <2>3 DEF TypeOK, Moved, sessionVars
  <2>11. QED
    BY <2>4, <2>5, <2>8, <2>9, <2>10 DEF ControlInv
<1>4. QED
  BY <1>2, <1>3 DEF Dial

LEMMA SendEnterStep ==
  ASSUME ControlInv, NEW t \in Threads, SendEnter(t)
  PROVE  ControlInv'
<1> DEFINE c == call[t].conn
<1>1. TypeOK /\ t \in Threads
  BY DEF ControlInv
<1>2. /\ c \in Conns /\ Owns(t, c) /\ dest[c] \in Peers /\ call[t].peer \in Peers
      /\ link[c] # "unused" /\ dest[c] = call[t].peer
  BY DEF ControlInv, FramesSet, FrameSet, Holding, SendEnter, At, Owns, Owning
<1>3. CASE Written(c, W!Enter(dest[c])) /\ Goto(t, "lock") /\ UNCHANGED link
  <2>1. Moved(t) /\ pc'[t] = "lock" /\ call'[t] = call[t]
    BY <1>1, <1>3, Move DEF Labels
  <2>2. W!Enter(dest[c]) \in Messages
    BY <1>2 DEF W!Enter, Messages
  <2>3. wire' \in [Conns -> Seq(Messages)]
    BY <1>1, <1>2, <1>3, <2>2, WrittenTyped
  <2>4. FrameSet(t)' /\ \A d \in Conns : Owns(t, d)' => Owns(t, d)
    BY <1>2, <1>3, <2>1 DEF SendEnter, At, FrameSet, Owns, Owning
  <2>5. TypeOK'
    BY <1>1, <1>3, <2>1, <2>3 DEF SendEnter, TypeOK, Moved, sessionVars
  <2>6. QED
    BY <1>1, <1>3, <2>1, <2>4, <2>5, LocalStep DEF SendEnter, ControlInv, sessionVars
<1>4. CASE WriteError(c) /\ CloseLink(c) /\ Return(t)
  <2>1. Moved(t) /\ pc'[t] = "idle"
    BY <1>1, <1>4, MoveBack
  <2>2. FrameSet(t)' /\ \A d \in Conns : ~Owns(t, d)'
    BY <2>1 DEF FrameSet, Holding, Owns, Owning
  <2>3. TypeOK'
    BY <1>1, <1>4, <2>1 DEF SendEnter, TypeOK, Moved, sessionVars, WriteError, CloseLink
  <2>4. QED
    BY <1>1, <1>2, <1>4, <2>1, <2>2, <2>3, CloseStep DEF SendEnter, ControlInv
<1>5. QED
  BY <1>3, <1>4 DEF SendEnter

LEMMA EnterControlStep ==
  ASSUME ControlInv, NEW t \in Threads, EnterControl(t)
  PROVE  ControlInv'
<1> DEFINE c == call[t].conn
<1>1. TypeOK /\ t \in Threads
  BY DEF ControlInv
<1>2. /\ c \in Conns /\ Owns(t, c) /\ call[t].peer \in Peers
      /\ link[c] # "unused" /\ dest[c] = call[t].peer
  BY DEF ControlInv, FramesSet, FrameSet, Holding, EnterControl, At, Owns, Owning
<1>3. CASE locked' = TRUE /\ Goto(t, "publish") /\ UNCHANGED link
  <2>1. Moved(t) /\ pc'[t] = "publish" /\ call'[t] = call[t]
    BY <1>1, <1>3, Move DEF Labels
  <2>2. FrameSet(t)' /\ \A d \in Conns : Owns(t, d)' => Owns(t, d)
    BY <1>2, <1>3, <2>1 DEF EnterControl, At, FrameSet, Owns, Owning
  <2>3. TypeOK'
    BY <1>1, <1>3, <2>1 DEF EnterControl, TypeOK, Moved, sessionVars
  <2>4. QED
    BY <1>1, <1>3, <2>1, <2>2, <2>3, LocalStep DEF EnterControl, ControlInv, sessionVars
<1>4. CASE CloseLink(c) /\ Return(t) /\ UNCHANGED locked
  <2>1. Moved(t) /\ pc'[t] = "idle"
    BY <1>1, <1>4, MoveBack
  <2>2. FrameSet(t)' /\ \A d \in Conns : ~Owns(t, d)'
    BY <2>1 DEF FrameSet, Holding, Owns, Owning
  <2>3. TypeOK'
    BY <1>1, <1>4, <2>1 DEF EnterControl, TypeOK, Moved, sessionVars, CloseLink
  <2>4. QED
    BY <1>1, <1>2, <1>4, <2>1, <2>2, <2>3, CloseStep DEF EnterControl, ControlInv
<1>5. QED
  BY <1>3, <1>4 DEF EnterControl

LEMMA PublishStep ==
  ASSUME ControlInv, NEW t \in Threads, Publish(t)
  PROVE  ControlInv'
<1> DEFINE c == call[t].conn
<1>1. TypeOK /\ UNCHANGED <<link, dest>>
  BY DEF ControlInv, Publish, netVars
<1>2. /\ c \in Conns /\ Owns(t, c) /\ call[t].peer \in Peers
      /\ link[c] \in {"open", "broken"} /\ dest[c] = call[t].peer
  BY DEF ControlInv, FramesSet, FrameSet, Holding, OwnedIsOpen, Publish, At, Owns, Owning
<1>3. Moved(t) /\ pc'[t] = "first" /\ call'[t] = call[t]
  BY <1>1, Move DEF Publish, Labels
<1>4. /\ controlConn' = c
      /\ controlState' \in Session /\ controlState'.peer = call[t].peer
      /\ control' \in Banner
  BY <1>2 DEF Publish, Session, Banner
<1>5. FramesSet'
  <2>1. FrameSet(t)'
    BY <1>1, <1>2, <1>3 DEF FrameSet
  <2>2. \A u \in Threads : u # t => FrameSet(u)'
    BY <1>1, <1>3 DEF ControlInv, FramesSet, FrameSet, Moved
  <2>3. QED
    BY <2>1, <2>2 DEF FramesSet
<1>6. DialledHasPeer'
  BY <1>1 DEF ControlInv, DialledHasPeer
<1>7. \A u \in Threads, d \in Conns : Owns(u, d)' => u # t /\ Owns(u, d)
  BY <1>3 DEF Moved, Owns, Owning
<1>8. \A u \in Threads, d \in Conns : Owns(u, d)' => d # c
  BY <1>2, <1>7 DEF ControlInv, OneOwner
<1>9. OwnedIsOpen' /\ OneOwner'
  BY <1>1, <1>4, <1>7, <1>8 DEF ControlInv, OwnedIsOpen, OneOwner
<1>10. SessionOwnsOpenConnection'
  BY <1>1, <1>2, <1>4, ControlSessionAssumption DEF SessionOwnsOpenConnection
<1>11. TypeOK'
  BY <1>1, <1>2, <1>3, <1>4 DEF Publish, TypeOK, Moved, netVars
<1>12. QED
  BY <1>5, <1>6, <1>9, <1>10, <1>11 DEF ControlInv

LEMMA BreakStep ==
  ASSUME ControlInv, NEW c \in Conns, Break(c)
  PROVE  ControlInv'
<1>1. TypeOK /\ UNCHANGED <<sessionVars, escRecent, locked, dest, wire, threadVars>>
  BY DEF ControlInv, Break
<1>2. /\ link' \in [Conns -> {"unused", "open", "broken", "closed"}]
      /\ link[c] = "open" /\ link'[c] = "broken"
      /\ \A d \in Conns : d # c => link'[d] = link[d]
  BY <1>1 DEF TypeOK, Break
<1>3. FramesSet' /\ DialledHasPeer'
  BY <1>1, <1>2 DEF ControlInv, FramesSet, FrameSet, DialledHasPeer, threadVars
<1>4. OwnedIsOpen' /\ OneOwner'
  BY <1>1, <1>2 DEF ControlInv, OwnedIsOpen, OneOwner, Owns, threadVars, sessionVars
<1>5. SessionOwnsOpenConnection'
  BY <1>1, <1>2 DEF ControlInv, SessionOwnsOpenConnection, sessionVars, TypeOK
<1>6. TypeOK'
  BY <1>1, <1>2 DEF TypeOK, threadVars, sessionVars
<1>7. QED
  BY <1>3, <1>4, <1>5, <1>6 DEF ControlInv

\* A step that touches only the banner and the escape window, or nothing.
LEMMA BannerStep ==
  ASSUME ControlInv, control' \in Banner \cup {None}, escRecent' \in BOOLEAN,
         UNCHANGED <<controlState, controlConn, locked, netVars, threadVars>>
  PROVE  ControlInv'
<1>1. TypeOK'
  BY DEF ControlInv, TypeOK, netVars, threadVars
<1>2. FramesSet' /\ DialledHasPeer' /\ OwnedIsOpen' /\ OneOwner'
  BY DEF ControlInv, FramesSet, FrameSet, DialledHasPeer, OwnedIsOpen, OneOwner, Owns,
         netVars, threadVars
<1>3. SessionOwnsOpenConnection'
  BY DEF ControlInv, SessionOwnsOpenConnection, netVars
<1>4. QED
  BY <1>1, <1>2, <1>3 DEF ControlInv

-----------------------------------------------------------------------------
(* The invariant                                                           *)

LEMMA ControlInvInit == Init => ControlInv
<1> SUFFICES ASSUME Init PROVE ControlInv
  OBVIOUS
<1>1. TypeOK
  <2>1. << >> \in Seq(Messages) /\ NoCall \in Frame
    BY DEF NoCall, Frame
  <2>2. wire \in [Conns -> Seq(Messages)] /\ call \in [Threads -> Frame]
    BY <2>1 DEF Init
  <2>3. QED
    BY <2>2 DEF Init, TypeOK, Labels
<1>2. FramesSet /\ DialledHasPeer /\ OwnedIsOpen /\ OneOwner
  BY DEF Init, FramesSet, FrameSet, Holding, DialledHasPeer, OwnedIsOpen, OneOwner,
         Owns, Owning
<1>3. SessionOwnsOpenConnection
  BY DEF Init, SessionOwnsOpenConnection
<1>4. QED
  BY <1>1, <1>2, <1>3 DEF ControlInv

LEMMA ControlInvStep == ControlInv /\ [Next]_vars => ControlInv'
<1> SUFFICES ASSUME ControlInv, [Next]_vars PROVE ControlInv'
  OBVIOUS
<1>1. CASE UNCHANGED vars
  BY <1>1, BannerStep DEF vars, sessionVars, ControlInv, TypeOK
<1>2. CASE Request
  BY <1>2, StartControlStep, StopControlStep, TakeEventStep DEF Request
<1>3. ASSUME NEW t \in Threads, Run(t)
      PROVE  ControlInv'
  <2>1. CASE Stop(t)
    BY <2>1, ClearSessionStep, SendLeaveStep, ExitControlStep, CloseConnStep DEF Stop
  <2>2. CASE Begin(t)
    BY <2>2, LookupStep, DialStep, SendEnterStep, EnterControlStep, PublishStep,
       SendFirstStep DEF Begin
  <2>3. CASE Forward
    BY <2>3, EscapeTapStep, PanicStopStep, ReadSessionStep, SteerStep, ForwardEventStep
       DEF Forward
  <2>4. QED
    BY <1>3, <2>1, <2>2, <2>3 DEF Run
<1>4. CASE Environment
  <2>1. CASE WindowPasses
    BY <2>1, BannerStep DEF WindowPasses, sessionVars, ControlInv, TypeOK
  <2>2. ASSUME NEW p \in Peers, HandleControlEnter(p) \/ HandleControlLeave(p)
        PROVE  ControlInv'
    BY <2>2, BannerStep
       DEF HandleControlEnter, HandleControlLeave, Banner, ControlInv, TypeOK
  <2>3. ASSUME NEW c \in Conns, Break(c)
        PROVE  ControlInv'
    BY <2>3, BreakStep
  <2>4. QED
    BY <1>4, <2>1, <2>2, <2>3 DEF Environment
<1>5. QED
  BY <1>1, <1>2, <1>3, <1>4 DEF Next

THEOREM ControlInvariant == Spec => []ControlInv
BY ControlInvInit, ControlInvStep, PTL DEF Spec

\* Every variable keeps its type, whatever the threads and the network do.
THEOREM TypeCorrect == Spec => []TypeOK
<1>1. ControlInv => TypeOK
  BY DEF ControlInv
<1>2. QED
  BY <1>1, ControlInvariant, PTL

\* The service's connection is open and leads to the peer of its session: no
\* two threads ever stop the same session, and none closes a connection that
\* another still uses as the service's.
THEOREM SessionConnectionOpen == Spec => []SessionOwnsOpenConnection
<1>1. ControlInv => SessionOwnsOpenConnection
  BY DEF ControlInv
<1>2. QED
  BY <1>1, ControlInvariant, PTL

-----------------------------------------------------------------------------
(* Local input is never withheld for good                                  *)

\* The labels at which a thread answers for the input being withheld.
Answers(t) == pc[t] \in {"publish", "leave", "exit"}

\* A step of a thread that does not answer keeps every thread that does.
LEMMA OthersAnswer ==
  ASSUME NoStrandedSuppression, NEW t \in Threads, ~Answers(t),
         \A u \in Threads : u # t => pc'[u] = pc[u],
         locked' = locked,
         controlState # None => controlState' # None
  PROVE  NoStrandedSuppression'
BY DEF NoStrandedSuppression, Answers

LEMMA SuppressionStep ==
  ASSUME ControlInv, ControlInv', NoStrandedSuppression, [Next]_vars
  PROVE  NoStrandedSuppression'
<1>a. /\ TypeOK
      /\ controlState = None <=> controlConn = None
      /\ controlState' = None <=> controlConn' = None
  BY DEF ControlInv, SessionOwnsOpenConnection
<1>1. CASE UNCHANGED vars
  BY <1>1 DEF vars, sessionVars, threadVars, NoStrandedSuppression
<1>2. CASE Request
  <2>1. ASSUME NEW t \in Handlers, (\E p \in Peers : StartControl(t, p)) \/ StopControl(t)
        PROVE  NoStrandedSuppression'
    <3>1. t \in Threads
      BY DEF Threads
    <3>2. QED
      BY <1>a, <2>1, <3>1, OthersAnswer
         DEF StartControl, StopControl, At, Answers, GotoWith, CallStop, TypeOK, sessionVars
  <2>2. ASSUME NEW p \in Peers, TakeEvent(p)
        PROVE  NoStrandedSuppression'
    BY <1>a, <2>2, OthersAnswer
       DEF TakeEvent, At, Answers, Goto, GotoWith, Threads, TypeOK, sessionVars
  <2>3. QED
    BY <1>2, <2>1, <2>2 DEF Request
<1>3. ASSUME NEW t \in Threads, Stop(t)
      PROVE  NoStrandedSuppression'
  <2>1. CASE ClearSession(t)
    BY <1>a, <2>1 DEF ClearSession, GotoWith, NoStrandedSuppression, TypeOK
  <2>2. CASE SendLeave(t)
    BY <1>a, <2>2 DEF SendLeave, GotoWith, At, NoStrandedSuppression, sessionVars, TypeOK
  <2>3. CASE ExitControl(t)
    BY <2>3 DEF ExitControl, NoStrandedSuppression
  <2>4. CASE CloseConn(t)
    BY <1>a, <2>4, OthersAnswer
       DEF CloseConn, StopReturns, Return, GotoWith, At, Answers, TypeOK, sessionVars
  <2>5. QED
    BY <1>3, <2>1, <2>2, <2>3, <2>4 DEF Stop
<1>4. ASSUME NEW t \in Threads, Begin(t)
      PROVE  NoStrandedSuppression'
  <2>1. CASE EnterControl(t)
    <3>1. CASE locked' = TRUE /\ Goto(t, "publish")
      BY <1>a, <3>1 DEF Goto, NoStrandedSuppression, TypeOK
    <3>2. CASE Return(t) /\ UNCHANGED locked
      BY <1>a, <2>1, <3>2, OthersAnswer
         DEF EnterControl, Return, GotoWith, At, Answers, TypeOK, sessionVars
    <3>3. QED
      BY <2>1, <3>1, <3>2 DEF EnterControl
  <2>2. CASE Publish(t)
    <3>1. controlState' # None
      <4>1. call[t].conn \in Conns
        BY <2>2 DEF ControlInv, FramesSet, FrameSet, Holding, Publish, At
      <4>2. QED
        BY <1>a, <2>2, <4>1, ControlSessionAssumption DEF Publish
    <3>2. QED
      BY <3>1 DEF NoStrandedSuppression
  <2>3. CASE Lookup(t) \/ Dial(t) \/ SendEnter(t) \/ SendFirst(t)
    BY <1>a, <2>3, OthersAnswer
       DEF Lookup, Dial, SendEnter, SendFirst, CallStop, Return, Goto, GotoWith, At,
           Answers, TypeOK, sessionVars
  <2>4. QED
    BY <1>4, <2>1, <2>2, <2>3 DEF Begin
<1>5. CASE Forward
  <2>1. CASE Steer
    <3>1. controlState # None => controlState' # None
      BY <1>a, <2>1 DEF Steer
    <3>2. QED
      BY <1>a, <2>1, <3>1, OthersAnswer DEF Steer, Goto, At, Answers, Threads, TypeOK
  <2>2. CASE EscapeTap \/ PanicStop \/ ReadSession \/ ForwardEvent
    BY <1>a, <2>2, OthersAnswer
       DEF EscapeTap, PanicStop, ReadSession, ForwardEvent, CallStop, Return, Goto, GotoWith,
           At, Answers, Threads, TypeOK, sessionVars
  <2>3. QED
    BY <1>5, <2>1, <2>2 DEF Forward
<1>6. CASE Environment
  BY <1>6 DEF Environment, WindowPasses, HandleControlEnter, HandleControlLeave, Break,
              NoStrandedSuppression, sessionVars, threadVars
<1>7. QED
  BY <1>1, <1>2, <1>3, <1>4, <1>5, <1>6 DEF Next, Run

\* For every number of peers, connections and handlers: local input is withheld
\* only while a session exists or a thread is about to set or to end one.
THEOREM NeverStranded == Spec => []NoStrandedSuppression
<1>1. Init => NoStrandedSuppression
  BY DEF Init, NoStrandedSuppression
<1>2. ControlInv /\ ControlInv' /\ NoStrandedSuppression /\ [Next]_vars
        => NoStrandedSuppression'
  BY SuppressionStep
<1>3. QED
  BY <1>1, <1>2, ControlInvariant, PTL DEF Spec

-----------------------------------------------------------------------------
(* The banner                                                              *)

LEMMA BannerKept ==
  ASSUME ControlInv, ControlInv', BannerNamesControlledPeer, [Next]_vars
  PROVE  BannerNamesControlledPeer'
<1>1. CASE UNCHANGED sessionVars
  BY <1>1 DEF sessionVars, BannerNamesControlledPeer
<1>2. ASSUME NEW t \in Threads, ClearSession(t)
      PROVE  BannerNamesControlledPeer'
  BY <1>2 DEF ClearSession, BannerNamesControlledPeer
<1>3. ASSUME NEW t \in Threads, Publish(t)
      PROVE  BannerNamesControlledPeer'
  <2>1. controlConn' # None
    BY <1>3, ControlSessionAssumption
       DEF ControlInv, FramesSet, FrameSet, Holding, Publish, At
  <2>2. controlState' # None
    BY <2>1 DEF ControlInv, SessionOwnsOpenConnection
  <2>3. controlState'.peer = control'.peer
    BY <1>3 DEF Publish
  <2>4. QED
    BY <2>2, <2>3 DEF BannerNamesControlledPeer
<1>4. CASE Steer
  <2>1. controlState # None => controlState' # None
    BY <1>4 DEF Steer, ControlInv, SessionOwnsOpenConnection
  <2>2. controlState # None => controlState'.peer = controlState.peer
    <3>1. SUFFICES ASSUME controlState # None
                   PROVE  controlState'.peer = controlState.peer
      OBVIOUS
    <3>2. controlState \in Session
      BY <3>1 DEF ControlInv, TypeOK
    <3>3. QED
      BY <1>4, <3>1, <3>2 DEF Steer, Session
  <2>3. QED
    BY <1>4, <2>1, <2>2 DEF Steer, BannerNamesControlledPeer
<1>5. ASSUME NEW p \in Peers, HandleControlEnter(p) \/ HandleControlLeave(p)
      PROVE  BannerNamesControlledPeer'
  BY <1>5 DEF HandleControlEnter, HandleControlLeave, BannerNamesControlledPeer
<1>6. QED
  <2>1. CASE Request
    BY <1>1, <2>1 DEF Request, StartControl, StopControl, TakeEvent
  <2>2. ASSUME NEW t \in Threads, Stop(t)
        PROVE  BannerNamesControlledPeer'
    BY <1>1, <1>2, <2>2 DEF Stop, SendLeave, ExitControl, CloseConn
  <2>3. ASSUME NEW t \in Threads, Begin(t)
        PROVE  BannerNamesControlledPeer'
    BY <1>1, <1>3, <2>3 DEF Begin, Lookup, Dial, SendEnter, EnterControl, SendFirst
  <2>4. CASE Forward
    BY <1>1, <1>4, <2>4 DEF Forward, EscapeTap, PanicStop, ReadSession, ForwardEvent
  <2>5. CASE Environment
    BY <1>1, <1>5, <2>5 DEF Environment, WindowPasses, Break
  <2>6. CASE UNCHANGED vars
    BY <1>1, <2>6 DEF vars
  <2>7. QED
    BY <2>1, <2>2, <2>3, <2>4, <2>5, <2>6 DEF Next, Run

\* A banner that says "Controlling X" is never left over from a session that
\* has ended, nor does it name another machine than the one input goes to.
THEOREM BannerTruthful == Spec => []BannerNamesControlledPeer
<1>1. Init => BannerNamesControlledPeer
  BY DEF Init, BannerNamesControlledPeer
<1>2. ControlInv /\ ControlInv' /\ BannerNamesControlledPeer /\ [Next]_vars
        => BannerNamesControlledPeer'
  BY BannerKept
<1>3. QED
  BY <1>1, <1>2, ControlInvariant, PTL DEF Spec

-----------------------------------------------------------------------------
(* The connections are used as ControlWire says                            *)

\* What w was written on is opened by control.enter, with no control.leave yet.
Opened(w) == w # << >> /\ \A i \in 1 .. Len(w) : w[i].kind # "control.leave"

\* Labels at which the properties of a thread's connection matter.
Watched == {"enter", "lock", "publish", "first", "steer", "write", "leave"}

\* What the connection in thread t's local variable carries.
WireOf(t) ==
  LET c == call[t].conn IN
  /\ pc[t] = "enter" => wire[c] = << >>
  /\ pc[t] \in {"lock", "publish"} => Opened(wire[c])
  /\ pc[t] \in {"first", "steer", "write"} => wire[c] # << >>
  /\ pc[t] = "leave" /\ c # None => Opened(wire[c])

WireInv ==
  /\ \A c \in Conns : link[c] = "unused" => wire[c] = << >>
  /\ controlConn # None => Opened(wire[controlConn])
  /\ \A t \in Threads : WireOf(t)

Others(t) == \A u \in Threads : u # t => pc'[u] = pc[u] /\ call'[u] = call[u]

LEMMA ThreadGoes ==
  ASSUME TypeOK, NEW t \in Threads, NEW l, NEW f, GotoWith(t, l, f)
  PROVE  Others(t) /\ pc'[t] = l /\ call'[t] = f
BY DEF TypeOK, GotoWith, Others

LEMMA ThreadGoesOn ==
  ASSUME TypeOK, NEW t \in Threads, NEW l, Goto(t, l)
  PROVE  Others(t) /\ pc'[t] = l /\ call'[t] = call[t]
BY DEF TypeOK, Goto, Others

\* A thread that returns, or calls stopControlSession, writes nothing next.
LEMMA ThreadLeaves ==
  ASSUME TypeOK, NEW t \in Threads,
         \/ Return(t) \/ StopReturns(t)
         \/ \E p \in Peers \cup {None}, l \in {"idle", "dial"} : CallStop(t, p, l)
  PROVE  Others(t) /\ WireOf(t)'
<1>1. Others(t) /\ pc'[t] \in {"idle", "dial", "clear"}
  BY ThreadGoes DEF Return, StopReturns, CallStop
<1> QED
  BY <1>1 DEF WireOf

\* A step of one thread that writes nothing.
LEMMA WireQuiet ==
  ASSUME ControlInv, WireInv, NEW t \in Threads, Others(t), WireOf(t)', UNCHANGED wire,
         \A c \in Conns : link'[c] = "unused" => link[c] = "unused",
         controlConn' # None => Opened(wire[controlConn'])
  PROVE  WireInv'
<1>1. \A c \in Conns : link'[c] = "unused" => wire'[c] = << >>
  BY DEF WireInv
<1>2. controlConn' # None => Opened(wire'[controlConn'])
  BY DEF Opened
<1>3. ASSUME NEW u \in Threads PROVE WireOf(u)'
  <2>1. CASE u = t
    BY <2>1
  <2>2. CASE u # t
    BY <2>2 DEF Others, WireInv, WireOf
  <2> QED
    BY <2>1, <2>2
<1> QED
  BY <1>1, <1>2, <1>3 DEF WireInv

\* An event keeps an opened connection opened, and opens none.
LEMMA EventKeeps ==
  ASSUME TypeOK, NEW c \in Conns, NEW p \in Peers, wire[c] # << >>, Written(c, W!Event(p)),
         NEW d \in Conns
  PROVE  (wire'[d] = << >> <=> wire[d] = << >>) /\ (Opened(wire[d]) => Opened(wire'[d]))
<1>1. CASE d # c
  <2>1. wire'[d] = wire[d]
    BY <1>1 DEF TypeOK, Written
  <2> QED
    BY <2>1 DEF Opened
<1>2. CASE d = c
  <2> DEFINE w == wire[c]
             e == W!Event(p)
  <2>1. w \in Seq(Messages) /\ e \in Messages /\ e.kind = "control.event"
    BY DEF TypeOK, W!Event, Messages
  <2>2. wire'[c] = w \/ wire'[c] = Append(w, e)
    BY DEF TypeOK, Written, W!Say
  <2>3. CASE wire'[c] = w
    BY <1>2, <2>3 DEF Opened
  <2>4. CASE wire'[c] = Append(w, e)
    <3> HIDE DEF w, e
    <3>1. /\ Append(w, e) # << >> /\ Len(Append(w, e)) = Len(w) + 1 /\ Len(w) \in Nat
          /\ \A i \in 1 .. Len(w) + 1 :
               Append(w, e)[i] = IF i = Len(w) + 1 THEN e ELSE w[i]
      BY <2>1
    <3>2. ASSUME Opened(w), NEW i \in 1 .. Len(Append(w, e)),
                 Append(w, e)[i].kind = "control.leave"
          PROVE  FALSE
      <4>1. i \in 1 .. Len(w) /\ w[i].kind = "control.leave"
        BY <2>1, <3>1, <3>2
      <4> QED
        BY <3>2, <4>1 DEF Opened
    <3>3. Opened(w) => Opened(Append(w, e))
      BY <3>1, <3>2 DEF Opened
    <3> QED
      BY <1>2, <2>4, <3>1, <3>3 DEF w
  <2> QED
    BY <2>2, <2>3, <2>4
<1> QED
  BY <1>1, <1>2

\* A step of one thread that writes an event.
LEMMA EventQuiet ==
  ASSUME ControlInv, WireInv, NEW t \in Threads, NEW c \in Conns, NEW p \in Peers,
         wire[c] # << >>, Written(c, W!Event(p)), Others(t), WireOf(t)',
         UNCHANGED <<link, controlConn>>
  PROVE  WireInv'
<1>1. TypeOK
  BY DEF ControlInv
<1>2. \A d \in Conns : link'[d] = "unused" => wire'[d] = << >>
  BY <1>1, EventKeeps DEF WireInv
<1>3. controlConn' # None => Opened(wire'[controlConn'])
  <2>1. controlConn # None => controlConn \in Conns
    BY <1>1 DEF TypeOK
  <2>2. controlConn # None => Opened(wire[controlConn])
    BY DEF WireInv
  <2> QED
    BY <1>1, <2>1, <2>2, EventKeeps DEF Opened
<1>4. ASSUME NEW u \in Threads PROVE WireOf(u)'
  <2>1. CASE u = t
    BY <2>1
  <2>2. CASE u # t
    <3> DEFINE d == call[u].conn
    <3>1. pc'[u] = pc[u] /\ call'[u] = call[u] /\ WireOf(u) /\ FrameSet(u)
      BY <2>2 DEF Others, WireInv, ControlInv, FramesSet
    <3>2. d \in Conns \cup {None}
      BY <1>1 DEF TypeOK, Frame
    <3>3. d \in Conns => (wire'[d] = << >> <=> wire[d] = << >>) /\ (Opened(wire[d]) => Opened(wire'[d]))
      BY <1>1, EventKeeps
    <3>4. pc[u] \in Holding => d \in Conns
      BY <3>1 DEF FrameSet
    <3> QED
      BY <3>1, <3>2, <3>3, <3>4 DEF WireOf, Holding
  <2> QED
    BY <2>1, <2>2
<1> QED
  BY <1>2, <1>3, <1>4 DEF WireInv

\* A step of the owner of c that writes control.enter or control.leave on it.
LEMMA OwnerWrites ==
  ASSUME ControlInv, WireInv, NEW t \in Threads, NEW c \in Conns, NEW m, Owns(t, c),
         wire' = [wire EXCEPT ![c] = m], Others(t), WireOf(t)',
         wire[c] # << >> => m # << >>,
         UNCHANGED <<link, controlConn>>
  PROVE  WireInv'
<1>1. /\ TypeOK /\ link[c] # "unused" /\ controlConn # c
      /\ \A u \in Threads : Owns(u, c) => u = t
  BY DEF ControlInv, OwnedIsOpen, OneOwner
<1>2. wire'[c] = m /\ \A d \in Conns : d # c => wire'[d] = wire[d]
  BY <1>1 DEF TypeOK
<1>3. \A d \in Conns : d # c => (Opened(wire[d]) => Opened(wire'[d]))
  BY <1>2 DEF Opened
<1>4. \A d \in Conns : link'[d] = "unused" => wire'[d] = << >>
  BY <1>1, <1>2 DEF WireInv
<1>5. controlConn' # None => Opened(wire'[controlConn'])
  <2>1. controlConn # None => controlConn \in Conns /\ Opened(wire[controlConn])
    BY <1>1 DEF TypeOK, WireInv
  <2> QED
    BY <1>1, <1>3, <2>1 DEF Opened
<1>6. ASSUME NEW u \in Threads PROVE WireOf(u)'
  <2>1. CASE u = t
    BY <2>1
  <2>2. CASE u # t
    <3> DEFINE d == call[u].conn
    <3>1. pc'[u] = pc[u] /\ call'[u] = call[u] /\ WireOf(u) /\ FrameSet(u)
      BY <2>2 DEF Others, WireInv, ControlInv, FramesSet
    <3>2. d \in Conns \cup {None} /\ (pc[u] \in Holding => d \in Conns)
      BY <1>1, <3>1 DEF TypeOK, Frame, FrameSet
    <3>3. CASE d = c
      <4>1. pc[u] \notin {"enter", "lock", "publish", "leave"}
        BY <1>1, <2>2, <3>3 DEF Owns, Owning
      <4> QED
        BY <1>2, <3>1, <3>3, <4>1 DEF WireOf
    <3>4. CASE d # c
      <4>1. d \in Conns => wire'[d] = wire[d] /\ (Opened(wire[d]) => Opened(wire'[d]))
        BY <1>2, <1>3, <3>4
      <4> QED
        BY <3>1, <3>2, <4>1 DEF WireOf, Holding
    <3> QED
      BY <3>3, <3>4
  <2> QED
    BY <2>1, <2>2
<1> QED
  BY <1>4, <1>5, <1>6 DEF WireInv

-----------------------------------------------------------------------------
(* Steps of ControlWire                                                    *)

LEMMA WireStutters ==
  ASSUME UNCHANGED netVars PROVE UNCHANGED W!vars
BY DEF netVars, W!vars

\* An owner closes a connection.
LEMMA WireCloses ==
  ASSUME ControlInv, NEW t \in Threads, NEW c \in Conns, Owns(t, c), CloseLink(c),
         UNCHANGED <<dest, wire>>
  PROVE  W!Next
<1>1. link \in [Conns -> {"unused", "open", "broken", "closed"}]
      /\ link[c] \in {"open", "broken"}
  BY DEF ControlInv, TypeOK, OwnedIsOpen
<1>2. W!Close(c)
  BY <1>1 DEF W!Close, CloseLink
<1> QED
  BY <1>2 DEF W!Next

\* A step of one thread that writes an event for the machine c leads to.
LEMMA EventStep ==
  ASSUME ControlInv, WireInv, NEW t \in Threads, NEW c \in Conns, NEW p \in Peers,
         wire[c] # << >>, dest[c] = p, Written(c, W!Event(p)), Others(t), WireOf(t)',
         UNCHANGED <<sessionVars, link, dest>>
  PROVE  WireInv' /\ W!Next
<1>1. WireInv'
  BY EventQuiet DEF sessionVars
<1>2. wire' = [wire EXCEPT ![c] = W!Say(wire[c], W!Event(dest[c]))]
  BY DEF Written
<1>3. W!WriteEvent(c)
  BY <1>2 DEF W!WriteEvent, W!Entered, Written, ControlInv, TypeOK
<1> QED
  BY <1>1, <1>3 DEF W!Next

\* A step of one thread that leaves the network alone.
LEMMA NetQuiet ==
  ASSUME ControlInv, WireInv, NEW t \in Threads, Others(t), WireOf(t)', UNCHANGED netVars,
         controlConn' # None => Opened(wire[controlConn'])
  PROVE  WireInv' /\ UNCHANGED W!vars
BY WireQuiet, WireStutters DEF netVars

\* What the service's connection carries, for steps that keep it.
LEMMA KeptConn ==
  ASSUME WireInv, UNCHANGED controlConn
  PROVE  controlConn' # None => Opened(wire[controlConn'])
BY DEF WireInv

LEMMA RequestWire ==
  ASSUME ControlInv, WireInv, Request
  PROVE  WireInv' /\ UNCHANGED W!vars
<1>1. TypeOK /\ Consumer \in Threads /\ Handlers \subseteq Threads
  BY DEF ControlInv, Threads
<1>2. ASSUME NEW t \in Handlers, NEW p \in Peers, StartControl(t, p)
      PROVE  WireInv' /\ UNCHANGED W!vars
  <2>1. Others(t) /\ pc'[t] = "lookup"
    BY <1>1, <1>2, ThreadGoes DEF StartControl
  <2> QED
    BY <1>1, <1>2, <2>1, NetQuiet, KeptConn DEF StartControl, WireOf, sessionVars
<1>3. ASSUME NEW t \in Handlers, StopControl(t)
      PROVE  WireInv' /\ UNCHANGED W!vars
  <2>1. Others(t) /\ WireOf(t)'
    BY <1>1, <1>3, ThreadLeaves DEF StopControl
  <2> QED
    BY <1>1, <1>3, <2>1, NetQuiet, KeptConn DEF StopControl, sessionVars
<1>4. ASSUME NEW p \in Peers, TakeEvent(p)
      PROVE  WireInv' /\ UNCHANGED W!vars
  <2>1. Others(Consumer) /\ pc'[Consumer] \in {"tap", "read", "lookup"}
    BY <1>1, <1>4, ThreadGoes, ThreadGoesOn DEF TakeEvent
  <2> QED
    BY <1>1, <1>4, <2>1, NetQuiet, KeptConn DEF TakeEvent, WireOf, sessionVars
<1> QED
  BY <1>2, <1>3, <1>4 DEF Request

LEMMA StopWire ==
  ASSUME ControlInv, WireInv, NEW t \in Threads, Stop(t)
  PROVE  WireInv' /\ [W!Next]_(W!vars)
<1> DEFINE c == call[t].conn
<1>1. TypeOK /\ c \in Conns \cup {None}
  BY DEF ControlInv, TypeOK, Frame
<1>2. CASE ClearSession(t)
  <2> DEFINE f == [call[t] EXCEPT !.conn = controlConn, !.hadControl = control # None]
  <2>1. f.conn = controlConn
    BY <1>1 DEF TypeOK, Frame
  <2>2. GotoWith(t, "leave", f)
    BY <1>2 DEF ClearSession
  <2> HIDE DEF f
  <2>3. Others(t) /\ pc'[t] = "leave" /\ call'[t].conn = controlConn
    BY <1>1, <2>1, <2>2, ThreadGoes
  <2>4. UNCHANGED netVars /\ controlConn' = None
    BY <1>2 DEF ClearSession
  <2>5. WireOf(t)'
    BY <2>3, <2>4 DEF WireOf, WireInv, netVars
  <2> QED
    BY <2>3, <2>4, <2>5, NetQuiet
<1>3. CASE SendLeave(t)
  <2>1. pc[t] = "leave" /\ UNCHANGED <<sessionVars, link, dest>>
    BY <1>3 DEF SendLeave, At
  <2>2. Others(t) /\ pc'[t] = "exit"
    BY <1>1, <1>3, ThreadGoes DEF SendLeave
  <2>3. WireOf(t)'
    BY <2>2 DEF WireOf
  <2>4. CASE UNCHANGED wire
    BY <2>1, <2>2, <2>3, <2>4, NetQuiet, KeptConn DEF netVars, sessionVars
  <2>5. CASE ~UNCHANGED wire
    <3>1. c \in Conns /\ Written(c, W!Leave(dest[c]))
      BY <1>1, <1>3, <2>5 DEF SendLeave, WriteError
    <3>2. Owns(t, c) /\ Opened(wire[c])
      BY <2>1, <3>1, ControlSessionAssumption DEF Owns, Owning, WireInv, WireOf
    <3>3. wire' = [wire EXCEPT ![c] = W!Say(wire[c], W!Leave(dest[c]))]
      BY <3>1 DEF Written
    <3>4. W!Say(wire[c], W!Leave(dest[c])) # << >>
      <4>1. wire[c] \in Seq(Messages) /\ wire[c] # << >>
        BY <1>1, <3>1, <3>2 DEF TypeOK, Opened
      <4> DEFINE w == wire[c]
                 m == W!Leave(dest[c])
      <4>2. w \in Seq(Messages) /\ w # << >>
        BY <4>1
      <4> HIDE DEF w, m
      <4>3. W!Say(w, m) = w \/ W!Say(w, m) = Append(w, m)
        BY DEF W!Say
      <4>4. Append(w, m) # << >>
        BY <4>2
      <4> QED
        BY <4>2, <4>3, <4>4 DEF w, m
    <3>5. WireInv'
      BY <2>1, <2>2, <2>3, <3>1, <3>2, <3>3, <3>4, OwnerWrites DEF sessionVars
    <3>6. W!WriteLeave(c)
      BY <1>1, <2>1, <3>1, <3>2, <3>3
      DEF W!WriteLeave, W!Entered, W!Left, Opened, Written, TypeOK
    <3> QED
      BY <3>1, <3>5, <3>6 DEF W!Next
  <2> QED
    BY <2>4, <2>5
<1>4. CASE ExitControl(t)
  <2>1. Others(t) /\ pc'[t] = "close"
    BY <1>1, <1>4, ThreadGoesOn DEF ExitControl
  <2>2. WireOf(t)'
    BY <2>1 DEF WireOf
  <2> QED
    BY <1>4, <2>1, <2>2, NetQuiet, KeptConn DEF ExitControl, sessionVars
<1>5. CASE CloseConn(t)
  <2>1. pc[t] = "close" /\ UNCHANGED <<sessionVars, dest, wire>>
    BY <1>5 DEF CloseConn, At
  <2>2. Others(t) /\ WireOf(t)'
    BY <1>1, <1>5, ThreadLeaves DEF CloseConn
  <2>3. CASE c = None
    BY <1>5, <2>1, <2>2, <2>3, NetQuiet, KeptConn DEF CloseConn, netVars, sessionVars
  <2>4. CASE c # None
    <3>1. c \in Conns /\ Owns(t, c) /\ CloseLink(c)
      BY <1>1, <1>5, <2>1, <2>4 DEF CloseConn, Owns, Owning
    <3>2. W!Next
      BY <2>1, <3>1, WireCloses
    <3>3. \A d \in Conns : link'[d] = "unused" => link[d] = "unused"
      BY <1>1, <3>1 DEF CloseLink, TypeOK
    <3> QED
      BY <2>1, <2>2, <3>2, <3>3, WireQuiet, KeptConn DEF sessionVars
  <2> QED
    BY <2>3, <2>4
<1> QED
  BY <1>2, <1>3, <1>4, <1>5 DEF Stop

LEMMA BeginWire ==
  ASSUME ControlInv, WireInv, NEW t \in Threads, Begin(t)
  PROVE  WireInv' /\ [W!Next]_(W!vars)
<1> DEFINE c == call[t].conn
<1>1. TypeOK /\ FrameSet(t) /\ WireOf(t)
  BY DEF ControlInv, FramesSet, WireInv
<1>2. CASE Lookup(t)
  <2>1. Others(t) /\ WireOf(t)'
    <3>1. pc[t] = "lookup" /\ call[t].peer \in Peers
      BY <1>1, <1>2 DEF Lookup, At, FrameSet
    <3> QED
      BY <1>1, <1>2, <3>1, ThreadLeaves DEF Lookup
  <2> QED
    BY <1>2, <2>1, NetQuiet, KeptConn DEF Lookup, sessionVars
<1>3. CASE Dial(t)
  <2>1. pc[t] = "dial" /\ call[t].peer \in Peers /\ UNCHANGED <<sessionVars, wire>>
    BY <1>1, <1>3 DEF Dial, At, FrameSet
  <2>2. CASE Return(t) /\ UNCHANGED <<link, dest>>
    <3>1. Others(t) /\ WireOf(t)'
      BY <1>1, <2>2, ThreadLeaves
    <3> QED
      BY <2>1, <2>2, <3>1, NetQuiet, KeptConn DEF netVars, sessionVars
  <2>3. ASSUME NEW d \in Conns, link[d] = "unused",
               link' = [link EXCEPT ![d] = "open"],
               dest' = [dest EXCEPT ![d] = call[t].peer],
               GotoWith(t, "enter", [call[t] EXCEPT !.conn = d])
        PROVE  WireInv' /\ W!Next
    <3> DEFINE f == [call[t] EXCEPT !.conn = d]
    <3>1. f.conn = d
      BY <1>1 DEF TypeOK, Frame
    <3>2. GotoWith(t, "enter", f)
      BY <2>3
    <3> HIDE DEF f
    <3>3. Others(t) /\ pc'[t] = "enter" /\ call'[t].conn = d
      BY <1>1, <3>1, <3>2, ThreadGoes
    <3>4. WireOf(t)'
      BY <2>1, <2>3, <3>3 DEF WireOf, WireInv
    <3>5. \A e \in Conns : link'[e] = "unused" => link[e] = "unused"
      BY <1>1, <2>3 DEF TypeOK
    <3>6. WireInv'
      BY <2>1, <3>3, <3>4, <3>5, WireQuiet, KeptConn DEF sessionVars
    <3>7. PICK p \in Peers : p = call[t].peer
      BY <2>1
    <3>8. W!Dial(d, p)
      BY <1>1, <2>1, <2>3, <3>7 DEF W!Dial, TypeOK
    <3> QED
      BY <3>6, <3>8 DEF W!Next
  <2> QED
    BY <1>3, <2>2, <2>3 DEF Dial
<1>4. CASE SendEnter(t)
  <2>1. /\ pc[t] = "enter" /\ c \in Conns /\ Owns(t, c) /\ wire[c] = << >>
        /\ UNCHANGED <<sessionVars, dest>>
    BY <1>1, <1>4 DEF SendEnter, At, FrameSet, Holding, Owns, Owning, WireOf
  <2>2. CASE Written(c, W!Enter(dest[c])) /\ Goto(t, "lock") /\ UNCHANGED link
    <3>1. wire' = [wire EXCEPT ![c] = << W!Enter(dest[c]) >>]
      BY <2>1, <2>2 DEF Written, W!Say
    <3>2. Others(t) /\ pc'[t] = "lock" /\ call'[t] = call[t]
      BY <1>1, <2>2, ThreadGoesOn
    <3>3. wire'[c] = << W!Enter(dest[c]) >>
      BY <1>1, <2>1, <3>1 DEF TypeOK
    <3>4. Opened(wire'[c])
      BY <3>3 DEF Opened, W!Enter
    <3>5. WireOf(t)'
      BY <3>2, <3>4 DEF WireOf
    <3>6. WireInv'
      BY <2>1, <2>2, <3>1, <3>2, <3>5, OwnerWrites DEF sessionVars
    <3>7. W!WriteEnter(c)
      BY <1>1, <2>1, <2>2, <3>1 DEF W!WriteEnter, W!Entered, Written, TypeOK
    <3> QED
      BY <2>1, <3>6, <3>7 DEF W!Next
  <2>3. CASE WriteError(c) /\ CloseLink(c) /\ Return(t)
    <3>1. Others(t) /\ WireOf(t)' /\ UNCHANGED wire
      BY <1>1, <2>3, ThreadLeaves DEF WriteError
    <3>2. \A d \in Conns : link'[d] = "unused" => link[d] = "unused"
      BY <1>1, <2>3 DEF CloseLink, TypeOK
    <3>3. WireInv'
      BY <2>1, <3>1, <3>2, WireQuiet, KeptConn DEF sessionVars
    <3> QED
      BY <2>1, <2>3, <3>1, <3>3, WireCloses
  <2> QED
    BY <1>4, <2>2, <2>3 DEF SendEnter
<1>5. CASE EnterControl(t)
  <2>1. /\ pc[t] = "lock" /\ c \in Conns /\ Owns(t, c)
        /\ UNCHANGED <<sessionVars, dest, wire>>
    BY <1>1, <1>5 DEF EnterControl, At, FrameSet, Holding, Owns, Owning
  <2>2. CASE Goto(t, "publish") /\ UNCHANGED link
    <3>1. Others(t) /\ pc'[t] = "publish" /\ call'[t] = call[t]
      BY <1>1, <2>2, ThreadGoesOn
    <3>2. WireOf(t)'
      BY <1>1, <2>1, <3>1 DEF WireOf
    <3> QED
      BY <2>1, <2>2, <3>1, <3>2, NetQuiet, KeptConn DEF netVars, sessionVars
  <2>3. CASE CloseLink(c) /\ Return(t)
    <3>1. Others(t) /\ WireOf(t)'
      BY <1>1, <2>3, ThreadLeaves
    <3>2. \A d \in Conns : link'[d] = "unused" => link[d] = "unused"
      BY <1>1, <2>3 DEF CloseLink, TypeOK
    <3>3. WireInv'
      BY <2>1, <3>1, <3>2, WireQuiet, KeptConn DEF sessionVars
    <3> QED
      BY <2>1, <2>3, <3>3, WireCloses
  <2> QED
    BY <1>5, <2>2, <2>3 DEF EnterControl
<1>6. CASE Publish(t)
  <2>1. pc[t] = "publish" /\ controlConn' = c /\ Opened(wire[c]) /\ UNCHANGED netVars
    BY <1>1, <1>6 DEF Publish, At, WireOf
  <2>2. Others(t) /\ pc'[t] = "first" /\ call'[t] = call[t]
    BY <1>1, <1>6, ThreadGoesOn DEF Publish
  <2>3. WireOf(t)'
    BY <2>1, <2>2 DEF WireOf, Opened, netVars
  <2> QED
    BY <2>1, <2>2, <2>3, NetQuiet
<1>7. CASE SendFirst(t)
  <2>1. /\ pc[t] = "first" /\ c \in Conns /\ wire[c] # << >>
        /\ call[t].peer \in Peers /\ dest[c] = call[t].peer
        /\ UNCHANGED <<sessionVars, link, dest>>
    BY <1>1, <1>7 DEF SendFirst, At, FrameSet, Holding, WireOf
  <2>2. Others(t) /\ WireOf(t)'
    BY <1>1, <1>7, ThreadLeaves DEF SendFirst
  <2> QED
    BY <1>7, <2>1, <2>2, EventStep, NetQuiet, KeptConn
    DEF SendFirst, WriteError, netVars, sessionVars
<1> QED
  BY <1>2, <1>3, <1>4, <1>5, <1>6, <1>7 DEF Begin

LEMMA ForwardWire ==
  ASSUME ControlInv, WireInv, Forward
  PROVE  WireInv' /\ [W!Next]_(W!vars)
<1> DEFINE c == call[Consumer].conn
<1>1. /\ TypeOK /\ Consumer \in Threads /\ FrameSet(Consumer) /\ WireOf(Consumer)
  BY DEF ControlInv, FramesSet, WireInv, Threads
<1>2. CASE EscapeTap \/ PanicStop
  <2>1. Others(Consumer) /\ WireOf(Consumer)'
    <3>1. CASE Goto(Consumer, "panic")
      <4>1. Others(Consumer) /\ pc'[Consumer] = "panic"
        BY <1>1, <3>1, ThreadGoesOn
      <4> QED
        BY <4>1 DEF WireOf
    <3>2. CASE ~Goto(Consumer, "panic")
      BY <1>1, <1>2, <3>2, ThreadLeaves DEF EscapeTap, PanicStop
    <3> QED
      BY <3>1, <3>2
  <2>2. UNCHANGED <<sessionVars, netVars>>
    BY <1>2 DEF EscapeTap, PanicStop
  <2> QED
    BY <1>1, <2>1, <2>2, NetQuiet, KeptConn DEF sessionVars
<1>3. CASE ReadSession
  <2>1. UNCHANGED <<sessionVars, netVars>>
    BY <1>3 DEF ReadSession
  <2>2. CASE Return(Consumer) \/ CallStop(Consumer, None, "idle")
    <3>1. Others(Consumer) /\ WireOf(Consumer)'
      BY <1>1, <2>2, ThreadLeaves
    <3> QED
      BY <1>1, <2>1, <3>1, NetQuiet, KeptConn DEF sessionVars
  <2>3. ASSUME NEW l \in {"steer", "write"}, controlState # None,
               GotoWith(Consumer, l, [NoCall EXCEPT !.peer = controlState.peer,
                                                    !.conn = controlConn])
        PROVE  WireInv' /\ UNCHANGED W!vars
    <3> DEFINE f == [NoCall EXCEPT !.peer = controlState.peer, !.conn = controlConn]
    <3>1. f.conn = controlConn
      BY DEF NoCall
    <3>2. GotoWith(Consumer, l, f)
      BY <2>3
    <3> HIDE DEF f
    <3>3. Others(Consumer) /\ pc'[Consumer] = l /\ call'[Consumer].conn = controlConn
      BY <1>1, <3>1, <3>2, ThreadGoes
    <3>4. controlConn # None
      BY <2>3 DEF ControlInv, SessionOwnsOpenConnection
    <3>5. WireOf(Consumer)'
      BY <2>1, <3>3, <3>4 DEF WireOf, WireInv, Opened, netVars
    <3> QED
      BY <1>1, <2>1, <3>3, <3>5, NetQuiet, KeptConn DEF sessionVars
  <2> QED
    BY <1>3, <2>2, <2>3 DEF ReadSession
<1>4. CASE Steer
  <2>1. pc[Consumer] = "steer" /\ UNCHANGED <<controlConn, netVars>>
    BY <1>4 DEF Steer, At
  <2>2. Others(Consumer) /\ pc'[Consumer] = "write" /\ call'[Consumer] = call[Consumer]
    BY <1>1, <1>4, ThreadGoesOn DEF Steer
  <2>3. WireOf(Consumer)'
    BY <1>1, <2>1, <2>2 DEF WireOf, netVars
  <2> QED
    BY <1>1, <2>1, <2>2, <2>3, NetQuiet, KeptConn
<1>5. CASE ForwardEvent
  <2>1. /\ pc[Consumer] = "write" /\ c \in Conns /\ wire[c] # << >>
        /\ call[Consumer].peer \in Peers /\ dest[c] = call[Consumer].peer
        /\ UNCHANGED <<sessionVars, link, dest>>
    BY <1>1, <1>5 DEF ForwardEvent, At, FrameSet, Holding, WireOf
  <2>2. Others(Consumer) /\ WireOf(Consumer)'
    BY <1>1, <1>5, ThreadLeaves DEF ForwardEvent
  <2> QED
    BY <1>1, <1>5, <2>1, <2>2, EventStep, NetQuiet, KeptConn
    DEF ForwardEvent, WriteError, netVars, sessionVars
<1> QED
  BY <1>2, <1>3, <1>4, <1>5 DEF Forward

LEMMA EnvironmentWire ==
  ASSUME ControlInv, WireInv, Environment \/ UNCHANGED vars
  PROVE  WireInv' /\ UNCHANGED W!vars
<1>1. CASE UNCHANGED <<controlConn, netVars, threadVars>>
  <2>1. WireInv'
    BY <1>1 DEF WireInv, WireOf, Opened, netVars, threadVars
  <2> QED
    BY <1>1, <2>1, WireStutters
<1>2. ASSUME NEW c \in Conns, Break(c)
      PROVE  WireInv' /\ UNCHANGED W!vars
  <2>1. /\ UNCHANGED <<controlConn, dest, wire, pc, call>>
        /\ link[c] = "open" /\ link'[c] = "broken"
        /\ \A d \in Conns : d # c => link'[d] = link[d]
    BY <1>2 DEF Break, sessionVars, threadVars, ControlInv, TypeOK
  <2>2. WireInv'
    BY <2>1 DEF WireInv, WireOf, Opened
  <2>3. \A d \in Conns : (IF link'[d] = "broken" THEN "open" ELSE link'[d])
                           = (IF link[d] = "broken" THEN "open" ELSE link[d])
    BY <2>1
  <2> QED
    BY <2>1, <2>2, <2>3 DEF W!vars
<1>3. CASE UNCHANGED vars
  BY <1>1, <1>3 DEF vars, sessionVars
<1>4. WindowPasses => UNCHANGED <<controlConn, netVars, threadVars>>
  BY DEF WindowPasses, sessionVars
<1>5. ASSUME NEW p \in Peers, HandleControlEnter(p) \/ HandleControlLeave(p)
      PROVE  UNCHANGED <<controlConn, netVars, threadVars>>
  BY <1>5 DEF HandleControlEnter, HandleControlLeave
<1> QED
  BY <1>1, <1>2, <1>3, <1>4, <1>5 DEF Environment

LEMMA InitWire == Init => WireInv /\ W!Init
<1> SUFFICES ASSUME Init PROVE WireInv /\ W!Init
  OBVIOUS
<1>1. WireInv
  BY DEF Init, WireInv, WireOf
<1>2. W!Init
  BY DEF Init, W!Init
<1> QED
  BY <1>1, <1>2

LEMMA NextWire ==
  ASSUME ControlInv, WireInv, [Next]_vars
  PROVE  WireInv' /\ [W!Next]_(W!vars)
<1>1. ASSUME NEW t \in Threads, Run(t)
      PROVE  WireInv' /\ [W!Next]_(W!vars)
  BY <1>1, StopWire, BeginWire, ForwardWire DEF Run
<1> QED
  BY <1>1, RequestWire, EnvironmentWire DEF Next

\* Whatever starts, stops, taps, moves and failures coincide, each connection
\* carries one control.enter, events for the machine at its end, at most one
\* control.leave, and is closed once: every step of ControlSession is a step of
\* ControlWire or leaves its variables alone.
THEOREM ConnectionsFollowWire == Spec => WireProtocol
<1>1. Init => WireInv /\ W!Init
  BY InitWire
<1>2. ControlInv /\ WireInv /\ [Next]_vars => WireInv' /\ [W!Next]_(W!vars)
  BY NextWire
<1> QED
  BY <1>1, <1>2, ControlInvariant, PTL DEF Spec, WireProtocol, W!Spec

-----------------------------------------------------------------------------
(* The bridges                                                             *)

\* A step of Bridge is one of ControlSession: nothing the platform adds makes a
\* session behave otherwise.
LEMMA BridgeStepIsSessionStep == [BridgeNext]_allVars => [Next]_vars
<1> SUFFICES ASSUME [BridgeNext]_allVars PROVE [Next]_vars
  OBVIOUS
<1>1. CASE \E t \in Handlers : Asked(t)
  BY <1>1 DEF Asked, Next, Request
<1>2. CASE \E p \in Peers : Captured(p)
  BY <1>2 DEF Captured, Next, Request
<1>3. CASE \E t \in Threads : Enter(t) \/ Exit(t) \/ Elsewhere(t)
  BY <1>3 DEF Enter, Exit, Elsewhere, Next, Run, Stop, Begin
<1>4. CASE Environment /\ UNCHANGED bridgeVars
  BY <1>4 DEF Next
<1>5. CASE UNCHANGED allVars
  BY <1>5 DEF allVars
<1>6. QED
  BY <1>1, <1>2, <1>3, <1>4, <1>5 DEF BridgeNext, BridgeStep

\* What is proved of a control session holds over either platform's bridge.
THEOREM BridgeRunsSessions == BridgeSpec => Spec
<1>1. BridgeInit => Init
  BY DEF BridgeInit
<1>2. QED
  BY <1>1, BridgeStepIsSessionStep, PTL DEF BridgeSpec, Spec

\* With a bridge that hides the cursor once only, the cursor is hidden as often
\* as input is withheld.
HiddenOnce == hides = IF locked THEN 1 ELSE 0

LEMMA OthersLeaveLocked ==
  ASSUME NEW t \in Threads,
         \/ Asked(t) \/ Elsewhere(t) \/ \E p \in Peers : Captured(p)
         \/ Environment /\ UNCHANGED bridgeVars
  PROVE  UNCHANGED <<locked, hides>>
<1>1. CASE Asked(t)
  BY <1>1 DEF Asked, StopControl, StartControl, bridgeVars
<1>2. CASE Elsewhere(t)
  BY <1>2 DEF Elsewhere, ClearSession, SendLeave, CloseConn, Lookup, Dial, SendEnter,
       Publish, SendFirst, Forward, EscapeTap, PanicStop, ReadSession, Steer,
       ForwardEvent, bridgeVars, netVars, sessionVars
<1>3. CASE \E p \in Peers : Captured(p)
  BY <1>3 DEF Captured, TakeEvent, bridgeVars
<1>4. CASE Environment /\ UNCHANGED bridgeVars
  BY <1>4 DEF Environment, WindowPasses, HandleControlEnter, HandleControlLeave, Break,
       bridgeVars
<1>5. QED
  BY <1>1, <1>2, <1>3, <1>4

LEMMA HiddenOnceStep ==
  ASSUME Platform = "windows", TypeOK, HiddenOnce, [BridgeNext]_allVars
  PROVE  HiddenOnce'
<1> USE DEF HiddenOnce
<1>1. ASSUME NEW t \in Threads, Enter(t) PROVE HiddenOnce'
  <2>1. CASE locked' = TRUE /\ Goto(t, "publish")
    <3>1. pc'[t] = "publish"
      BY <2>1 DEF Goto, TypeOK
    <3>2. QED
      BY <1>1, <2>1, <3>1 DEF Enter, TypeOK
  <2>2. CASE Return(t) /\ UNCHANGED locked
    <3>1. pc'[t] # "publish"
      BY <2>2 DEF Return, GotoWith, TypeOK
    <3>2. QED
      BY <1>1, <2>2, <3>1 DEF Enter
  <2>3. QED
    BY <1>1, <2>1, <2>2 DEF Enter, EnterControl
<1>2. ASSUME NEW t \in Threads, Exit(t) PROVE HiddenOnce'
  BY <1>2 DEF Exit, ExitControl
<1>3. CASE UNCHANGED allVars
  BY <1>3 DEF allVars, vars, bridgeVars
<1>4. Consumer \in Threads
  BY DEF Threads
<1>5. QED
  BY <1>1, <1>2, <1>3, <1>4, OthersLeaveLocked DEF BridgeNext, BridgeStep, Threads

\* On Windows, once control is back and no start or stop is under way, the input
\* is free and the cursor shown: EnterControl returns early when the input is
\* withheld already, so one ExitControl undoes any number of starts.
THEOREM CursorAlwaysComesBack ==
  ASSUME Platform = "windows"
  PROVE  BridgeSpec => []CursorComesBack
<1>1. BridgeInit => HiddenOnce
  BY DEF BridgeInit, Init, HiddenOnce
<1>2. TypeOK /\ HiddenOnce /\ [BridgeNext]_allVars => HiddenOnce'
  BY HiddenOnceStep
<1>3. BridgeSpec => []TypeOK
  BY BridgeRunsSessions, TypeCorrect
<1>4. BridgeSpec => []NoStrandedSuppression
  BY BridgeRunsSessions, NeverStranded
<1>5. NoStrandedSuppression /\ HiddenOnce => CursorComesBack
  BY DEF NoStrandedSuppression, HiddenOnce, CursorComesBack
<1>6. QED
  BY <1>1, <1>2, <1>3, <1>4, <1>5, PTL DEF BridgeSpec

-----------------------------------------------------------------------------
(* The count of the cursor is never negative                               *)

\* A show has a hide before it: input is withheld only with the cursor hidden.
CountInv ==
  /\ capturing \in BOOLEAN /\ overlapped \in BOOLEAN
  /\ hides \in Nat
  /\ locked => hides # 0

LEMMA CountStep ==
  ASSUME TypeOK, CountInv, [BridgeNext]_allVars
  PROVE  CountInv'
<1> USE DEF CountInv
<1>1. CASE UNCHANGED allVars
  BY <1>1 DEF allVars, vars, bridgeVars
<1>2. CASE BridgeStep /\ Note
  <2>1. overlapped' \in BOOLEAN
    BY <1>2 DEF Note
  <2>2. ASSUME NEW t \in Threads, Enter(t) PROVE CountInv'
    <3>1. CASE locked' = TRUE /\ Goto(t, "publish")
      <4>1. pc'[t] = "publish"
        BY <3>1 DEF Goto, TypeOK
      <4>2. QED
        BY <2>1, <2>2, <3>1, <4>1 DEF Enter
    <3>2. CASE UNCHANGED locked
      BY <2>1, <2>2, <3>2 DEF Enter
    <3>3. QED
      BY <2>2, <3>1, <3>2 DEF Enter, EnterControl
  <2>3. ASSUME NEW t \in Threads, Exit(t) PROVE CountInv'
    BY <2>1, <2>3 DEF Exit, ExitControl
  <2>4. Consumer \in Threads /\ Handlers \subseteq Threads
    BY DEF Threads
  <2>5. ASSUME NEW t \in Threads,
               \/ Asked(t) \/ Elsewhere(t) \/ \E p \in Peers : Captured(p)
               \/ Environment /\ UNCHANGED bridgeVars
        PROVE  CountInv'
    <3>1. UNCHANGED <<locked, hides>>
      BY <2>5, OthersLeaveLocked
    <3>2. UNCHANGED capturing
      BY <2>5 DEF Asked, Elsewhere, Captured, bridgeVars
    <3>3. QED
      BY <2>1, <3>1, <3>2
  <2>6. QED
    BY <1>2, <2>2, <2>3, <2>4, <2>5 DEF BridgeStep
<1>3. QED
  BY <1>1, <1>2 DEF BridgeNext

\* The cursor is never shown more often than it was hidden, on either platform:
\* ExitControl returns early when no input is withheld.
THEOREM BridgeTypeCorrect == BridgeSpec => []BridgeTypeOK
<1>1. BridgeInit => CountInv
  <2> SUFFICES ASSUME BridgeInit PROVE CountInv
    OBVIOUS
  <2>1. hides \in Nat
    BY DEF BridgeInit
  <2>2. QED
    BY <2>1, Zenon DEF BridgeInit, Init, CountInv
<1>2. TypeOK /\ CountInv /\ [BridgeNext]_allVars => CountInv'
  BY CountStep
<1>3. BridgeSpec => []TypeOK
  BY BridgeRunsSessions, TypeCorrect
<1>4. TypeOK /\ CountInv => BridgeTypeOK
  BY DEF CountInv, BridgeTypeOK
<1>5. QED
  BY <1>1, <1>2, <1>3, <1>4, PTL DEF BridgeSpec

-----------------------------------------------------------------------------
(* Starts and stops one at a time                                          *)

\* What a thread alone in a call knows of the session and the bridge.
Phase(t) ==
  /\ hides = IF locked THEN 1 ELSE 0
  /\ pc[t] \in {"lookup", "clear", "first"} => Agreed
  /\ pc[t] \in {"leave", "exit"} => controlState = None
  /\ pc[t] \in {"close", "dial", "enter", "lock"} => controlState = None /\ ~locked
  /\ pc[t] = "publish" => controlState = None /\ locked

SerialInv ==
  ~overlapped =>
    /\ ~Overlap
    /\ Quiet => Agreed
    /\ \A t \in Threads : InCall(t) => Phase(t)

OnlyMoves(t) == \A u \in Threads : u # t => (pc'[u] = pc[u])

\* The session goes on or stays away, the bridge is left alone.
BridgeKept == UNCHANGED <<locked, hides>> /\ (controlState' = None <=> controlState = None)

\* A thread in no call takes no part until it begins one.
OutsideStep(t) ==
  OnlyMoves(t) /\ ~InCall(t) /\ BridgeKept /\ (InCall(t)' => pc'[t] \in {"lookup", "clear"})

\* A step of a call leads to the next phase or back to agreement.
CallStep(t) ==
  OnlyMoves(t) /\ InCall(t) /\ (Phase(t) => IF InCall(t)' THEN Phase(t)' ELSE Agreed')

LEMMA MovedAlone == ASSUME NEW t \in Threads, Moved(t) PROVE OnlyMoves(t)
BY DEF Moved, OnlyMoves

LEMMA AskedOutside ==
  ASSUME TypeOK, NEW t \in Handlers, Asked(t)
  PROVE  OutsideStep(t)
<1>1. t \in Threads
  BY DEF Threads
<1>2. CASE StopControl(t)
  <2>1. Moved(t) /\ pc'[t] = "clear"
    BY <1>1, <1>2, MoveToStop DEF StopControl
  <2>2. QED
    BY <1>1, <1>2, <2>1, MovedAlone
       DEF OutsideStep, StopControl, At, InCall, BridgeKept, Asked, bridgeVars, sessionVars
<1>3. ASSUME NEW p \in Peers, StartControl(t, p) PROVE OutsideStep(t)
  <2>1. Moved(t) /\ pc'[t] = "lookup"
    BY <1>1, <1>3, MoveForPeer DEF StartControl, Labels
  <2>2. QED
    BY <1>1, <1>3, <2>1, MovedAlone
       DEF OutsideStep, StartControl, At, InCall, BridgeKept, Asked, bridgeVars, sessionVars
<1>4. QED
  BY <1>2, <1>3 DEF Asked

LEMMA CapturedOutside ==
  ASSUME TypeOK, NEW p \in Peers, Captured(p)
  PROVE  OutsideStep(Consumer)
<1>1. Consumer \in Threads
  BY DEF Threads
<1>2. Moved(Consumer) /\ pc'[Consumer] \in {"tap", "read", "lookup"}
  BY <1>1, Move, MoveForPeer DEF Captured, TakeEvent, Labels
<1>3. QED
  BY <1>1, <1>2, MovedAlone
     DEF OutsideStep, Captured, TakeEvent, At, InCall, BridgeKept, bridgeVars, sessionVars

LEMMA ForwardOutside ==
  ASSUME ControlInv, Forward, UNCHANGED bridgeVars
  PROVE  OutsideStep(Consumer)
<1> USE DEF ControlInv
<1>1. Consumer \in Threads
  BY DEF Threads
<1>2. CASE EscapeTap
  <2>1. Moved(Consumer) /\ pc'[Consumer] \in {"panic", "idle"}
    BY <1>1, <1>2, Move, MoveBack DEF EscapeTap, Labels
  <2>2. QED
    BY <1>1, <1>2, <2>1, MovedAlone
       DEF OutsideStep, EscapeTap, At, InCall, BridgeKept, bridgeVars, sessionVars
<1>3. CASE PanicStop
  <2>1. Moved(Consumer) /\ pc'[Consumer] = "clear"
    BY <1>1, <1>3, MoveToStop DEF PanicStop
  <2>2. QED
    BY <1>1, <1>3, <2>1, MovedAlone
       DEF OutsideStep, PanicStop, At, InCall, BridgeKept, bridgeVars, sessionVars
<1>4. CASE ReadSession
  <2>1. CASE Return(Consumer) \/ CallStop(Consumer, None, "idle")
    <3>1. Moved(Consumer) /\ pc'[Consumer] \in {"idle", "clear"}
      BY <1>1, <2>1, MoveBack, MoveToStop
    <3>2. QED
      BY <1>1, <1>4, <3>1, MovedAlone
         DEF OutsideStep, ReadSession, At, InCall, BridgeKept, bridgeVars, sessionVars
  <2>2. ASSUME NEW l \in {"steer", "write"},
               GotoWith(Consumer, l, [NoCall EXCEPT !.peer = controlState.peer,
                                                    !.conn = controlConn])
        PROVE  OutsideStep(Consumer)
    <3>1. OnlyMoves(Consumer) /\ pc'[Consumer] = l
      BY <1>1, <2>2 DEF GotoWith, OnlyMoves, TypeOK
    <3>2. QED
      BY <1>1, <1>4, <3>1
         DEF OutsideStep, ReadSession, At, InCall, BridgeKept, bridgeVars, sessionVars
  <2>3. QED
    BY <1>4, <2>1, <2>2 DEF ReadSession
<1>5. CASE Steer
  <2>1. Moved(Consumer) /\ pc'[Consumer] = "write"
    BY <1>1, <1>5, Move DEF Steer, Labels
  <2>2. controlState' = None <=> controlState = None
    <3>1. CASE controlState = None
      BY <1>5, <3>1 DEF Steer
    <3>2. CASE controlState # None
      <4>1. call[Consumer].peer \in Peers
        BY <1>1, <1>5 DEF Steer, At, FramesSet, FrameSet, Holding
      <4>2. controlState' \in Session
        BY <1>5, <3>2, <4>1 DEF Steer, TypeOK, Session
      <4>3. QED
        BY <3>2, <4>2, ControlSessionAssumption
    <3>3. QED
      BY <3>1, <3>2
  <2>3. QED
    BY <1>1, <1>5, <2>1, <2>2, MovedAlone
       DEF OutsideStep, Steer, At, InCall, BridgeKept, bridgeVars
<1>6. CASE ForwardEvent
  <2>1. Moved(Consumer) /\ pc'[Consumer] \in {"idle", "clear"}
    BY <1>1, <1>6, MoveBack, MoveToStop DEF ForwardEvent
  <2>2. QED
    BY <1>1, <1>6, <2>1, MovedAlone
       DEF OutsideStep, ForwardEvent, At, InCall, BridgeKept, bridgeVars, sessionVars
<1>7. QED
  BY <1>2, <1>3, <1>4, <1>5, <1>6 DEF Forward

\* A step of a call that changes neither the session nor the bridge.
LEMMA StillCall ==
  ASSUME NEW t \in Threads, OnlyMoves(t), UNCHANGED <<locked, hides, controlState>>,
         \/ <<pc[t], pc'[t]>> \in {<<"lookup", "clear">>, <<"leave", "exit">>,
                                   <<"close", "dial">>, <<"dial", "enter">>,
                                   <<"enter", "lock">>}
         \/ /\ pc[t] \in {"lookup", "close", "dial", "enter", "lock", "first"}
            /\ pc'[t] = "idle"
  PROVE  CallStep(t)
<1>1. InCall(t)
  BY DEF InCall
<1>2. ASSUME Phase(t) PROVE IF InCall(t)' THEN Phase(t)' ELSE Agreed'
  <2>1. CASE pc[t] \in {"lookup", "first"}
    <3>1. Agreed'
      BY <1>2, <2>1 DEF Phase, Agreed
    <3>2. pc'[t] \in {"clear", "idle"}
      BY <2>1
    <3>3. Phase(t)'
      BY <3>1, <3>2 DEF Phase, Agreed
    <3>4. QED
      BY <3>1, <3>3
  <2>2. CASE pc[t] = "leave"
    <3>1. pc'[t] = "exit"
      BY <2>2
    <3>2. Phase(t)'
      BY <1>2, <2>2, <3>1 DEF Phase
    <3>3. InCall(t)'
      BY <3>1 DEF InCall
    <3>4. QED
      BY <3>2, <3>3
  <2>3. CASE pc[t] \in {"close", "dial", "enter", "lock"}
    <3>1. controlState' = None /\ ~locked' /\ hides' = 0
      BY <1>2, <2>3 DEF Phase
    <3>2. Agreed'
      BY <3>1 DEF Agreed
    <3>3. pc'[t] \in {"dial", "enter", "lock", "idle"}
      BY <2>3
    <3>4. QED
      BY <3>1, <3>2, <3>3 DEF Phase
  <2>4. QED
    BY <2>1, <2>2, <2>3
<1>3. QED
  BY <1>1, <1>2 DEF CallStep

LEMMA ElsewhereCall ==
  ASSUME ControlInv, NEW t \in Threads, Elsewhere(t)
  PROVE  CallStep(t) \/ OutsideStep(t)
<1> USE DEF ControlInv
<1>1. UNCHANGED <<locked, hides>>
  BY OthersLeaveLocked
<1>2. CASE ClearSession(t)
  <2>1. OnlyMoves(t) /\ pc[t] = "clear" /\ pc'[t] = "leave" /\ controlState' = None
    BY <1>2 DEF ClearSession, GotoWith, At, OnlyMoves, TypeOK
  <2>2. QED
    BY <1>1, <2>1 DEF CallStep, InCall, Phase
<1>3. CASE SendLeave(t)
  <2>1. OnlyMoves(t) /\ pc[t] = "leave" /\ pc'[t] = "exit" /\ controlState' = controlState
    BY <1>3 DEF SendLeave, GotoWith, At, OnlyMoves, TypeOK, sessionVars
  <2>2. QED
    BY <1>1, <2>1, StillCall
<1>4. CASE CloseConn(t)
  <2>1. OnlyMoves(t) /\ pc[t] = "close" /\ pc'[t] \in {"idle", "dial"}
        /\ controlState' = controlState
    BY <1>4 DEF CloseConn, StopReturns, Return, GotoWith, At, OnlyMoves, TypeOK, sessionVars
  <2>2. QED
    BY <1>1, <2>1, StillCall
<1>5. CASE Lookup(t)
  <2>1. OnlyMoves(t) /\ pc[t] = "lookup" /\ pc'[t] \in {"idle", "clear"}
        /\ controlState' = controlState
    BY <1>5 DEF Lookup, CallStop, Return, GotoWith, At, OnlyMoves, TypeOK, sessionVars
  <2>2. QED
    BY <1>1, <2>1, StillCall
<1>6. CASE Dial(t)
  <2>1. OnlyMoves(t) /\ pc[t] = "dial" /\ pc'[t] \in {"idle", "enter"}
        /\ controlState' = controlState
    BY <1>6 DEF Dial, Return, GotoWith, At, OnlyMoves, TypeOK, sessionVars
  <2>2. QED
    BY <1>1, <2>1, StillCall
<1>7. CASE SendEnter(t)
  <2>1. OnlyMoves(t) /\ pc[t] = "enter" /\ pc'[t] \in {"idle", "lock"}
        /\ controlState' = controlState
    BY <1>7 DEF SendEnter, Return, Goto, GotoWith, At, OnlyMoves, TypeOK, sessionVars
  <2>2. QED
    BY <1>1, <2>1, StillCall
<1>8. CASE Publish(t)
  <2>1. OnlyMoves(t) /\ pc[t] = "publish" /\ pc'[t] = "first"
    BY <1>8 DEF Publish, Goto, At, OnlyMoves, TypeOK
  <2>2. controlState' # None
    <3>1. call[t].peer \in Peers
      BY <1>8 DEF Publish, At, FramesSet, FrameSet, Holding
    <3>2. controlState' \in Session
      BY <1>8, <3>1 DEF Publish, Session
    <3>3. QED
      BY <3>2, ControlSessionAssumption
  <2>3. ASSUME Phase(t) PROVE Phase(t)'
    <3>1. Agreed' /\ hides' = IF locked' THEN 1 ELSE 0
      BY <1>1, <2>1, <2>2, <2>3 DEF Phase, Agreed
    <3>2. QED
      BY <2>1, <3>1 DEF Phase
  <2>4. QED
    BY <2>1, <2>3 DEF CallStep, InCall
<1>9. CASE SendFirst(t)
  <2>1. OnlyMoves(t) /\ pc[t] = "first" /\ pc'[t] = "idle" /\ controlState' = controlState
    BY <1>9 DEF SendFirst, Return, GotoWith, At, OnlyMoves, TypeOK, sessionVars
  <2>2. QED
    BY <1>1, <2>1, StillCall
<1>10. CASE t = Consumer /\ Forward
  BY <1>10, ForwardOutside DEF Elsewhere
<1>11. QED
  BY <1>2, <1>3, <1>4, <1>5, <1>6, <1>7, <1>8, <1>9, <1>10 DEF Elsewhere

LEMMA EnterCall ==
  ASSUME TypeOK, NEW t \in Threads, Enter(t)
  PROVE  CallStep(t)
<1>1. pc[t] = "lock" /\ controlState' = controlState
  BY DEF Enter, EnterControl, At, sessionVars
<1>2. CASE locked' = TRUE /\ Goto(t, "publish")
  <2>1. OnlyMoves(t) /\ pc'[t] = "publish"
    BY <1>2 DEF Goto, OnlyMoves, TypeOK
  <2>2. ASSUME Phase(t) PROVE Phase(t)'
    <3>1. controlState' = None /\ ~locked /\ hides = 0
      BY <1>1, <2>2 DEF Phase
    <3>2. hides' = 1
      BY <2>1, <3>1 DEF Enter
    <3>3. QED
      BY <1>2, <2>1, <3>1, <3>2 DEF Phase
  <2>3. QED
    BY <1>1, <2>1, <2>2 DEF CallStep, InCall
<1>3. CASE Return(t) /\ UNCHANGED locked
  <2>1. OnlyMoves(t) /\ pc'[t] = "idle"
    BY <1>3 DEF Return, GotoWith, OnlyMoves, TypeOK
  <2>2. QED
    BY <1>1, <1>3, <2>1, StillCall DEF Enter
<1>4. QED
  BY <1>2, <1>3 DEF Enter, EnterControl

LEMMA ExitCall ==
  ASSUME TypeOK, NEW t \in Threads, Exit(t)
  PROVE  CallStep(t)
<1>1. /\ OnlyMoves(t) /\ pc[t] = "exit" /\ pc'[t] = "close"
      /\ controlState' = controlState /\ ~locked'
  BY DEF Exit, ExitControl, Goto, At, OnlyMoves, TypeOK, sessionVars
<1>2. ASSUME Phase(t) PROVE Phase(t)'
  <2>1. controlState' = None /\ hides' = 0
    BY <1>1, <1>2 DEF Phase, Exit
  <2>2. QED
    BY <1>1, <2>1 DEF Phase
<1>3. QED
  BY <1>1, <1>2 DEF CallStep, InCall

\* While no two threads are in a call, a step keeps what the one in a call, or
\* nobody, knows.
LEMMA SerialThread ==
  ASSUME NEW t \in Threads, CallStep(t) \/ OutsideStep(t), SerialInv, ~overlapped,
         ~Overlap'
  PROVE  (Quiet' => Agreed') /\ \A u \in Threads : InCall(u)' => Phase(u)'
<1> USE DEF OnlyMoves
<1>1. CASE CallStep(t)
  <2>1. \A u \in Threads : u # t => ~InCall(u) /\ ~InCall(u)'
    BY <1>1 DEF SerialInv, Overlap, CallStep, InCall
  <2>2. IF InCall(t)' THEN Phase(t)' ELSE Agreed'
    BY <1>1 DEF SerialInv, CallStep
  <2>3. QED
    BY <2>1, <2>2 DEF Quiet
<1>2. CASE OutsideStep(t) /\ InCall(t)'
  <2>1. \A u \in Threads : ~InCall(u)
    BY <1>2 DEF Overlap, OutsideStep, InCall
  <2>2. Agreed'
    BY <1>2, <2>1 DEF SerialInv, Quiet, OutsideStep, BridgeKept, Agreed
  <2>3. Phase(t)'
    BY <1>2, <2>2 DEF OutsideStep, Phase, Agreed
  <2>4. \A u \in Threads : u # t => ~InCall(u)'
    BY <1>2 DEF Overlap
  <2>5. QED
    BY <1>2, <2>2, <2>3, <2>4
<1>3. CASE OutsideStep(t) /\ ~InCall(t)'
  <2>1. \A u \in Threads : (InCall(u)' <=> InCall(u)) /\ (InCall(u) => pc'[u] = pc[u])
    BY <1>3 DEF OutsideStep, InCall
  <2>2. Quiet' => Agreed'
    BY <1>3, <2>1 DEF SerialInv, Quiet, OutsideStep, BridgeKept, Agreed
  <2>3. ASSUME NEW u \in Threads, InCall(u)' PROVE Phase(u)'
    BY <1>3, <2>1, <2>3 DEF SerialInv, OutsideStep, BridgeKept, Phase, Agreed
  <2>4. QED
    BY <2>2, <2>3
<1>4. QED
  BY <1>1, <1>2, <1>3

LEMMA SerialStep ==
  ASSUME ControlInv, SerialInv, [BridgeNext]_allVars
  PROVE  SerialInv'
<1>1. CASE UNCHANGED allVars
  BY <1>1 DEF allVars, vars, bridgeVars, sessionVars, threadVars, SerialInv, Overlap, Quiet,
              InCall, Phase, Agreed
<1>2. CASE BridgeNext /\ ~overlapped'
  <2>1. ~Overlap' /\ (overlapped => Quiet' /\ Agreed')
    BY <1>2 DEF BridgeNext, Note
  <2>2. CASE overlapped
    BY <2>1, <2>2 DEF SerialInv, Quiet
  <2>3. CASE ~overlapped
    <3>1. ASSUME NEW t \in Threads, CallStep(t) \/ OutsideStep(t)
          PROVE  SerialInv'
      BY <2>1, <2>3, <3>1, SerialThread DEF SerialInv
    <3>2. CASE Environment /\ UNCHANGED bridgeVars
      <4>1. UNCHANGED <<pc, locked, hides, controlState>>
        BY <3>2 DEF Environment, WindowPasses, HandleControlEnter, HandleControlLeave,
                    Break, bridgeVars, sessionVars, threadVars
      <4>2. QED
        BY <2>3, <4>1 DEF SerialInv, Overlap, Quiet, InCall, Phase, Agreed
    <3>3. Consumer \in Threads /\ Handlers \subseteq Threads
      BY DEF Threads
    <3>4. QED
      BY <1>2, <3>1, <3>2, <3>3, AskedOutside, CapturedOutside, ElsewhereCall, EnterCall,
         ExitCall DEF BridgeNext, BridgeStep, ControlInv
  <2>4. QED
    BY <2>2, <2>3
<1>3. QED
  BY <1>1, <1>2 DEF SerialInv

\* On either platform the session and the bridge disagree only after two calls
\* that overlapped: one call at a time, and whatever step of it fails, leaves the
\* input withheld and the cursor hidden exactly while a session is on.
THEOREM OverlapsAlonePart == BridgeSpec => []OnlyOverlapsDisagree
<1>1. BridgeInit => SerialInv
  <2> SUFFICES ASSUME BridgeInit PROVE SerialInv
    OBVIOUS
  <2>1. \A t \in Threads : ~InCall(t)
    BY DEF BridgeInit, Init, InCall
  <2>2. Agreed
    BY DEF BridgeInit, Init, Agreed
  <2>3. QED
    BY <2>1, <2>2 DEF SerialInv, Overlap
<1>2. ControlInv /\ SerialInv /\ [BridgeNext]_allVars => SerialInv'
  BY SerialStep
<1>3. BridgeSpec => []ControlInv
  BY BridgeRunsSessions, ControlInvariant, PTL
<1>4. SerialInv => OnlyOverlapsDisagree
  BY DEF SerialInv, OnlyOverlapsDisagree
<1>5. QED
  BY <1>1, <1>2, <1>3, <1>4, PTL DEF BridgeSpec
=============================================================================
