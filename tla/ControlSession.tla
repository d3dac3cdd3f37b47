--------------------------- MODULE ControlSession ---------------------------
(***************************************************************************)
(* The control session of one machine (internal/app/service.go): how the   *)
(* local mouse and keyboard are handed to a peer and taken back.           *)
(*                                                                         *)
(* The threads are the goroutine that consumes captured input events and   *)
(* the HTTP handlers that serve /api/control/start and /stop; a shutdown's *)
(* Close is one more stop.  s.mu is held only for single reads and         *)
(* assignments, so every step below is what one thread does between two    *)
(* points where another may run: one critical section, one call of the     *)
(* platform bridge, or one write on a connection.                          *)
(*                                                                         *)
(* Peers' messages control.enter and control.leave arrive on goroutines of *)
(* their own.  Whether a peer is trusted and placed is Pairing's concern   *)
(* and where the cursor goes is EdgeHandoff's: here both outcomes happen.  *)
(***************************************************************************)
EXTENDS Naturals, Sequences

CONSTANTS
  Peers,     \* the other machines
  Conns,     \* connections this machine may dial; bounds the number of dials
  Handlers,  \* HTTP handler goroutines
  Consumer,  \* the goroutine running consumeLocalEvents
  None,
  Unresponsive \* peers that may stop reading their connections, or never answer

Session == [peer : Peers, cursor : Peers]
Banner == [peer : Peers, mode : {"controlling", "receiving"}]

ASSUME ControlSessionAssumption ==
  /\ Consumer \notin Handlers
  /\ None \notin Peers \cup Conns
  /\ None \notin Session /\ None \notin Banner
  /\ Unresponsive \subseteq Peers

VARIABLES
  control,      \* s.control: what the UI's banner shows
  controlState, \* s.controlState: whose session it is, where its cursor is
  controlConn,  \* s.controlConn
  escRecent,    \* lastEscapeAt lies within panicWindow of now
  locked,       \* the bridge withholds local input (locked, suppress)
  link,         \* link[c]: "unused", "open", "broken" by the network, "closed"
  dest, wire,   \* the connections, as in ControlWire
  pc,           \* pc[t]: the next step of thread t
  call          \* call[t]: local variables of the call thread t is in

threadVars == <<pc, call>>
sessionVars == <<control, controlState, controlConn>>
netVars == <<link, dest, wire>>
vars == <<sessionVars, escRecent, locked, netVars, threadVars>>

Threads == Handlers \cup {Consumer}

\* A broken connection is still open at this end.
W == INSTANCE ControlWire WITH
       link <- [c \in Conns |-> IF link[c] = "broken" THEN "open" ELSE link[c]]

Labels == {"idle", "lookup", "clear", "leave", "exit", "close", "dial", "enter",
           "lock", "publish", "first", "tap", "panic", "read", "steer", "write"}

\* peer: peerID of beginControl, or of the session an event is forwarded in;
\* conn, hadControl: locals conn and (control # nil); then: where the thread
\* goes when stopControlSession returns nil.
NoCall == [peer |-> None, conn |-> None, hadControl |-> FALSE, then |-> "idle"]

Init ==
  /\ control = None /\ controlState = None /\ controlConn = None
  /\ escRecent = FALSE /\ locked = FALSE
  /\ link = [c \in Conns |-> "unused"]
  /\ dest = [c \in Conns |-> None]
  /\ wire = [c \in Conns |-> << >>]
  /\ pc = [t \in Threads |-> "idle"]
  /\ call = [t \in Threads |-> NoCall]

At(t, l) == pc[t] = l
Goto(t, l) == pc' = [pc EXCEPT ![t] = l] /\ UNCHANGED call
\* Go to label l with the local variables f.
GotoWith(t, l, f) == pc' = [pc EXCEPT ![t] = l] /\ call' = [call EXCEPT ![t] = f]
Return(t) == GotoWith(t, "idle", NoCall)

\* Call stopControlSession and go to label l, with peerID p, when it returns nil.
CallStop(t, p, l) == GotoWith(t, "clear", [NoCall EXCEPT !.peer = p, !.then = l])

\* writeMessage on c: bytes handed to a connection that is open at this end,
\* whether or not the network still carries them; an error on a closed or a
\* broken one.
Written(c, m) ==
  /\ link[c] \in {"open", "broken"}
  /\ wire' = [wire EXCEPT ![c] = W!Say(@, m)]
WriteError(c) ==
  /\ link[c] \in {"broken", "closed"}
  /\ UNCHANGED wire

CloseLink(c) == link' = [link EXCEPT ![c] = "closed"]

-----------------------------------------------------------------------------
(* Requests                                                                *)

StartControl(t, p) ==
  /\ At(t, "idle")
  /\ GotoWith(t, "lookup", [NoCall EXCEPT !.peer = p])
  /\ UNCHANGED <<sessionVars, escRecent, locked, netVars>>

StopControl(t) ==
  /\ At(t, "idle")
  /\ CallStop(t, None, "idle")
  /\ UNCHANGED <<sessionVars, escRecent, locked, netVars>>

\* handleLocalEvent: what the event starts depends on whether a session is
\* active at this moment; a move at an edge starts one with the peer there.
TakeEvent(p) ==
  /\ At(Consumer, "idle")
  /\ IF controlState # None
       THEN Goto(Consumer, "tap") \/ Goto(Consumer, "read")
       ELSE GotoWith(Consumer, "lookup", [NoCall EXCEPT !.peer = p])
  /\ UNCHANGED <<sessionVars, escRecent, locked, netVars>>

-----------------------------------------------------------------------------
(* stopControlSession                                                      *)

\* Bug: s.controlConn is left behind.
ClearSession_KeepsConn(t) ==
  /\ At(t, "clear")
  /\ GotoWith(t, "leave", [call[t] EXCEPT !.conn = controlConn,
                                         !.hadControl = control # None])
  /\ control' = None /\ controlState' = None
  /\ UNCHANGED <<controlConn, escRecent, locked, netVars>>

\* Bug: s.control is left behind.
ClearSession_KeepsBanner(t) ==
  /\ At(t, "clear")
  /\ GotoWith(t, "leave", [call[t] EXCEPT !.conn = controlConn,
                                         !.hadControl = control # None])
  /\ controlConn' = None /\ controlState' = None
  /\ UNCHANGED <<control, escRecent, locked, netVars>>

ClearSession(t) ==
  /\ At(t, "clear")
  /\ GotoWith(t, "leave", [call[t] EXCEPT !.conn = controlConn,
                                         !.hadControl = control # None])
  /\ controlConn' = None /\ control' = None /\ controlState' = None
  /\ UNCHANGED <<escRecent, locked, netVars>>

\* Bug: a failed control.leave is returned as an error at once.
SendLeave_ReturnsError(t) ==
  /\ At(t, "leave")
  /\ LET c == call[t].conn IN
       IF call[t].hadControl /\ c # None
         THEN \/ Written(c, W!Leave(dest[c])) /\ Goto(t, "exit")
              \/ WriteError(c) /\ Return(t)
         ELSE UNCHANGED wire /\ Goto(t, "exit")
  /\ UNCHANGED <<sessionVars, escRecent, locked, link, dest>>

SendLeave(t) ==
  /\ At(t, "leave")
  /\ LET c == call[t].conn IN
       IF call[t].hadControl /\ c # None
         THEN Written(c, W!Leave(dest[c])) \/ WriteError(c)
         ELSE UNCHANGED wire
  /\ GotoWith(t, "exit", [call[t] EXCEPT !.hadControl = FALSE]) \* not used again
  /\ UNCHANGED <<sessionVars, escRecent, locked, link, dest>>

ExitControl(t) ==
  /\ At(t, "exit")
  /\ locked' = FALSE
  /\ Goto(t, "close")
  /\ UNCHANGED <<sessionVars, escRecent, netVars>>

\* The call returns to the dial of beginControl or is over.
StopReturns(t) ==
  IF call[t].then = "dial" THEN GotoWith(t, "dial", [NoCall EXCEPT !.peer = call[t].peer])
                           ELSE Return(t)

\* Closing a broken connection may return an error, which ends beginControl.
CloseConn(t) ==
  /\ At(t, "close")
  /\ LET c == call[t].conn IN
       IF c = None
         THEN StopReturns(t) /\ UNCHANGED link
         ELSE /\ CloseLink(c)
              /\ StopReturns(t) \/ (link[c] = "broken" /\ Return(t))
  /\ UNCHANGED <<sessionVars, escRecent, locked, dest, wire>>

-----------------------------------------------------------------------------
(* beginControl                                                            *)

\* lookupTrustedPeer and peerBounds find the peer, or the call ends here.
Lookup(t) ==
  /\ At(t, "lookup")
  /\ CallStop(t, call[t].peer, "dial") \/ Return(t)
  /\ UNCHANGED <<sessionVars, escRecent, locked, netVars>>

\* connectPeer: TLS dial, pair.hello and its acknowledgement.
Dial(t) ==
  /\ At(t, "dial")
  /\ \/ \E c \in Conns :
          /\ link[c] = "unused"
          /\ link' = [link EXCEPT ![c] = "open"]
          /\ dest' = [dest EXCEPT ![c] = call[t].peer]
          /\ GotoWith(t, "enter", [call[t] EXCEPT !.conn = c])
     \/ Return(t) /\ UNCHANGED <<link, dest>>
  /\ UNCHANGED <<sessionVars, escRecent, locked, wire>>

SendEnter(t) ==
  /\ At(t, "enter")
  /\ LET c == call[t].conn IN
       \/ Written(c, W!Enter(dest[c])) /\ Goto(t, "lock") /\ UNCHANGED link
       \/ WriteError(c) /\ CloseLink(c) /\ Return(t)
  /\ UNCHANGED <<sessionVars, escRecent, locked, dest>>

\* bridge.EnterControl; a platform that cannot withhold input returns an error.
EnterControl(t) ==
  /\ At(t, "lock")
  /\ \/ locked' = TRUE /\ Goto(t, "publish") /\ UNCHANGED link
     \/ CloseLink(call[t].conn) /\ Return(t) /\ UNCHANGED locked
  /\ UNCHANGED <<sessionVars, escRecent, dest, wire>>

Publish(t) ==
  /\ At(t, "publish")
  /\ controlConn' = call[t].conn
  /\ control' = [peer |-> call[t].peer, mode |-> "controlling"]
  /\ controlState' = [peer |-> call[t].peer, cursor |-> call[t].peer]
  /\ Goto(t, "first")
  /\ UNCHANGED <<escRecent, locked, netVars>>

\* Bug: an error of the first write releases the input, with the session in place.
SendFirst_ReleasesInput(t) ==
  /\ At(t, "first")
  /\ \/ Written(call[t].conn, W!Event(call[t].peer)) /\ UNCHANGED locked
     \/ WriteError(call[t].conn) /\ locked' = FALSE
  /\ Return(t)
  /\ UNCHANGED <<sessionVars, escRecent, link, dest>>

\* The move to the entry point.  An error is returned with the session in place.
SendFirst(t) ==
  /\ At(t, "first")
  /\ Written(call[t].conn, W!Event(call[t].peer)) \/ WriteError(call[t].conn)
  /\ Return(t)
  /\ UNCHANGED <<sessionVars, escRecent, locked, link, dest>>

-----------------------------------------------------------------------------
(* The consumer while a session is active                                  *)

\* registerEscapeTap: the second tap within panicWindow is a panic stop.
EscapeTap ==
  /\ At(Consumer, "tap")
  /\ escRecent' = ~escRecent
  /\ IF escRecent THEN Goto(Consumer, "panic") ELSE Return(Consumer)
  /\ UNCHANGED <<sessionVars, locked, netVars>>

PanicStop ==
  /\ At(Consumer, "panic")
  /\ CallStop(Consumer, None, "idle")
  /\ UNCHANGED <<sessionVars, escRecent, locked, netVars>>

WindowPasses ==
  /\ escRecent
  /\ escRecent' = FALSE
  /\ UNCHANGED <<sessionVars, locked, netVars, threadVars>>

\* forwardControlEvent reads connection and session in one critical section.
\* A move that does not move the cursor is dropped, one across the return edge
\* stops the session, any other is clamped to the peer; what is not a move is
\* sent as it is.
ReadSession ==
  /\ At(Consumer, "read")
  /\ IF controlState = None
       THEN Return(Consumer)
       ELSE \/ Return(Consumer)
            \/ CallStop(Consumer, None, "idle")
            \/ \E l \in {"steer", "write"} :
                 GotoWith(Consumer, l, [NoCall EXCEPT !.peer = controlState.peer,
                                                      !.conn = controlConn])
  /\ UNCHANGED <<sessionVars, escRecent, locked, netVars>>

\* The clamped position is stored in whichever session is current by now.
Steer ==
  /\ At(Consumer, "steer")
  /\ IF controlState # None
       THEN controlState' = [controlState EXCEPT !.cursor = call[Consumer].peer]
       ELSE UNCHANGED controlState
  /\ Goto(Consumer, "write")
  /\ UNCHANGED <<control, controlConn, escRecent, locked, netVars>>

\* Bug: the connection is read again instead of taken with the session.
ForwardEvent_RereadsConn ==
  /\ At(Consumer, "write")
  /\ LET c == controlConn IN
       IF c = None
         THEN UNCHANGED wire /\ Return(Consumer)
         ELSE \/ Written(c, W!Event(call[Consumer].peer)) /\ Return(Consumer)
              \/ WriteError(c) /\ CallStop(Consumer, None, "idle")
  /\ UNCHANGED <<sessionVars, escRecent, locked, link, dest>>

ForwardEvent ==
  /\ At(Consumer, "write")
  /\ LET c == call[Consumer].conn IN
       \/ Written(c, W!Event(call[Consumer].peer)) /\ Return(Consumer)
       \/ WriteError(c) /\ CallStop(Consumer, None, "idle")
  /\ UNCHANGED <<sessionVars, escRecent, locked, link, dest>>

-----------------------------------------------------------------------------
(* Messages of peers, and the network                                      *)

\* Bug: the mode the UI falls back on, spelt in another way.
HandleControlEnter_OtherMode(p) ==
  /\ control' = [peer |-> p, mode |-> "received"]
  /\ UNCHANGED <<controlState, controlConn, escRecent, locked, netVars, threadVars>>

HandleControlEnter(p) ==
  /\ control' = [peer |-> p, mode |-> "receiving"]
  /\ UNCHANGED <<controlState, controlConn, escRecent, locked, netVars, threadVars>>

HandleControlLeave(p) ==
  /\ control # None /\ control.peer = p
  /\ control' = None
  /\ UNCHANGED <<controlState, controlConn, escRecent, locked, netVars, threadVars>>

Break(c) ==
  /\ link[c] = "open"
  /\ link' = [link EXCEPT ![c] = "broken"]
  /\ UNCHANGED <<sessionVars, escRecent, locked, dest, wire, threadVars>>

-----------------------------------------------------------------------------
Stop(t) == ClearSession(t) \/ SendLeave(t) \/ ExitControl(t) \/ CloseConn(t)

Begin(t) ==
  Lookup(t) \/ Dial(t) \/ SendEnter(t) \/ EnterControl(t) \/ Publish(t) \/ SendFirst(t)

Forward == EscapeTap \/ PanicStop \/ ReadSession \/ Steer \/ ForwardEvent

\* Thread t carries on with the call it is in.
Run(t) == Stop(t) \/ Begin(t) \/ (t = Consumer /\ Forward)

Request ==
  \/ \E t \in Handlers, p \in Peers : StartControl(t, p)
  \/ \E t \in Handlers : StopControl(t)
  \/ \E p \in Peers : TakeEvent(p)

Environment ==
  \/ WindowPasses
  \/ \E p \in Peers : HandleControlEnter(p) \/ HandleControlLeave(p)
  \/ \E c \in Conns : Break(c)

Next == Request \/ (\E t \in Threads : Run(t)) \/ Environment

Spec == Init /\ [][Next]_vars

\* Thread t is not in a dial or a write that a peer which does not read may
\* hold up for ever: neither has a deadline.  A write on a closed or broken
\* connection returns.
Unblocked(t) ==
  LET c == call[t].conn IN
  /\ pc[t] = "dial" => call[t].peer \notin Unresponsive
  /\ pc[t] \in {"enter", "leave", "first", "write"} /\ c # None =>
       dest[c] \notin Unresponsive \/ link[c] # "open"

-----------------------------------------------------------------------------
(* Properties                                                              *)

Frame == [peer : Peers \cup {None}, conn : Conns \cup {None},
          hadControl : BOOLEAN, then : {"idle", "dial"}]
Messages == [kind : {"control.enter", "control.event", "control.leave"}, peer : Peers]

\* Every variable holds values of the Go type it stands for.
TypeOK ==
  /\ control \in Banner \cup {None}
  /\ controlState \in Session \cup {None}
  /\ controlConn \in Conns \cup {None}
  /\ escRecent \in BOOLEAN /\ locked \in BOOLEAN
  /\ link \in [Conns -> {"unused", "open", "broken", "closed"}]
  /\ dest \in [Conns -> Peers \cup {None}]
  /\ wire \in [Conns -> Seq(Messages)]
  /\ pc \in [Threads -> Labels]
  /\ call \in [Threads -> Frame]

\* Local input is withheld only while a session exists or a thread is about
\* to publish one or to release the input: no order of starts, stops, escape
\* taps, peers' messages and failures leaves the user without a mouse for
\* good (EnterControl before the session is set, ExitControl after it is
\* cleared, both outside s.mu).
NoStrandedSuppression ==
  locked => \/ controlState # None
            \/ \E t \in Threads : pc[t] \in {"publish", "leave", "exit"}

\* The connection and the session are of one peer, and the connection has not
\* been closed: a stop closes only what it has first taken out of the service.
SessionOwnsOpenConnection ==
  /\ controlState = None <=> controlConn = None
  /\ controlState # None =>
       dest[controlConn] = controlState.peer /\ link[controlConn] \in {"open", "broken"}

\* The banner says "Controlling X" only while input goes to X, although
\* control.enter and control.leave of any peer overwrite s.control.
BannerNamesControlledPeer ==
  control # None /\ control.mode = "controlling" =>
    controlState # None /\ controlState.peer = control.peer

\* Whatever the threads do, each connection is used as ControlWire says: one
\* enter first, at most one leave, one close, nothing after it, and no event
\* meant for one machine on the connection of another.
WireProtocol == W!Spec

\* "Press Escape twice quickly to return control" (app.js:109): the second tap
\* leads to the local input being released.  It does when every peer reads its
\* connections; a peer that stops reading holds up the write of control.leave,
\* which comes before ExitControl, or the consumer in the write of an event.
EscapeReturnsControl == pc[Consumer] = "panic" ~> ~locked
=============================================================================
