----------------------------- MODULE ControlPair -----------------------------
(***************************************************************************)
(* Machines that control each other (internal/app/service.go): what the    *)
(* controlled machine shows, and which buttons and keys are down on it.    *)
(*                                                                         *)
(* How one machine begins and ends a session step by step is               *)
(* ControlSession's concern and where the cursor goes is EdgeHandoff's:    *)
(* here a begin and a stop are one step each and moves are left out.  Every *)
(* connection is read on a goroutine of its own, so what arrives on two of *)
(* them is handled in any order.                                           *)
(*                                                                         *)
(* The hook that captures input sees injected events like any others       *)
(* (neither platform's looks where an event comes from): a machine that    *)
(* controls another withholds and forwards what its own controller sends.  *)
(***************************************************************************)
EXTENDS Naturals, Sequences

CONSTANTS
  Machines,
  OS,        \* OS[n]: "windows" or "darwin"
  Inputs,    \* buttons and keys
  Class,     \* Class[i]: "button", "middle", "key" or "modifier"
  Controls,  \* pairs <<n, p>>: p is trusted and placed on n, so n may control it
  Conns,     \* connections; bounds the number of sessions
  MaxWire,   \* bounds the messages under way on a connection
  None

VARIABLES
  session, \* session[n]: the connection n controls a peer over (controlState), or None
  banner,  \* banner[n]: s.control, what the UI of n shows
  ends,    \* ends[c]: who dialled connection c and whom, or None
  wire,    \* wire[c]: the messages on their way
  works,   \* the connections that still carry what is written
  down,    \* down[n]: what the user of n is pressing
  pressed, \* pressed[n]: what the operating system of n takes to be down
  muted,   \* the sessions whose machine lost its banner to a peer's control.leave
  cut      \* the inputs that were down or under way when something ended or was lost

netVars == <<ends, wire, works>>
vars == <<session, banner, netVars, down, pressed, muted, cut>>

Enter == [kind |-> "control.enter"]
Leave == [kind |-> "control.leave"]
Events == [input : Inputs, kind : {"down", "up", "flags_changed"}]
Messages == {Enter, Leave} \cup Events
Ends == [from : Machines, to : Machines]
Banners == [peer : Machines, mode : {"controlling", "receiving"}]

ASSUME ControlPairAssumption ==
  /\ \A n \in Machines : OS[n] \in {"windows", "darwin"}
  /\ \A i \in Inputs : Class[i] \in {"button", "middle", "key", "modifier"}
  /\ MaxWire \in Nat \ {0}
  /\ None \notin Machines \cup Conns \cup Ends \cup Banners

Init ==
  /\ session = [n \in Machines |-> None] /\ banner = [n \in Machines |-> None]
  /\ ends = [c \in Conns |-> None] /\ wire = [c \in Conns |-> << >>] /\ works = {}
  /\ down = [n \in Machines |-> {}] /\ pressed = [n \in Machines |-> {}]
  /\ muted = {} /\ cut = {}

IsEvent(message) == message \notin {Enter, Leave}
OnTheWay == {i \in Inputs : \E c \in Conns : \E k \in DOMAIN wire[c] :
               IsEvent(wire[c][k]) /\ wire[c][k].input = i}
Unsettled == OnTheWay \cup UNION {down[n] \cup pressed[n] : n \in Machines}
Quiet == \A c \in Conns : wire[c] = << >>

Push(w, c, message) == [w EXCEPT ![c] = Append(@, message)]
Room(w, c) == c \in works /\ Len(w[c]) < MaxWire

-----------------------------------------------------------------------------
(* stopControlSession and beginControl                                     *)

\* Bug: only a machine that shows that it controls another says so.
LeaveWritten_OnlyControlling(n) ==
  IF session[n] = None \/ banner[n] = None THEN wire
  ELSE IF session[n] \in works /\ banner[n].mode = "controlling"
         THEN Push(wire, session[n], Leave)
         ELSE wire

\* A control.leave goes out over the session's connection if s.control is set,
\* whatever it says.
LeaveWritten(n) ==
  IF session[n] \in works /\ banner[n] # None THEN Push(wire, session[n], Leave) ELSE wire

\* What is down when input changes hands is released on another machine.
ChangeHands == cut' = cut \cup Unsettled

Stop(n) ==
  /\ session' = [session EXCEPT ![n] = None]
  /\ banner' = [banner EXCEPT ![n] = None]
  /\ wire' = LeaveWritten(n)
  /\ ChangeHands
  /\ UNCHANGED <<ends, works, muted>>

\* Two Escape taps, the UI, a move back, or a begin that fails after its stop.
StopControl(n) == Stop(n) /\ UNCHANGED <<down, pressed>>

\* The session of before is over whether or not the new connection comes about.
BeginControl(n, p, c) ==
  /\ <<n, p>> \in Controls /\ ends[c] = None
  /\ ends' = [ends EXCEPT ![c] = [from |-> n, to |-> p]]
  /\ wire' = Push(LeaveWritten(n), c, Enter)
  /\ works' = works \cup {c}
  /\ session' = [session EXCEPT ![n] = c]
  /\ banner' = [banner EXCEPT ![n] = [peer |-> p, mode |-> "controlling"]]
  /\ ChangeHands
  /\ UNCHANGED <<down, pressed, muted>>

-----------------------------------------------------------------------------
(* Captured input                                                          *)

\* The events the hook reports for an input that goes down or up.  The hook of
\* Windows knows no middle button, and the tap of macOS reports a modifier as
\* changed, not which way.
Captured(n, i, way) ==
  IF OS[n] = "windows"
    THEN IF Class[i] = "middle" THEN {} ELSE {[input |-> i, kind |-> way]}
    ELSE {[input |-> i, kind |-> IF Class[i] = "modifier" THEN "flags_changed" ELSE way]}

\* An event that no session withholds has its effect here.
Passes(n, i, way) ==
  /\ session[n] = None
  /\ pressed' = [pressed EXCEPT ![n] = IF way = "down" THEN @ \cup {i} ELSE @ \ {i}]

\* The session's peer gets the event: w is what is under way besides.
Forwarded(n, i, way, w) ==
  /\ session[n] # None /\ Room(w, session[n])
  /\ \E e \in Captured(n, i, way) : wire' = Push(w, session[n], e)

\* The event is withheld here and nobody gets it: it is not captured, the
\* channel of captured events is full, or the connection no longer carries it.
Swallowed(n, i, way, w) ==
  /\ session[n] # None
  /\ wire' = w
  /\ cut' = IF Captured(n, i, way) = {} THEN cut ELSE cut \cup {i}

\* An input of n goes down or up, by hand or injected.
Hook(n, i, way, w) ==
  /\ \/ Passes(n, i, way) /\ wire' = w /\ UNCHANGED cut
     \/ Forwarded(n, i, way, w) /\ UNCHANGED <<pressed, cut>>
     \/ Swallowed(n, i, way, w) /\ UNCHANGED pressed
  /\ UNCHANGED <<session, banner, ends, works, muted>>

Press(n, i) ==
  /\ i \notin down[n]
  /\ down' = [down EXCEPT ![n] = @ \cup {i}]
  /\ Hook(n, i, "down", wire)

Release(n, i) ==
  /\ i \in down[n]
  /\ down' = [down EXCEPT ![n] = @ \ {i}]
  /\ Hook(n, i, "up", wire)

\* The write of an event reports an error: the consumer stops the session.
ForwardFails(n, i) ==
  /\ session[n] # None /\ session[n] \notin works
  /\ down' = [down EXCEPT ![n] = IF i \in @ THEN @ \ {i} ELSE @ \cup {i}]
  /\ Stop(n) /\ UNCHANGED pressed

-----------------------------------------------------------------------------
(* handleConn on the machine that was dialled                              *)

Arrived(m, c, message) ==
  ends[c] # None /\ ends[c].to = m /\ wire[c] # << >> /\ Head(wire[c]) = message
Rest(c) == [wire EXCEPT ![c] = Tail(@)]

\* Bug: the sender is named by its connection.
HandleControlEnter_NamesConn(m, c) ==
  /\ Arrived(m, c, Enter)
  /\ banner' = [banner EXCEPT ![m] = [peer |-> c, mode |-> "receiving"]]
  /\ wire' = Rest(c)
  /\ UNCHANGED <<session, ends, works, down, pressed, muted, cut>>

HandleControlEnter(m, c) ==
  /\ Arrived(m, c, Enter)
  /\ banner' = [banner EXCEPT ![m] = [peer |-> ends[c].from, mode |-> "receiving"]]
  /\ wire' = Rest(c)
  /\ UNCHANGED <<session, ends, works, down, pressed, muted, cut>>

\* A banner that names the sender goes, also one that says that it is controlled.
HandleControlLeave(m, c) ==
  /\ Arrived(m, c, Leave)
  /\ IF banner[m] # None /\ banner[m].peer = ends[c].from
       THEN /\ banner' = [banner EXCEPT ![m] = None]
            /\ muted' = muted \cup ({session[m]} \ {None})
       ELSE UNCHANGED <<banner, muted>>
  /\ wire' = Rest(c)
  /\ UNCHANGED <<session, ends, works, down, pressed, cut>>

\* Bug: a modifier that changed is taken to be pressed.
HandleControlEvent_FlagsDown(m, c) ==
  \E e \in Events :
    /\ Arrived(m, c, e)
    /\ Hook(m, e.input, IF e.kind = "up" THEN "up" ELSE "down", Rest(c))
    /\ UNCHANGED down

\* Inject: both platforms release a modifier that changed.
HandleControlEvent(m, c) ==
  \E e \in Events :
    /\ Arrived(m, c, e)
    /\ Hook(m, e.input, IF e.kind = "down" THEN "down" ELSE "up", Rest(c))
    /\ UNCHANGED down

\* The network fails, a machine goes away, or handleConn ends over an event
\* that cannot be injected: what was under way may be lost.
Break(c) ==
  /\ c \in works
  /\ works' = works \ {c}
  /\ \E k \in 0..Len(wire[c]) : wire' = [wire EXCEPT ![c] = SubSeq(@, 1, k)]
  /\ ChangeHands
  /\ UNCHANGED <<session, banner, ends, down, pressed, muted>>

-----------------------------------------------------------------------------
User(n) ==
  \/ StopControl(n)
  \/ \E p \in Machines, c \in Conns : BeginControl(n, p, c)
  \/ \E i \in Inputs : Press(n, i) \/ Release(n, i) \/ ForwardFails(n, i)

Receive(m, c) ==
  HandleControlEnter(m, c) \/ HandleControlLeave(m, c) \/ HandleControlEvent(m, c)

Next ==
  \/ \E n \in Machines : User(n)
  \/ \E c \in Conns : Break(c) \/ \E m \in Machines : Receive(m, c)

Spec == Init /\ [][Next]_vars

-----------------------------------------------------------------------------
(* Properties                                                              *)

\* Every variable holds values of the type it stands for.
TypeOK ==
  /\ session \in [Machines -> Conns \cup {None}]
  /\ banner \in [Machines -> Banners \cup {None}]
  /\ ends \in [Conns -> Ends \cup {None}]
  /\ \A c \in Conns : wire[c] \in Seq(Messages) /\ Len(wire[c]) <= MaxWire + 1
  /\ works \cup muted \subseteq Conns /\ cut \subseteq Inputs
  /\ down \in [Machines -> SUBSET Inputs] /\ pressed \in [Machines -> SUBSET Inputs]

\* "X is currently controlling this machine." (app.js:112), as far as the code
\* keeps it: when everything sent has been handled, a machine that says so is
\* controlled by X, unless a connection from X broke or X had its own banner
\* taken by a control.leave of the machine it controlled and so sent none.
BannerEndsWithControl ==
  Quiet => \A m, n \in Machines :
    banner[m] = [peer |-> n, mode |-> "receiving"] =>
      \E c \in Conns :
        /\ ends[c] = [from |-> n, to |-> m]
        /\ session[n] = c \/ c \notin works \/ c \in muted

\* Nothing stays pressed: when no finger is down and everything sent has been
\* handled, no machine takes an input to be down, unless it was down somewhere
\* when control began or ended, a connection broke or an event was lost.
NothingStaysPressed ==
  Quiet /\ (\A n \in Machines : down[n] = {}) => \A n \in Machines : pressed[n] \subseteq cut
=============================================================================
