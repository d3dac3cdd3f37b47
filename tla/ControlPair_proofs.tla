--------------------------- MODULE ControlPair_proofs ---------------------------
(***************************************************************************)
(* Proofs of ControlPair, for any machines, inputs and connections: its    *)
(* types, that a machine says that it is controlled no longer than it is,  *)
(* and that nothing stays pressed, but for the cases the properties name.  *)
(***************************************************************************)
EXTENDS ControlPair, SequenceTheorems, TLAPS

\* The session of c's machine has ended without a word to come.
EndsInLeave(w, c) == w[c] # << >> /\ w[c][Len(w[c])] = Leave
Accounted(w, c) ==
  session[ends[c].from] = c \/ c \notin works \/ c \in muted \/ EndsInLeave(w, c)

\* The invariant is stated of a w besides wire, as a step takes a message out
\* and puts one in.
Shapes(w) ==
  /\ w \in [Conns -> Seq(Messages)]
  /\ \A c \in Conns :
       /\ Len(w[c]) <= MaxWire + 1
       /\ ends[c] = None => w[c] = << >>
  /\ \A n \in Machines : session[n] # None => Len(w[session[n]]) <= MaxWire

Told(w) ==
  /\ \A c \in Conns : ends[c] # None /\ w[c] # << >> => Accounted(w, c)
  /\ \A m, n \in Machines :
       banner[m] = [peer |-> n, mode |-> "receiving"] =>
         \E c \in Conns : ends[c] = [from |-> n, to |-> m] /\ Accounted(w, c)

Dialled ==
  /\ session \in [Machines -> Conns \cup {None}]
  /\ banner \in [Machines -> Banners \cup {None}]
  /\ ends \in [Conns -> Ends \cup {None}]
  /\ works \cup muted \subseteq Conns /\ cut \subseteq Inputs
  /\ down \in [Machines -> SUBSET Inputs] /\ pressed \in [Machines -> SUBSET Inputs]
  /\ \A n \in Machines :
       session[n] # None =>
         /\ ends[session[n]] # None /\ ends[session[n]].from = n
         /\ banner[n] = None => session[n] \in muted

Inv == Dialled /\ Shapes(wire) /\ Told(wire)

-----------------------------------------------------------------------------
(* Messages                                                                *)

LEMMA PushSeq ==
  ASSUME NEW w \in [Conns -> Seq(Messages)], NEW c \in Conns, NEW message \in Messages
  PROVE  /\ Push(w, c, message) \in [Conns -> Seq(Messages)]
         /\ Len(Push(w, c, message)[c]) = Len(w[c]) + 1
         /\ Push(w, c, message)[c][Len(w[c]) + 1] = message
         /\ Push(w, c, message)[c] # << >>
         /\ \A d \in Conns : d # c => Push(w, c, message)[d] = w[d]
<1>1. w[c] \in Seq(Messages)
  OBVIOUS
<1>2. /\ Append(w[c], message) \in Seq(Messages) /\ Append(w[c], message) # << >>
      /\ Len(Append(w[c], message)) = Len(w[c]) + 1
      /\ Append(w[c], message)[Len(w[c]) + 1] = message
  BY <1>1
<1> QED BY <1>2 DEF Push

LEMMA MessagesAre ==
  /\ Enter \in Messages /\ Leave \in Messages /\ Enter # Leave
  /\ \A e \in Events : e \in Messages /\ e # Leave
<1>1. ASSUME NEW e \in Events PROVE e # Leave
  <2>1. e.kind # Leave.kind
    BY DEF Events, Leave
  <2> QED BY <2>1
<1>2. Enter # Leave
  <2>1. Enter.kind # Leave.kind
    BY DEF Enter, Leave
  <2> QED BY <2>1
<1> QED BY <1>1, <1>2 DEF Messages

LEMMA CapturedAre ==
  ASSUME NEW n \in Machines, NEW i \in Inputs, NEW way \in {"down", "up"}
  PROVE  Captured(n, i, way) \subseteq Events
BY DEF Captured, Events

LEMMA NoneIsNone == ASSUME ControlPairAssumption PROVE None \notin Machines \cup Conns
BY DEF ControlPairAssumption

\* Taking a message that is no leave out of a connection.
LEMMA RestKeeps ==
  ASSUME Inv, NEW m \in Machines, NEW c \in Conns, NEW message, Arrived(m, c, message)
  PROVE  /\ Shapes(Rest(c))
         /\ message # Leave => Told(Rest(c))
         /\ Accounted(wire, c) /\ ends[c] \in Ends
         /\ message # Leave \/ Rest(c)[c] # << >> => Accounted(Rest(c), c)
         /\ message = Head(wire[c]) /\ wire[c] # << >>
         /\ \A d \in Conns : d # c => Rest(c)[d] = wire[d]
<1>1. /\ wire[c] \in Seq(Messages) /\ wire[c] # << >> /\ message = Head(wire[c])
      /\ ends[c] # None /\ ends[c].to = m
  BY DEF Arrived, Inv, Shapes
<1>2. /\ Tail(wire[c]) \in Seq(Messages) /\ Len(Tail(wire[c])) = Len(wire[c]) - 1
      /\ Len(wire[c]) \in Nat
      /\ Len(wire[c]) > 1 => Tail(wire[c])[Len(wire[c]) - 1] = wire[c][Len(wire[c])]
      /\ Head(wire[c]) = wire[c][1] /\ Len(wire[c]) >= 1
  BY <1>1
<1>3. Rest(c)[c] = Tail(wire[c]) /\ \A d \in Conns : d # c => Rest(c)[d] = wire[d]
  BY DEF Rest, Inv, Shapes
<1>4. Shapes(Rest(c))
  <2>1. Rest(c) \in [Conns -> Seq(Messages)]
    BY <1>2 DEF Rest, Inv, Shapes
  <2>2. \A d \in Conns : Len(Rest(c)[d]) <= MaxWire + 1 /\ (ends[d] = None => Rest(c)[d] = << >>)
    BY <1>1, <1>2, <1>3, ControlPairAssumption DEF Inv, Shapes, ControlPairAssumption
  <2>3. ASSUME NEW n \in Machines, session[n] # None PROVE Len(Rest(c)[session[n]]) <= MaxWire
    <3>1. session[n] \in Conns /\ Len(wire[session[n]]) <= MaxWire
      BY <2>3 DEF Inv, Shapes, Dialled
    <3>2. CASE session[n] = c
      <4>1. Rest(c)[session[n]] = Tail(wire[c]) /\ Len(wire[c]) <= MaxWire
        BY <3>1, <3>2, <1>3
      <4> QED BY <4>1, <1>2, ControlPairAssumption DEF ControlPairAssumption
    <3>3. CASE session[n] # c
      <4>1. Rest(c)[session[n]] = wire[session[n]]
        BY <3>1, <3>3, <1>3
      <4> QED BY <4>1, <3>1
    <3> QED BY <3>2, <3>3
  <2> QED BY <2>1, <2>2, <2>3 DEF Shapes
<1>5. ASSUME message # Leave \/ Rest(c)[c] # << >>, EndsInLeave(wire, c)
      PROVE  EndsInLeave(Rest(c), c)
  <2>1. Len(wire[c]) > 1
    <3>1. CASE message # Leave
      BY <1>1, <1>2, <1>5, <3>1 DEF EndsInLeave
    <3>2. CASE Rest(c)[c] # << >>
      <4> DEFINE t == Tail(wire[c])
      <4>1. t \in Seq(Messages) /\ t # << >> /\ Len(t) = Len(wire[c]) - 1
        BY <1>2, <1>3, <3>2
      <4> HIDE DEF t
      <4>2. Len(t) # 0
        BY <4>1, EmptySeq
      <4> QED BY <1>2, <4>1, <4>2
    <3> QED BY <1>5, <3>1, <3>2
  <2>2. Tail(wire[c]) # << >>
    <3> DEFINE t == Tail(wire[c])
    <3>1. Len(t) # 0
      BY <1>2, <2>1
    <3> HIDE DEF t
    <3>2. t # << >>
      BY <3>1
    <3> QED BY <3>2 DEF t
  <2>3. Tail(wire[c])[Len(Tail(wire[c]))] = Leave
    <3> DEFINE t == Tail(wire[c])
               k == Len(wire[c])
    <3>1. Len(t) = k - 1 /\ t[k - 1] = wire[c][k] /\ wire[c][k] = Leave
      BY <1>2, <1>5, <2>1 DEF EndsInLeave
    <3> HIDE DEF t, k
    <3>2. t[Len(t)] = Leave
      BY <3>1
    <3> QED BY <3>2 DEF t
  <2> QED BY <1>3, <2>2, <2>3 DEF EndsInLeave
<1>6. ASSUME NEW d \in Conns, message # Leave \/ d # c \/ Rest(c)[c] # << >>, Accounted(wire, d)
      PROVE  Accounted(Rest(c), d)
  BY <1>3, <1>5, <1>6 DEF Accounted, EndsInLeave
<1>7. Accounted(wire, c)
  BY <1>1 DEF Inv, Told
<1>8. ASSUME message # Leave PROVE Told(Rest(c))
  <2>1. ASSUME NEW d \in Conns, ends[d] # None, Rest(c)[d] # << >> PROVE Accounted(Rest(c), d)
    BY <1>1, <1>3, <1>6, <1>8, <2>1 DEF Inv, Told
  <2>2. ASSUME NEW p \in Machines, NEW n \in Machines,
               banner[p] = [peer |-> n, mode |-> "receiving"]
        PROVE  \E d \in Conns : ends[d] = [from |-> n, to |-> p] /\ Accounted(Rest(c), d)
    BY <1>6, <1>8, <2>2 DEF Inv, Told
  <2> QED BY <2>1, <2>2 DEF Told
<1>9. message # Leave \/ Rest(c)[c] # << >> => Accounted(Rest(c), c)
  BY <1>6, <1>7
<1> QED BY <1>1, <1>3, <1>4, <1>7, <1>8, <1>9 DEF Inv, Dialled

\* Putting an event on the connection of a session that has room.
LEMMA PushKeeps ==
  ASSUME ControlPairAssumption, Dialled, NEW w, Shapes(w), Told(w), NEW n \in Machines,
         session[n] # None, Room(w, session[n]), NEW e \in Events
  PROVE  Shapes(Push(w, session[n], e)) /\ Told(Push(w, session[n], e))
<1> DEFINE c == session[n]
           v == Push(w, c, e)
<1>1. c \in Conns /\ ends[c] # None /\ ends[c].from = n /\ e \in Messages
  BY MessagesAre DEF Dialled
<1>2. /\ v \in [Conns -> Seq(Messages)] /\ Len(v[c]) = Len(w[c]) + 1
      /\ \A d \in Conns : d # c => v[d] = w[d]
  BY <1>1, PushSeq DEF Shapes
<1>3. Len(w[c]) < MaxWire /\ Len(w[c]) \in Nat /\ MaxWire \in Nat
  BY <1>1 DEF Room, Shapes, ControlPairAssumption
<1> HIDE DEF v, c
<1>4. Shapes(v)
  <2>1. \A d \in Conns : Len(v[d]) <= MaxWire + 1 /\ (ends[d] = None => v[d] = << >>)
    BY <1>1, <1>2, <1>3 DEF Shapes
  <2>2. ASSUME NEW p \in Machines, session[p] # None PROVE Len(v[session[p]]) <= MaxWire
    <3>1. session[p] \in Conns /\ Len(w[session[p]]) <= MaxWire
      BY <2>2 DEF Dialled, Shapes
    <3> QED BY <3>1, <1>2, <1>3
  <2> QED BY <1>2, <2>1, <2>2 DEF Shapes
<1>5. Accounted(v, c)
  BY <1>1 DEF Accounted, c
<1>6. ASSUME NEW d \in Conns, Accounted(w, d) PROVE Accounted(v, d)
  BY <1>2, <1>5, <1>6 DEF Accounted, EndsInLeave
<1>7. Told(v)
  <2>1. ASSUME NEW d \in Conns, ends[d] # None, v[d] # << >> PROVE Accounted(v, d)
    BY <1>2, <1>5, <1>6, <2>1 DEF Told
  <2>2. ASSUME NEW p \in Machines, NEW q \in Machines,
               banner[p] = [peer |-> q, mode |-> "receiving"]
        PROVE  \E d \in Conns : ends[d] = [from |-> q, to |-> p] /\ Accounted(v, d)
    BY <1>6, <2>2 DEF Told
  <2> QED BY <2>1, <2>2 DEF Told
<1> QED BY <1>4, <1>7 DEF v, c

-----------------------------------------------------------------------------
(* Beginning and stopping                                                  *)

LEMMA UnsettledAreInputs == ASSUME Dialled PROVE Unsettled \subseteq Inputs
BY DEF Unsettled, OnTheWay, Dialled

\* What accounts for a connection once n's session is over.
AfterStop(n, w, c) ==
  \/ session[ends[c].from] = c /\ ends[c].from # n
  \/ c \notin works \/ c \in muted \/ EndsInLeave(w, c)

\* The control.leave of a stop accounts for the connection it ends.
LEMMA LeaveKeeps ==
  ASSUME ControlPairAssumption, Inv, NEW n \in Machines
  PROVE  /\ LeaveWritten(n) \in [Conns -> Seq(Messages)]
         /\ \A c \in Conns :
              /\ Len(LeaveWritten(n)[c]) <= MaxWire + 1
              /\ ends[c] = None => LeaveWritten(n)[c] = << >>
              /\ ends[c] # None /\ (Accounted(wire, c) \/ LeaveWritten(n)[c] # << >>)
                   => AfterStop(n, LeaveWritten(n), c)
         /\ \A p \in Machines :
              p # n /\ session[p] # None => Len(LeaveWritten(n)[session[p]]) <= MaxWire
<1> DEFINE s == session[n]
           v == LeaveWritten(n)
<1>1. MaxWire \in Nat /\ None \notin Conns
  BY DEF ControlPairAssumption
<1>2. works \subseteq Conns /\ wire \in [Conns -> Seq(Messages)] /\ s \in Conns \cup {None}
  BY DEF Inv, Dialled, Shapes
<1>3. CASE s \in works /\ banner[n] # None
  <2>1. v = Push(wire, s, Leave) /\ s \in Conns /\ s # None
    BY <1>1, <1>2, <1>3 DEF LeaveWritten
  <2>2. /\ v \in [Conns -> Seq(Messages)] /\ Len(v[s]) = Len(wire[s]) + 1
        /\ v[s][Len(v[s])] = Leave /\ v[s] # << >>
        /\ \A d \in Conns : d # s => v[d] = wire[d]
    <3>1. /\ v \in [Conns -> Seq(Messages)] /\ Len(v[s]) = Len(wire[s]) + 1
          /\ v[s][Len(wire[s]) + 1] = Leave /\ v[s] # << >>
          /\ \A d \in Conns : d # s => v[d] = wire[d]
      <4> HIDE DEF v, s
      <4> QED BY <1>2, <2>1, PushSeq, MessagesAre
    <3> HIDE DEF v, s
    <3> QED BY <3>1
  <2>3. ends[s] # None /\ ends[s].from = n /\ Len(wire[s]) <= MaxWire /\ Len(wire[s]) \in Nat
    BY <1>2, <2>1 DEF Inv, Dialled, Shapes
  <2>4. EndsInLeave(v, s)
    BY <2>2 DEF EndsInLeave
  <2> HIDE DEF v
  <2>5. ASSUME NEW c \in Conns
        PROVE  /\ Len(v[c]) <= MaxWire + 1 /\ (ends[c] = None => v[c] = << >>)
               /\ ends[c] # None /\ (Accounted(wire, c) \/ v[c] # << >>) => AfterStop(n, v, c)
    <3>1. CASE c = s
      BY <1>1, <2>2, <2>3, <2>4, <3>1 DEF AfterStop
    <3>2. CASE c # s
      <4>1. v[c] = wire[c]
        BY <2>2, <3>2
      <4>2. ends[c] # None /\ v[c] # << >> => Accounted(wire, c)
        BY <4>1 DEF Inv, Told
      <4>3. Accounted(wire, c) => AfterStop(n, v, c)
        BY <3>2, <4>1 DEF Accounted, AfterStop, EndsInLeave
      <4> QED BY <4>1, <4>2, <4>3 DEF Inv, Shapes
    <3> QED BY <3>1, <3>2
  <2>6. ASSUME NEW p \in Machines, p # n, session[p] # None PROVE Len(v[session[p]]) <= MaxWire
    <3>1. session[p] \in Conns /\ session[p] # s
      BY <2>3, <2>6 DEF Inv, Dialled
    <3> QED BY <2>2, <2>6, <3>1 DEF Inv, Shapes
  <2> QED BY <2>2, <2>5, <2>6 DEF v
<1>4. CASE ~(s \in works /\ banner[n] # None)
  <2>1. v = wire
    BY <1>4 DEF LeaveWritten
  <2>2. s \in Conns => s \notin works \/ s \in muted
    BY <1>1, <1>4 DEF Inv, Dialled
  <2>3. ASSUME NEW c \in Conns, ends[c] # None, Accounted(wire, c) \/ wire[c] # << >>
        PROVE  AfterStop(n, wire, c)
    <3>1. Accounted(wire, c)
      BY <2>3 DEF Inv, Told
    <3> QED BY <2>2, <3>1 DEF Accounted, AfterStop
  <2> QED BY <1>2, <2>1, <2>3 DEF Inv, Shapes
<1> QED BY <1>3, <1>4

LEMMA StopKeeps ==
  ASSUME ControlPairAssumption, Inv, NEW n \in Machines, Stop(n),
         down' \in [Machines -> SUBSET Inputs], pressed' = pressed
  PROVE  Inv'
<1> DEFINE v == LeaveWritten(n)
<1>1. /\ session' = [session EXCEPT ![n] = None] /\ banner' = [banner EXCEPT ![n] = None]
      /\ wire' = v /\ cut' = cut \cup Unsettled
      /\ UNCHANGED <<ends, works, muted>>
  BY DEF Stop, ChangeHands
<1>2. /\ v \in [Conns -> Seq(Messages)]
      /\ \A c \in Conns :
           /\ Len(v[c]) <= MaxWire + 1
           /\ ends[c] = None => v[c] = << >>
           /\ ends[c] # None /\ (Accounted(wire, c) \/ v[c] # << >>) => AfterStop(n, v, c)
      /\ \A p \in Machines : p # n /\ session[p] # None => Len(v[session[p]]) <= MaxWire
  BY LeaveKeeps
<1> HIDE DEF v
<1>3. Dialled'
  BY <1>1, UnsettledAreInputs DEF Inv, Dialled
<1>4. /\ session' \in [Machines -> Conns \cup {None}] /\ session'[n] = None
      /\ \A p \in Machines : p # n => session'[p] = session[p] /\ banner'[p] = banner[p]
      /\ banner'[n] = None
  BY <1>1 DEF Inv, Dialled
<1>5. Shapes(wire)'
  BY <1>1, <1>2, <1>4 DEF Shapes
<1>6. ASSUME NEW c \in Conns, ends[c] # None, AfterStop(n, v, c) PROVE Accounted(wire, c)'
  <2>1. ends[c].from \in Machines
    BY <1>6 DEF Inv, Dialled, Ends
  <2> QED BY <1>1, <1>4, <1>6, <2>1 DEF Accounted, AfterStop, EndsInLeave
<1>7. Told(wire)'
  <2>1. ASSUME NEW c \in Conns, ends[c]' # None, wire'[c] # << >> PROVE Accounted(wire, c)'
    BY <1>1, <1>2, <1>6, <2>1
  <2>2. ASSUME NEW p \in Machines, NEW q \in Machines,
               banner'[p] = [peer |-> q, mode |-> "receiving"]
        PROVE  \E c \in Conns : ends'[c] = [from |-> q, to |-> p] /\ Accounted(wire, c)'
    <3>1. [peer |-> q, mode |-> "receiving"] \in Banners
      BY DEF Banners
    <3>2. p # n /\ banner[p] = [peer |-> q, mode |-> "receiving"]
      BY <1>4, <2>2, <3>1 DEF ControlPairAssumption
    <3>3. PICK c \in Conns : ends[c] = [from |-> q, to |-> p] /\ Accounted(wire, c)
      BY <3>2 DEF Inv, Told
    <3>4. ends[c] # None
      BY <3>3 DEF Ends, ControlPairAssumption
    <3>5. Accounted(wire, c)'
      BY <1>2, <1>6, <3>3, <3>4
    <3> QED BY <1>1, <3>3, <3>5
  <2> QED BY <2>1, <2>2 DEF Told
<1> QED BY <1>3, <1>5, <1>7 DEF Inv

LEMMA BeginKeeps ==
  ASSUME ControlPairAssumption, Inv, NEW n \in Machines, NEW p \in Machines, NEW c \in Conns,
         BeginControl(n, p, c)
  PROVE  Inv'
<1> DEFINE v == LeaveWritten(n)
           u == Push(v, c, Enter)
<1>1. /\ ends[c] = None /\ ends' = [ends EXCEPT ![c] = [from |-> n, to |-> p]]
      /\ wire' = u /\ works' = works \cup {c}
      /\ session' = [session EXCEPT ![n] = c]
      /\ banner' = [banner EXCEPT ![n] = [peer |-> p, mode |-> "controlling"]]
      /\ cut' = cut \cup Unsettled /\ UNCHANGED <<down, pressed, muted>>
  BY DEF BeginControl, ChangeHands
<1>2. /\ v \in [Conns -> Seq(Messages)]
      /\ \A d \in Conns :
           /\ Len(v[d]) <= MaxWire + 1
           /\ ends[d] = None => v[d] = << >>
           /\ ends[d] # None /\ (Accounted(wire, d) \/ v[d] # << >>) => AfterStop(n, v, d)
      /\ \A q \in Machines : q # n /\ session[q] # None => Len(v[session[q]]) <= MaxWire
  BY LeaveKeeps
<1> HIDE DEF v
<1>3. /\ u \in [Conns -> Seq(Messages)] /\ Len(u[c]) = Len(v[c]) + 1
      /\ \A d \in Conns : d # c => u[d] = v[d]
  BY <1>2, PushSeq, MessagesAre
<1> HIDE DEF u
<1>4. Len(u[c]) = 1 /\ MaxWire \in Nat /\ MaxWire >= 1
  BY <1>1, <1>2, <1>3 DEF ControlPairAssumption
<1>5. /\ ends'[c] = [from |-> n, to |-> p] /\ ends'[c] # None /\ ends'[c].from = n
      /\ \A d \in Conns : d # c => ends'[d] = ends[d]
      /\ session'[n] = c /\ \A q \in Machines : q # n => session'[q] = session[q]
      /\ banner'[n] = [peer |-> p, mode |-> "controlling"] /\ banner'[n] \in Banners
      /\ \A q \in Machines : q # n => banner'[q] = banner[q]
  <2>1. [from |-> n, to |-> p] \in Ends /\ [peer |-> p, mode |-> "controlling"] \in Banners
    BY DEF Ends, Banners
  <2> QED BY <1>1, <2>1 DEF Inv, Dialled, ControlPairAssumption
<1>6. ASSUME NEW q \in Machines, q # n, session[q] # None
      PROVE  session[q] \in Conns /\ session[q] # c
  BY <1>1, <1>6 DEF Inv, Dialled
<1>7. Dialled'
  <2>1. /\ session' \in [Machines -> Conns \cup {None}] /\ banner' \in [Machines -> Banners \cup {None}]
        /\ ends' \in [Conns -> Ends \cup {None}]
    <3>1. [from |-> n, to |-> p] \in Ends /\ [peer |-> p, mode |-> "controlling"] \in Banners
      BY DEF Ends, Banners
    <3> QED BY <1>1, <3>1 DEF Inv, Dialled
  <2>2. /\ works' \cup muted' \subseteq Conns /\ cut' \subseteq Inputs
        /\ down' \in [Machines -> SUBSET Inputs] /\ pressed' \in [Machines -> SUBSET Inputs]
    BY <1>1, UnsettledAreInputs DEF Inv, Dialled
  <2>3. ASSUME NEW q \in Machines, session'[q] # None
        PROVE  /\ ends'[session'[q]] # None /\ ends'[session'[q]].from = q
               /\ banner'[q] = None => session'[q] \in muted'
    <3>1. CASE q = n
      BY <1>5, <3>1 DEF ControlPairAssumption
    <3>2. CASE q # n
      <4>1. /\ session'[q] = session[q] /\ session[q] # None /\ ends'[session[q]] = ends[session[q]]
            /\ banner'[q] = banner[q] /\ muted' = muted
        BY <1>1, <1>5, <1>6, <2>3, <3>2
      <4> QED BY <4>1 DEF Inv, Dialled
    <3> QED BY <3>1, <3>2
  <2> QED BY <2>1, <2>2, <2>3 DEF Dialled
<1>8. Shapes(wire)'
  <2>0. Len(u[c]) <= MaxWire /\ Len(u[c]) <= MaxWire + 1
    BY <1>4
  <2>1. ASSUME NEW d \in Conns
        PROVE  Len(u[d]) <= MaxWire + 1 /\ (ends'[d] = None => u[d] = << >>)
    <3>1. CASE d = c
      BY <1>5, <2>0, <3>1
    <3>2. CASE d # c
      <4>1. u[d] = v[d] /\ ends'[d] = ends[d]
        BY <1>3, <1>5, <3>2
      <4> QED BY <1>2, <4>1
    <3> QED BY <3>1, <3>2
  <2>2. ASSUME NEW q \in Machines, session'[q] # None PROVE Len(u[session'[q]]) <= MaxWire
    <3>1. CASE q = n
      <4>1. u[session'[q]] = u[c]
        BY <1>5, <3>1
      <4> QED BY <2>0, <4>1
    <3>2. CASE q # n
      <4>1. session'[q] = session[q] /\ session[q] # None
        BY <1>5, <2>2, <3>2
      <4>2. u[session[q]] = v[session[q]] /\ Len(v[session[q]]) <= MaxWire
        BY <1>2, <1>3, <1>6, <3>2, <4>1
      <4> QED BY <4>1, <4>2
    <3> QED BY <3>1, <3>2
  <2> QED BY <1>1, <1>3, <2>1, <2>2 DEF Shapes
<1>9. Accounted(wire, c)'
  BY <1>5 DEF Accounted
<1>10. ASSUME NEW d \in Conns, d # c, ends[d] # None, AfterStop(n, v, d)
       PROVE  Accounted(wire, d)'
  <2>1. ends[d].from \in Machines /\ u[d] = v[d] /\ ends'[d] = ends[d]
    BY <1>3, <1>5, <1>10 DEF Inv, Dialled, Ends
  <2> QED BY <1>1, <1>5, <1>10, <2>1 DEF Accounted, AfterStop, EndsInLeave
<1>11. Told(wire)'
  <2>1. ASSUME NEW d \in Conns, ends'[d] # None, wire'[d] # << >> PROVE Accounted(wire, d)'
    <3>1. CASE d = c
      BY <1>9, <3>1
    <3>2. CASE d # c
      BY <1>1, <1>2, <1>3, <1>5, <1>10, <2>1, <3>2
    <3> QED BY <3>1, <3>2
  <2>2. ASSUME NEW r \in Machines, NEW q \in Machines,
               banner'[r] = [peer |-> q, mode |-> "receiving"]
        PROVE  \E d \in Conns : ends'[d] = [from |-> q, to |-> r] /\ Accounted(wire, d)'
    <3>1. banner[r] = [peer |-> q, mode |-> "receiving"]
      <4>1. r # n
        <5>1. banner'[r].mode # "controlling"
          BY <2>2
        <5> QED BY <1>5, <5>1
      <4> QED BY <1>5, <2>2, <4>1
    <3>2. PICK d \in Conns : ends[d] = [from |-> q, to |-> r] /\ Accounted(wire, d)
      BY <3>1 DEF Inv, Told
    <3>3. ends[d] # None /\ d # c
      BY <1>1, <3>2 DEF Ends, ControlPairAssumption
    <3>4. Accounted(wire, d)' /\ ends'[d] = ends[d]
      BY <1>2, <1>5, <1>10, <3>2, <3>3
    <3> QED BY <3>2, <3>4
  <2> QED BY <2>1, <2>2 DEF Told
<1> QED BY <1>7, <1>8, <1>11 DEF Inv

-----------------------------------------------------------------------------
(* Input, and what arrives                                                 *)

LEMMA HookKeeps ==
  ASSUME ControlPairAssumption, Dialled, NEW w, Shapes(w), Told(w), NEW n \in Machines,
         NEW i \in Inputs, NEW way \in {"down", "up"}, Hook(n, i, way, w),
         down' \in [Machines -> SUBSET Inputs]
  PROVE  Inv'
<1>1. UNCHANGED <<session, banner, ends, works, muted>>
  BY DEF Hook
<1>2. cut' \subseteq Inputs /\ pressed' \in [Machines -> SUBSET Inputs]
  BY DEF Hook, Passes, Forwarded, Swallowed, Dialled
<1>3. Dialled'
  BY <1>1, <1>2 DEF Dialled
<1>4. Shapes(wire') /\ Told(wire')
  <2>1. CASE wire' = w
    BY <2>1
  <2>2. CASE Forwarded(n, i, way, w)
    <3>1. PICK e \in Captured(n, i, way) : wire' = Push(w, session[n], e)
      BY <2>2 DEF Forwarded
    <3>2. e \in Events
      BY CapturedAre
    <3>3. session[n] # None /\ Room(w, session[n])
      BY <2>2 DEF Forwarded
    <3> QED BY <3>1, <3>2, <3>3, PushKeeps
  <2> QED BY <2>1, <2>2 DEF Hook, Swallowed
<1>5. Shapes(wire)'
  BY <1>1, <1>4 DEF Shapes
<1>6. Told(wire)'
  BY <1>1, <1>4 DEF Told, Accounted, EndsInLeave
<1> QED BY <1>3, <1>5, <1>6 DEF Inv

LEMMA EventKeeps ==
  ASSUME ControlPairAssumption, Inv, NEW m \in Machines, NEW c \in Conns, HandleControlEvent(m, c)
  PROVE  Inv'
<1>1. PICK e \in Events :
        /\ Arrived(m, c, e)
        /\ Hook(m, e.input, IF e.kind = "down" THEN "down" ELSE "up", Rest(c))
        /\ UNCHANGED down
  BY DEF HandleControlEvent
<1>2. e # Leave /\ e.input \in Inputs
  BY MessagesAre DEF Events
<1>3. Shapes(Rest(c)) /\ Told(Rest(c))
  BY <1>1, <1>2, RestKeeps
<1>4. Dialled /\ down' \in [Machines -> SUBSET Inputs]
  BY <1>1 DEF Inv, Dialled
<1>5. CASE e.kind = "down"
  BY <1>1, <1>2, <1>3, <1>4, <1>5, HookKeeps
<1>6. CASE e.kind # "down"
  BY <1>1, <1>2, <1>3, <1>4, <1>6, HookKeeps
<1> QED BY <1>5, <1>6

LEMMA EnterKeeps ==
  ASSUME ControlPairAssumption, Inv, NEW m \in Machines, NEW c \in Conns, HandleControlEnter(m, c)
  PROVE  Inv'
<1>1. /\ Arrived(m, c, Enter) /\ wire' = Rest(c)
      /\ banner' = [banner EXCEPT ![m] = [peer |-> ends[c].from, mode |-> "receiving"]]
      /\ UNCHANGED <<session, ends, works, down, pressed, muted, cut>>
  BY DEF HandleControlEnter
<1>2. Shapes(Rest(c)) /\ Told(Rest(c)) /\ ends[c] \in Ends /\ Accounted(Rest(c), c)
  BY <1>1, MessagesAre, RestKeeps
<1>3. ends[c] = [from |-> ends[c].from, to |-> m] /\ ends[c].from \in Machines
  BY <1>1, <1>2 DEF Arrived, Ends
<1>4. [peer |-> ends[c].from, mode |-> "receiving"] \in Banners
  BY <1>3 DEF Banners
<1>5. /\ banner' \in [Machines -> Banners \cup {None}]
      /\ banner'[m] = [peer |-> ends[c].from, mode |-> "receiving"] /\ banner'[m] # None
      /\ \A p \in Machines : p # m => banner'[p] = banner[p]
  BY <1>1, <1>4 DEF Inv, Dialled, ControlPairAssumption
<1>6. Dialled'
  <2>1. \A n \in Machines : banner'[n] = None => banner[n] = None
    BY <1>5
  <2> QED BY <1>1, <1>5, <2>1 DEF Inv, Dialled
<1>7. Shapes(wire)'
  BY <1>1, <1>2 DEF Shapes
<1>8. \A d \in Conns : Accounted(Rest(c), d) => Accounted(wire, d)'
  BY <1>1 DEF Accounted, EndsInLeave
<1>9. Told(wire)'
  <2>1. ASSUME NEW d \in Conns, ends'[d] # None, wire'[d] # << >> PROVE Accounted(wire, d)'
    BY <1>1, <1>2, <1>8, <2>1 DEF Told
  <2>2. ASSUME NEW p \in Machines, NEW q \in Machines,
               banner'[p] = [peer |-> q, mode |-> "receiving"]
        PROVE  \E d \in Conns : ends'[d] = [from |-> q, to |-> p] /\ Accounted(wire, d)'
    <3>1. CASE p = m
      <4>1. banner'[p].peer = q /\ banner'[p].peer = ends[c].from
        BY <1>5, <2>2, <3>1
      <4> QED BY <1>1, <1>2, <1>3, <1>8, <3>1, <4>1
    <3>2. CASE p # m
      <4>1. PICK d \in Conns : ends[d] = [from |-> q, to |-> p] /\ Accounted(Rest(c), d)
        BY <1>2, <1>5, <2>2, <3>2 DEF Told
      <4> QED BY <1>1, <1>8, <4>1
    <3> QED BY <3>1, <3>2
  <2> QED BY <2>1, <2>2 DEF Told
<1> QED BY <1>6, <1>7, <1>9 DEF Inv

\* The message that accounted for a connection is gone, and the banner with it.
LEMMA LeaveHandled ==
  ASSUME ControlPairAssumption, Inv, NEW m \in Machines, NEW c \in Conns, HandleControlLeave(m, c)
  PROVE  Inv'
<1>1. /\ Arrived(m, c, Leave) /\ wire' = Rest(c)
      /\ UNCHANGED <<session, ends, works, down, pressed, cut>>
  BY DEF HandleControlLeave
<1>2. /\ Shapes(Rest(c)) /\ ends[c] \in Ends
      /\ Rest(c)[c] # << >> => Accounted(Rest(c), c)
      /\ \A d \in Conns : d # c => Rest(c)[d] = wire[d]
  BY <1>1, RestKeeps
<1>3. /\ banner' \in [Machines -> Banners \cup {None}] /\ muted' \subseteq Conns
      /\ muted \subseteq muted'
      /\ banner'[m] = None => banner[m] = None \/ session[m] = None \/ session[m] \in muted'
      /\ \A p \in Machines : p # m => banner'[p] = banner[p]
      /\ banner'[m] # None => banner'[m] = banner[m] /\ banner[m].peer # ends[c].from
  <2>1. CASE banner[m] # None /\ banner[m].peer = ends[c].from
    BY <2>1 DEF HandleControlLeave, Inv, Dialled
  <2>2. CASE ~(banner[m] # None /\ banner[m].peer = ends[c].from)
    BY <2>2 DEF HandleControlLeave, Inv, Dialled
  <2> QED BY <2>1, <2>2
<1>4. Dialled'
  <2>1. ASSUME NEW n \in Machines, session'[n] # None
        PROVE  /\ ends'[session'[n]] # None /\ ends'[session'[n]].from = n
               /\ banner'[n] = None => session'[n] \in muted'
    BY <1>1, <1>3, <2>1 DEF Inv, Dialled
  <2> QED BY <1>1, <1>3, <2>1 DEF Inv, Dialled
<1>5. Shapes(wire)'
  BY <1>1, <1>2 DEF Shapes
<1>6. ASSUME NEW d \in Conns, d # c \/ Rest(c)[c] # << >>, Accounted(wire, d)
      PROVE  Accounted(wire, d)'
  <2>1. Accounted(Rest(c), d)
    BY <1>2, <1>6 DEF Accounted, EndsInLeave
  <2> QED BY <1>1, <1>3, <2>1 DEF Accounted, EndsInLeave
<1>7. Told(wire)'
  <2>1. ASSUME NEW d \in Conns, ends'[d] # None, wire'[d] # << >> PROVE Accounted(wire, d)'
    <3>1. wire[d] # << >>
      BY <1>1, <1>2, <2>1 DEF Arrived
    <3>2. Accounted(wire, d)
      BY <1>1, <2>1, <3>1 DEF Inv, Told
    <3> QED BY <1>1, <1>6, <2>1, <3>2
  <2>2. ASSUME NEW p \in Machines, NEW q \in Machines,
               banner'[p] = [peer |-> q, mode |-> "receiving"]
        PROVE  \E d \in Conns : ends'[d] = [from |-> q, to |-> p] /\ Accounted(wire, d)'
    <3>1. banner'[p] # None
      <4>1. [peer |-> q, mode |-> "receiving"] \in Banners
        BY DEF Banners
      <4> QED BY <2>2, <4>1 DEF ControlPairAssumption
    <3>2. banner[p] = [peer |-> q, mode |-> "receiving"] /\ (p = m => q # ends[c].from)
      BY <1>3, <2>2, <3>1
    <3>3. PICK d \in Conns : ends[d] = [from |-> q, to |-> p] /\ Accounted(wire, d)
      BY <3>2 DEF Inv, Told
    <3>4. d # c
      BY <1>1, <3>2, <3>3 DEF Arrived
    <3> QED BY <1>1, <1>6, <3>3, <3>4
  <2> QED BY <2>1, <2>2 DEF Told
<1> QED BY <1>4, <1>5, <1>7 DEF Inv

LEMMA BreakKeeps ==
  ASSUME ControlPairAssumption, Inv, NEW c \in Conns, Break(c)
  PROVE  Inv'
<1>1. PICK k \in 0..Len(wire[c]) : wire' = [wire EXCEPT ![c] = SubSeq(@, 1, k)]
  BY DEF Break
<1>2. /\ works' = works \ {c} /\ cut' = cut \cup Unsettled
      /\ UNCHANGED <<session, banner, ends, down, pressed, muted>>
  BY DEF Break, ChangeHands
<1>3. wire[c] \in Seq(Messages) /\ wire \in [Conns -> Seq(Messages)] /\ Len(wire[c]) \in Nat
  BY DEF Inv, Shapes
<1>4. /\ SubSeq(wire[c], 1, k) \in Seq(Messages) /\ Len(SubSeq(wire[c], 1, k)) = k
  BY <1>1, <1>3
<1>5. /\ wire' \in [Conns -> Seq(Messages)] /\ Len(wire'[c]) = k
      /\ \A d \in Conns : d # c => wire'[d] = wire[d]
  BY <1>1, <1>3, <1>4
<1>6. Dialled'
  BY <1>2, UnsettledAreInputs DEF Inv, Dialled
<1>7. \A d \in Conns : Len(wire'[d]) <= Len(wire[d]) /\ Len(wire[d]) \in Nat /\ Len(wire'[d]) \in Nat
  <2>1. Len(wire'[c]) <= Len(wire[c])
    BY <1>1, <1>3, <1>5
  <2>2. \A d \in Conns : Len(wire[d]) \in Nat /\ Len(wire'[d]) \in Nat
    BY <1>3, <1>5
  <2>3. ASSUME NEW d \in Conns PROVE Len(wire'[d]) <= Len(wire[d])
    <3>1. CASE d = c
      BY <2>1, <3>1
    <3>2. CASE d # c
      <4>1. Len(wire'[d]) = Len(wire[d])
        BY <1>5, <3>2
      <4> QED BY <2>2, <4>1
    <3> QED BY <3>1, <3>2
  <2> QED BY <2>2, <2>3
<1>8. MaxWire \in Nat
  BY DEF ControlPairAssumption
<1>9. Shapes(wire)'
  <2>1. ASSUME NEW d \in Conns PROVE Len(wire'[d]) <= MaxWire + 1 /\ (ends'[d] = None => wire'[d] = << >>)
    <3>1. Len(wire[d]) <= MaxWire + 1 /\ (ends[d] = None => wire[d] = << >>)
      BY DEF Inv, Shapes
    <3>2. Len(wire'[d]) <= MaxWire + 1
      BY <1>7, <1>8, <3>1
    <3>3. ASSUME ends'[d] = None PROVE wire'[d] = << >>
      <4>1. wire[d] = << >>
        BY <1>2, <3>1, <3>3
      <4>2. Len(wire[d]) = 0
        BY <4>1
      <4>3. wire'[d] \in Seq(Messages) /\ Len(wire'[d]) = 0
        BY <1>5, <1>7, <4>2
      <4> QED BY <4>3, EmptySeq
    <3> QED BY <3>2, <3>3
  <2>2. ASSUME NEW n \in Machines, session'[n] # None PROVE Len(wire'[session'[n]]) <= MaxWire
    <3>1. session'[n] = session[n] /\ session[n] \in Conns /\ Len(wire[session[n]]) <= MaxWire
      BY <1>2, <2>2 DEF Inv, Dialled, Shapes
    <3>2. Len(wire'[session[n]]) <= MaxWire
      BY <1>7, <1>8, <3>1
    <3> QED BY <3>1, <3>2
  <2> QED BY <1>5, <2>1, <2>2 DEF Shapes
<1>10. ASSUME NEW d \in Conns, d = c \/ Accounted(wire, d) PROVE Accounted(wire, d)'
  BY <1>2, <1>5, <1>10 DEF Accounted, EndsInLeave
<1>11. Told(wire)'
  <2>1. ASSUME NEW d \in Conns, ends'[d] # None, wire'[d] # << >> PROVE Accounted(wire, d)'
    BY <1>2, <1>5, <1>10, <2>1 DEF Inv, Told
  <2>2. ASSUME NEW p \in Machines, NEW q \in Machines,
               banner'[p] = [peer |-> q, mode |-> "receiving"]
        PROVE  \E d \in Conns : ends'[d] = [from |-> q, to |-> p] /\ Accounted(wire, d)'
    BY <1>2, <1>10, <2>2 DEF Inv, Told
  <2> QED BY <2>1, <2>2 DEF Told
<1> QED BY <1>6, <1>9, <1>11 DEF Inv

-----------------------------------------------------------------------------
(* What is pressed, and why.  A machine has an input pressed because a      *)
(* finger is on it there or on a machine that feeds it through any chain of *)
(* sessions.  Instead of chains the invariant speaks of sets of machines    *)
(* that nobody outside the set feeds.                                       *)

Of(message, i) == IsEvent(message) /\ message.input = i
IsDown(message, i) == Of(message, i) /\ message.kind = "down"
IsUp(message, i) == Of(message, i) /\ message.kind # "down"

Carries(w, c, i) == \E k \in DOMAIN w[c] : Of(w[c][k], i)
HasUp(w, c, i) == \E k \in DOMAIN w[c] : IsUp(w[c][k], i)
\* After every press of i a release of it is on its way.
Answered(w, c, i) ==
  \A k \in DOMAIN w[c] : IsDown(w[c][k], i) =>
    \E j \in DOMAIN w[c] : j > k /\ IsUp(w[c][j], i)

\* What is captured of i on n goes to m.
Feeds(n, m, i) ==
  /\ session[n] # None /\ ends[session[n]].to = m
  /\ Captured(n, i, "down") # {}

\* No finger is on i on the machines of D or on any that feeds them, directly
\* or through others, and no release of i is on its way to them.
Silent(w, D, i) ==
  /\ \A m \in D : i \notin down[m]
  /\ \A n \in Machines, m \in D : Feeds(n, m, i) => n \in D /\ ~HasUp(w, session[n], i)

\* i is not pressed on the machines of D and will not be by what they sent.
Still(w, D, i) ==
  \A n \in D : /\ i \notin pressed[n]
               /\ session[n] # None => Answered(w, session[n], i)

Calm(w, i) ==
  /\ \A c \in Conns : Carries(w, c, i) =>
       /\ ends[c] # None /\ session[ends[c].from] = c
       /\ Captured(ends[c].from, i, "down") # {}
  /\ \A n \in Machines : session[n] # None => i \notin pressed[n]

Settled(w, i) == Calm(w, i) /\ \A D \in SUBSET Machines : Silent(w, D, i) => Still(w, D, i)

PressInv == \A i \in Inputs \ cut : Settled(wire, i)

LEMMA KindsOfEvents ==
  ASSUME NEW e \in Events
  PROVE  IsEvent(e) /\ e.input \in Inputs
<1>1. e.kind \notin {"control.enter", "control.leave"} /\ e.input \in Inputs
  BY DEF Events
<1>2. e # Enter /\ e # Leave
  BY <1>1 DEF Enter, Leave
<1> QED BY <1>1, <1>2 DEF IsEvent

LEMMA NoEvents == ~IsEvent(Enter) /\ ~IsEvent(Leave)
BY DEF IsEvent

\* What a message that is put on a connection changes.
LEMMA PushTells ==
  ASSUME NEW w \in [Conns -> Seq(Messages)], NEW c \in Conns, NEW message \in Messages,
         NEW i, NEW d \in Conns
  PROVE  LET v == Push(w, c, message) IN
         /\ Carries(w, d, i) => Carries(v, d, i)
         /\ HasUp(w, d, i) => HasUp(v, d, i)
         /\ Carries(v, d, i) => Carries(w, d, i) \/ (d = c /\ Of(message, i))
         /\ d # c \/ ~IsDown(message, i) => (Answered(w, d, i) => Answered(v, d, i))
         /\ IsUp(message, i) => HasUp(v, c, i) /\ Answered(v, c, i)
<1> DEFINE v == Push(w, c, message)
           n == Len(w[c])
<1>1. d # c => v[d] = w[d]
  BY PushSeq
<1>2. /\ v[c] = Append(w[c], message) /\ w[c] \in Seq(Messages)
  BY DEF Push
<1>3. /\ n \in Nat /\ DOMAIN w[c] = 1..n /\ DOMAIN v[c] = 1..n + 1
      /\ v[c][n + 1] = message
      /\ \A k \in 1..n : v[c][k] = w[c][k]
  BY <1>2
<1> HIDE DEF v, n
<1>4. \A k \in 1..n + 1 : k \in 1..n \/ k = n + 1
  BY <1>3
<1>5. 1..n \subseteq 1..n + 1 /\ n + 1 \in 1..n + 1 /\ \A k \in 1..n : n + 1 > k
  BY <1>3
<1>6. ASSUME IsUp(message, i) PROVE HasUp(v, c, i) /\ Answered(v, c, i)
  <2>1. HasUp(v, c, i)
    BY <1>3, <1>5, <1>6 DEF HasUp
  <2>2. ASSUME NEW k \in 1..n + 1, IsDown(v[c][k], i)
        PROVE  \E j \in 1..n + 1 : j > k /\ IsUp(v[c][j], i)
    <3>1. k # n + 1
      BY <1>3, <1>6, <2>2 DEF IsDown, IsUp
    <3> QED BY <1>3, <1>4, <1>5, <1>6, <3>1
  <2> QED BY <1>3, <2>1, <2>2 DEF Answered
<1>7. CASE d # c
  BY <1>1, <1>6, <1>7 DEF Carries, HasUp, Answered, v
<1>8. CASE d = c
  <2>1. Carries(w, c, i) => Carries(v, c, i)
    BY <1>3, <1>5 DEF Carries
  <2>2. HasUp(w, c, i) => HasUp(v, c, i)
    BY <1>3, <1>5 DEF HasUp
  <2>3. Carries(v, c, i) => Carries(w, c, i) \/ Of(message, i)
    BY <1>3, <1>4 DEF Carries
  <2>4. ASSUME ~IsDown(message, i), Answered(w, c, i) PROVE Answered(v, c, i)
    <3>1. ASSUME NEW k \in 1..n + 1, IsDown(v[c][k], i)
          PROVE  \E j \in 1..n + 1 : j > k /\ IsUp(v[c][j], i)
      <4>1. k \in 1..n /\ IsDown(w[c][k], i)
        BY <1>3, <1>4, <2>4, <3>1
      <4>2. PICK j \in 1..n : j > k /\ IsUp(w[c][j], i)
        BY <1>3, <2>4, <4>1 DEF Answered
      <4> QED BY <1>3, <1>5, <4>2
    <3> QED BY <1>3, <3>1 DEF Answered
  <2> QED BY <1>6, <1>8, <2>1, <2>2, <2>3, <2>4 DEF v
<1> QED BY <1>7, <1>8 DEF v

\* What taking the oldest message out changes.
LEMMA RestTells ==
  ASSUME Inv, NEW m \in Machines, NEW c \in Conns, NEW message, Arrived(m, c, message),
         NEW i, NEW d \in Conns
  PROVE  /\ Carries(Rest(c), d, i) => Carries(wire, d, i)
         /\ HasUp(Rest(c), d, i) => HasUp(wire, d, i)
         /\ HasUp(wire, d, i) => HasUp(Rest(c), d, i) \/ (d = c /\ IsUp(message, i))
         /\ Answered(wire, d, i) => Answered(Rest(c), d, i)
         /\ Of(message, i) => Carries(wire, c, i)
         /\ IsDown(message, i) /\ Answered(wire, c, i) => HasUp(wire, c, i)
<1> DEFINE t == Tail(wire[c])
           n == Len(wire[c])
<1>1. /\ wire[c] \in Seq(Messages) /\ wire[c] # << >> /\ message = Head(wire[c])
  BY DEF Arrived, Inv, Shapes
<1>2. Rest(c)[c] = t /\ \A x \in Conns : x # c => Rest(c)[x] = wire[x]
  BY DEF Rest, Inv, Shapes
<1>3. /\ n \in Nat /\ n >= 1 /\ DOMAIN wire[c] = 1..n /\ wire[c][1] = message
      /\ DOMAIN t = 1..n - 1
      /\ \A k \in 1..n - 1 : t[k] = wire[c][k + 1]
  BY <1>1
<1> HIDE DEF t, n
<1>4. /\ 1 \in 1..n
      /\ \A k \in 1..n - 1 : k + 1 \in 1..n
      /\ \A k \in 1..n : k # 1 => k - 1 \in 1..n - 1 /\ (k - 1) + 1 = k
      /\ \A j \in 1..n, k \in 1..n - 1 : j > k + 1 => j # 1 /\ j - 1 > k
  BY <1>3
<1>5. \A k \in 1..n : k # 1 => wire[c][k] = t[k - 1]
  BY <1>3, <1>4
<1>6. Of(message, i) => Carries(wire, c, i)
  BY <1>3, <1>4 DEF Carries
<1>7. IsDown(message, i) /\ Answered(wire, c, i) => HasUp(wire, c, i)
  BY <1>3, <1>4 DEF Answered, HasUp
<1>8. CASE d # c
  BY <1>2, <1>6, <1>7, <1>8 DEF Carries, HasUp, Answered
<1>9. CASE d = c
  <2>1. Carries(Rest(c), c, i) => Carries(wire, c, i)
    BY <1>2, <1>3, <1>4 DEF Carries
  <2>2. HasUp(Rest(c), c, i) => HasUp(wire, c, i)
    BY <1>2, <1>3, <1>4 DEF HasUp
  <2>3. HasUp(wire, c, i) => HasUp(Rest(c), c, i) \/ IsUp(message, i)
    <3>1. ASSUME NEW k \in 1..n, IsUp(wire[c][k], i) PROVE HasUp(Rest(c), c, i) \/ IsUp(message, i)
      <4>1. CASE k = 1
        BY <1>3, <3>1, <4>1
      <4>2. CASE k # 1
        <5>1. k - 1 \in DOMAIN Rest(c)[c] /\ IsUp(Rest(c)[c][k - 1], i)
          BY <1>2, <1>3, <1>4, <1>5, <3>1, <4>2
        <5> QED BY <5>1 DEF HasUp
      <4> QED BY <4>1, <4>2
    <3> QED BY <1>3, <3>1 DEF HasUp
  <2>4. ASSUME Answered(wire, c, i) PROVE Answered(Rest(c), c, i)
    <3>1. ASSUME NEW k \in 1..n - 1, IsDown(t[k], i)
          PROVE  \E j \in 1..n - 1 : j > k /\ IsUp(t[j], i)
      <4>1. IsDown(wire[c][k + 1], i) /\ k + 1 \in 1..n
        BY <1>3, <1>4, <3>1
      <4>2. PICK j \in 1..n : j > k + 1 /\ IsUp(wire[c][j], i)
        BY <1>3, <2>4, <4>1 DEF Answered
      <4>3. j # 1 /\ j - 1 > k
        BY <1>4, <4>2
      <4> QED BY <1>4, <1>5, <4>2, <4>3
    <3> QED BY <1>2, <1>3, <3>1 DEF Answered
  <2> QED BY <1>6, <1>7, <1>9, <2>1, <2>2, <2>3, <2>4
<1> QED BY <1>8, <1>9

\* A step that touches nothing of i.
LEMMA OthersSettle ==
  ASSUME NEW i \in Inputs, Settled(wire, i), UNCHANGED <<session, ends>>,
         \A n \in Machines : (i \in down'[n] <=> i \in down[n]) /\ (i \in pressed'[n] <=> i \in pressed[n]),
         \A c \in Conns :
           /\ Carries(wire', c, i) => Carries(wire, c, i)
           /\ HasUp(wire, c, i) => HasUp(wire', c, i)
           /\ Answered(wire, c, i) => Answered(wire', c, i),
         session \in [Machines -> Conns \cup {None}]
  PROVE  Settled(wire, i)'
<1>1. \A n, m \in Machines : Feeds(n, m, i)' <=> Feeds(n, m, i)
  BY DEF Feeds, Captured
<1>2. Calm(wire, i)'
  BY DEF Settled, Calm, Captured
<1>3. ASSUME NEW D \in SUBSET Machines, Silent(wire, D, i)' PROVE Still(wire, D, i)'
  <2>1. Silent(wire, D, i)
    <3>1. \A m \in D : i \notin down[m]
      BY <1>3 DEF Silent
    <3>2. ASSUME NEW n \in Machines, NEW m \in D, Feeds(n, m, i)
          PROVE  n \in D /\ ~HasUp(wire, session[n], i)
      <4>1. n \in D /\ ~HasUp(wire', session[n], i)
        BY <1>1, <1>3, <3>2 DEF Silent
      <4>2. session[n] \in Conns
        BY <3>2 DEF Feeds
      <4> QED BY <4>1, <4>2
    <3> QED BY <3>1, <3>2 DEF Silent
  <2>2. Still(wire, D, i)
    BY <2>1 DEF Settled
  <2> QED BY <2>2 DEF Still
<1> QED BY <1>2, <1>3 DEF Settled

\* An input that is not down, pressed or on its way anywhere when sessions change.
LEMMA ChangeSettles ==
  ASSUME Dialled, NEW i \in Inputs, i \notin Unsettled, pressed' = pressed,
         session' \in [Machines -> Conns \cup {None}],
         \A c \in Conns : Carries(wire', c, i) => Carries(wire, c, i)
  PROVE  Settled(wire, i)'
<1>1. \A n \in Machines : i \notin pressed'[n]
  BY DEF Unsettled
<1>2. \A c \in Conns : ~Carries(wire', c, i)
  BY DEF Unsettled, OnTheWay, Carries, Of
<1>3. \A c \in Conns : Answered(wire', c, i)
  BY <1>2 DEF Answered, Carries, IsDown
<1>4. Calm(wire, i)'
  BY <1>1, <1>2 DEF Calm
<1>5. \A D \in SUBSET Machines : Still(wire, D, i)'
  BY <1>1, <1>3 DEF Still
<1> QED BY <1>4, <1>5 DEF Settled

\* The step of a hook, for the input it is about: for w, which is wire or what
\* an injected event leaves of it, the machines that n does not feed are calm.
LEMMA HookSettles ==
  ASSUME ControlPairAssumption, Dialled, NEW w, Shapes(w), NEW n \in Machines, NEW i \in Inputs,
         NEW way \in {"down", "up"}, Hook(n, i, way, w), i \notin cut', Calm(w, i),
         \A D \in SUBSET Machines : n \notin D /\ Silent(w, D, i) => Still(w, D, i),
         \A m \in Machines : m # n => (i \in down'[m] <=> i \in down[m]),
         way = "down" => \A D \in SUBSET Machines : n \in D => ~Silent(wire, D, i)'
  PROVE  Settled(wire, i)'
<1> DEFINE s == session[n]
<1>1. /\ UNCHANGED <<session, ends>> /\ session \in [Machines -> Conns \cup {None}]
      /\ w \in [Conns -> Seq(Messages)] /\ cut \subseteq cut'
      /\ s # None => s \in Conns /\ ends[s] # None /\ ends[s].from = n /\ ends[s] \in Ends
  BY DEF Hook, Dialled, Shapes, Passes, Forwarded, Swallowed
<1>2. \/ s = None /\ wire' = w
         /\ pressed' = [pressed EXCEPT ![n] = IF way = "down" THEN @ \cup {i} ELSE @ \ {i}]
      \/ s # None /\ pressed' = pressed /\ \E e \in Captured(n, i, way) : wire' = Push(w, s, e)
      \/ s # None /\ pressed' = pressed /\ wire' = w /\ Captured(n, i, way) = {}
  BY DEF Hook, Passes, Forwarded, Swallowed
<1>3. Captured(n, i, "down") = {} <=> Captured(n, i, way) = {}
  BY DEF Captured
<1>4. \A e \in Captured(n, i, way) :
        e \in Messages /\ Of(e, i) /\ (way = "up" => IsUp(e, i)) /\ (IsDown(e, i) => way = "down")
  <2>1. ASSUME NEW e \in Captured(n, i, way)
        PROVE  e.input = i /\ (way = "up" => e.kind # "down") /\ e \in Events
    BY CapturedAre DEF Captured
  <2> QED BY <2>1, KindsOfEvents, MessagesAre DEF Of, IsUp, IsDown
<1>5. ASSUME NEW d \in Conns
      PROVE  /\ HasUp(w, d, i) => HasUp(wire', d, i)
             /\ Carries(wire', d, i) => Carries(w, d, i) \/ (d = s /\ Captured(n, i, "down") # {})
             /\ s = None \/ d # s => (Answered(w, d, i) => Answered(wire', d, i))
  <2>1. CASE wire' = w
    BY <2>1
  <2>2. CASE wire' # w
    <3>1. PICK e \in Captured(n, i, way) : s # None /\ wire' = Push(w, s, e)
      BY <1>2, <2>2
    <3> HIDE DEF s
    <3> QED BY <1>1, <1>3, <1>4, <3>1, PushTells
  <2> QED BY <2>1, <2>2
<1>6. \A p, m \in Machines : Feeds(p, m, i)' <=> Feeds(p, m, i)
  BY <1>1 DEF Feeds, Captured
<1>7. Calm(wire, i)'
  <2>1. ASSUME NEW c \in Conns, Carries(wire', c, i)
        PROVE  /\ ends[c] # None /\ session[ends[c].from] = c
               /\ Captured(ends[c].from, i, "down") # {}
    <3>1. CASE Carries(w, c, i)
      BY <3>1 DEF Calm
    <3>2. CASE c = s /\ Captured(n, i, "down") # {} /\ ~Carries(w, c, i)
      <4>1. s # None
        BY <3>2 DEF ControlPairAssumption
      <4> QED BY <1>1, <3>2, <4>1
    <3> QED BY <1>5, <2>1, <3>1, <3>2
  <2>2. ASSUME NEW p \in Machines, session[p] # None PROVE i \notin pressed'[p]
    <3>1. i \notin pressed[p]
      BY <2>2 DEF Calm
    <3> QED BY <1>2, <2>2, <3>1 DEF Dialled
  <2> QED BY <1>1, <2>1, <2>2 DEF Calm, Captured
<1>8. ASSUME NEW D \in SUBSET Machines, Silent(wire, D, i)' PROVE Still(wire, D, i)'
  <2> DEFINE E == D \ {n}
  <2>1. \A p \in Machines, m \in D : Feeds(p, m, i) => p \in D /\ ~HasUp(wire', session[p], i)
    BY <1>1, <1>6, <1>8 DEF Silent
  \* n feeds no machine of D: what it captures goes nowhere, or it is a release
  \* that would have to be on its way.
  <2>2. ASSUME n \in D, NEW m \in D, Feeds(n, m, i) PROVE FALSE
    <3>1. way = "up"
      BY <1>8, <2>2
    <3>2. s # None /\ Captured(n, i, way) # {}
      BY <1>3, <2>2 DEF Feeds
    <3>3. PICK e \in Captured(n, i, way) : wire' = Push(w, s, e)
      BY <1>2, <3>2
    <3>4. HasUp(wire', s, i)
      <4> HIDE DEF s
      <4> QED BY <1>1, <1>4, <3>1, <3>2, <3>3, PushTells
    <3> QED BY <2>1, <2>2, <3>4
  <2>3. Silent(w, E, i)
    <3>1. \A m \in E : i \notin down[m]
      BY <1>8 DEF Silent
    <3>2. ASSUME NEW p \in Machines, NEW m \in E, Feeds(p, m, i)
          PROVE  p \in E /\ ~HasUp(w, session[p], i)
      <4>1. p \in D /\ ~HasUp(wire', session[p], i) /\ session[p] \in Conns
        BY <1>1, <2>1, <3>2 DEF Feeds
      <4>2. p # n
        BY <2>2, <3>2, <4>1
      <4> QED BY <1>5, <4>1, <4>2
    <3> QED BY <3>1, <3>2 DEF Silent
  <2>4. Still(w, E, i)
    BY <2>3
  <2>5. ASSUME NEW p \in E
        PROVE  i \notin pressed'[p] /\ (session[p] # None => Answered(wire', session[p], i))
    <3>1. i \notin pressed[p] /\ (session[p] # None => Answered(w, session[p], i)) /\ p # n
      BY <2>4 DEF Still
    <3>2. session[p] # None => session[p] \in Conns /\ session[p] # s
      BY <3>1 DEF Dialled
    <3> QED BY <1>2, <1>5, <3>1, <3>2 DEF Dialled
  <2>6. ASSUME n \in D
        PROVE  i \notin pressed'[n] /\ (s # None => Answered(wire', s, i))
    <3>1. way = "up"
      BY <1>8, <2>6
    <3>2. i \notin pressed'[n]
      <4>1. CASE s = None
        BY <1>2, <3>1, <4>1 DEF Dialled
      <4>2. CASE s # None
        BY <1>2, <4>2 DEF Calm
      <4> QED BY <4>1, <4>2
    <3>3. ASSUME s # None PROVE Answered(wire', s, i)
      <4>1. CASE Captured(n, i, way) = {}
        <5>1. wire' = w
          BY <1>2, <3>3, <4>1
        <5>2. ~Carries(w, s, i)
          BY <1>1, <1>3, <3>3, <4>1 DEF Calm
        <5> QED BY <5>1, <5>2 DEF Answered, Carries, IsDown
      <4>2. CASE Captured(n, i, way) # {}
        <5>1. PICK e \in Captured(n, i, way) : wire' = Push(w, s, e)
          BY <1>2, <3>3, <4>2
        <5> HIDE DEF s
        <5> QED BY <1>1, <1>4, <3>1, <3>3, <5>1, PushTells
      <4> QED BY <4>1, <4>2
    <3> QED BY <3>2, <3>3
  <2> QED BY <1>1, <2>5, <2>6 DEF Still
<1> QED BY <1>7, <1>8 DEF Settled

\* Putting an event of another input on a connection, or none.
LEMMA HookOthers ==
  ASSUME ControlPairAssumption, Dialled, NEW w, Shapes(w), NEW n \in Machines, NEW j \in Inputs,
         NEW way \in {"down", "up"}, Hook(n, j, way, w), NEW i \in Inputs, i # j
  PROVE  /\ UNCHANGED <<session, ends>> /\ cut \subseteq cut'
         /\ \A m \in Machines : i \in pressed'[m] <=> i \in pressed[m]
         /\ \A c \in Conns :
              /\ Carries(wire', c, i) => Carries(w, c, i)
              /\ HasUp(w, c, i) => HasUp(wire', c, i)
              /\ Answered(w, c, i) => Answered(wire', c, i)
<1>1. /\ UNCHANGED <<session, ends>> /\ cut \subseteq cut'
      /\ \A m \in Machines : i \in pressed'[m] <=> i \in pressed[m]
  BY DEF Hook, Passes, Forwarded, Swallowed, Dialled
<1>2. CASE wire' = w
  BY <1>1, <1>2
<1>3. CASE wire' # w
  <2>1. PICK e \in Captured(n, j, way) : session[n] # None /\ wire' = Push(w, session[n], e)
    BY <1>3 DEF Hook, Passes, Forwarded, Swallowed
  <2>2. e \in Events /\ e.input = j
    BY CapturedAre DEF Captured
  <2>3. e \in Messages /\ ~Of(e, i) /\ ~IsDown(e, i) /\ session[n] \in Conns
    BY <2>1, <2>2, MessagesAre DEF Of, IsDown, Dialled
  <2> QED BY <1>1, <2>1, <2>3, PushTells DEF Shapes
<1> QED BY <1>2, <1>3

\* No release that is on its way is taken back.
LEMMA HookAdds ==
  ASSUME ControlPairAssumption, Dialled, NEW w, Shapes(w), NEW n \in Machines, NEW j \in Inputs,
         NEW way \in {"down", "up"}, Hook(n, j, way, w), NEW i \in Inputs, NEW c \in Conns,
         HasUp(w, c, i)
  PROVE  HasUp(wire', c, i)
<1>1. CASE wire' = w
  BY <1>1
<1>2. CASE wire' # w
  <2>1. PICK e \in Captured(n, j, way) : session[n] # None /\ wire' = Push(w, session[n], e)
    BY <1>2 DEF Hook, Passes, Forwarded, Swallowed
  <2>2. e \in Messages /\ session[n] \in Conns
    BY <2>1, CapturedAre, MessagesAre DEF Dialled
  <2> QED BY <2>1, <2>2, PushTells DEF Shapes
<1> QED BY <1>1, <1>2

LEMMA HandSettles ==
  ASSUME ControlPairAssumption, Inv, PressInv, NEW n \in Machines, NEW j \in Inputs,
         Press(n, j) \/ Release(n, j)
  PROVE  PressInv'
<1>1. PICK way \in {"down", "up"} :
        /\ Hook(n, j, way, wire)
        /\ down' = [down EXCEPT ![n] = IF way = "down" THEN @ \cup {j} ELSE @ \ {j}]
  BY DEF Press, Release
<1>2. ASSUME NEW i \in Inputs, i \notin cut' PROVE Settled(wire, i)'
  <2>1. i \notin cut /\ Dialled /\ Shapes(wire)
    BY <1>1, <1>2 DEF Hook, Passes, Forwarded, Swallowed, Inv
  <2>2. Settled(wire, i)
    BY <2>1 DEF PressInv
  <2>3. CASE i = j
    <3>1. way = "down" => \A D \in SUBSET Machines : n \in D => ~Silent(wire, D, i)'
      BY <1>1, <2>1, <2>3 DEF Silent, Dialled
    <3>2. \A m \in Machines : m # n => (i \in down'[m] <=> i \in down[m])
      BY <1>1, <2>1 DEF Dialled
    <3> QED BY <1>1, <1>2, <2>1, <2>2, <2>3, <3>1, <3>2, HookSettles DEF Settled
  <2>4. CASE i # j
    <3>1. \A m \in Machines : i \in down'[m] <=> i \in down[m]
      BY <1>1, <2>1, <2>4 DEF Dialled
    <3> QED BY <1>1, <2>1, <2>2, <2>4, <3>1, HookOthers, OthersSettle DEF Dialled
  <2> QED BY <2>3, <2>4
<1> QED BY <1>2 DEF PressInv

LEMMA EventSettles ==
  ASSUME ControlPairAssumption, Inv, PressInv, NEW m \in Machines, NEW c \in Conns,
         HandleControlEvent(m, c)
  PROVE  PressInv'
<1>1. PICK e \in Events :
        /\ Arrived(m, c, e)
        /\ Hook(m, e.input, IF e.kind = "down" THEN "down" ELSE "up", Rest(c))
        /\ UNCHANGED down
  BY DEF HandleControlEvent
<1> DEFINE way == IF e.kind = "down" THEN "down" ELSE "up"
           v == Rest(c)
<1>2. /\ e # Leave /\ e.input \in Inputs /\ IsEvent(e) /\ way \in {"down", "up"}
  BY MessagesAre, KindsOfEvents
<1>3. Shapes(v) /\ Dialled /\ ends[c] # None /\ ends[c].to = m /\ ends[c] \in Ends
  BY <1>1, <1>2, RestKeeps DEF Inv, Arrived
<1>4. Hook(m, e.input, way, v)
  BY <1>1
<1>5. ASSUME NEW i \in Inputs, NEW d \in Conns
      PROVE  /\ Carries(v, d, i) => Carries(wire, d, i)
             /\ HasUp(v, d, i) => HasUp(wire, d, i)
             /\ HasUp(wire, d, i) => HasUp(v, d, i) \/ (d = c /\ IsUp(e, i))
             /\ Answered(wire, d, i) => Answered(v, d, i)
             /\ Of(e, i) => Carries(wire, c, i)
             /\ IsDown(e, i) /\ Answered(wire, c, i) => HasUp(wire, c, i)
  BY <1>1, RestTells
<1> HIDE DEF v, way
<1>6. ASSUME NEW i \in Inputs, i \notin cut' PROVE Settled(wire, i)'
  <2>1. cut \subseteq cut' /\ UNCHANGED <<session, ends>>
    BY <1>4 DEF Hook, Passes, Forwarded, Swallowed
  <2>2. Settled(wire, i)
    BY <1>6, <2>1 DEF PressInv
  <2>3. CASE i = e.input
    <3>1. Calm(v, i)
      BY <1>5, <2>2 DEF Settled, Calm
    <3>2. ASSUME NEW D \in SUBSET Machines, m \notin D, Silent(v, D, i) PROVE Still(v, D, i)
      <4>1. ASSUME NEW p \in Machines, NEW x \in D, Feeds(p, x, i)
            PROVE  p \in D /\ ~HasUp(wire, session[p], i)
        <5>1. p \in D /\ ~HasUp(v, session[p], i) /\ session[p] # c /\ session[p] \in Conns
          BY <1>3, <3>2, <4>1 DEF Silent, Feeds, Dialled
        <5> QED BY <1>5, <5>1
      <4>2. Silent(wire, D, i)
        BY <3>2, <4>1 DEF Silent
      <4>3. Still(wire, D, i)
        BY <2>2, <4>2 DEF Settled
      <4>4. ASSUME NEW n \in D
            PROVE  i \notin pressed[n] /\ (session[n] # None => Answered(v, session[n], i))
        <5>1. i \notin pressed[n] /\ (session[n] # None => Answered(wire, session[n], i))
          BY <4>3 DEF Still
        <5>2. session[n] # None => session[n] \in Conns
          BY <1>3 DEF Dialled
        <5> QED BY <1>5, <5>1, <5>2
      <4> QED BY <4>4 DEF Still
    \* A press that arrives has a cause among the machines that feed m.
    <3>3. ASSUME way = "down", NEW D \in SUBSET Machines, m \in D, Silent(wire, D, i)' PROVE FALSE
      <4>1. IsDown(e, i) /\ ~IsUp(e, i) /\ Of(e, i)
        BY <1>2, <2>3, <3>3 DEF way, IsDown, IsUp, Of
      <4>2. \A d \in Conns : HasUp(wire, d, i) => HasUp(wire', d, i)
        BY <1>3, <1>4, <1>5, <1>2, <4>1, HookAdds
      <4>3. Silent(wire, D, i)
        <5>1. \A x \in D : i \notin down[x]
          BY <1>1, <3>3 DEF Silent
        <5>2. ASSUME NEW p \in Machines, NEW x \in D, Feeds(p, x, i)
              PROVE  p \in D /\ ~HasUp(wire, session[p], i)
          <6>1. Feeds(p, x, i)'
            BY <2>1, <5>2 DEF Feeds, Captured
          <6>2. p \in D /\ ~HasUp(wire', session[p], i)
            BY <2>1, <3>3, <6>1 DEF Silent
          <6>3. session[p] \in Conns
            BY <1>3, <5>2 DEF Feeds, Dialled
          <6> QED BY <4>2, <6>2, <6>3
        <5> QED BY <5>1, <5>2 DEF Silent
      <4> DEFINE k == ends[c].from
      <4>4. k \in Machines /\ session[k] = c /\ Captured(k, i, "down") # {}
        BY <1>3, <1>5, <2>2, <4>1 DEF Settled, Calm, Ends
      <4>5. Feeds(k, m, i)
        BY <1>3, <4>4 DEF Feeds, ControlPairAssumption
      <4>6. k \in D /\ ~HasUp(wire, c, i)
        BY <3>3, <4>3, <4>4, <4>5 DEF Silent
      <4>7. Answered(wire, c, i)
        BY <2>2, <4>3, <4>4, <4>6 DEF Settled, Still, ControlPairAssumption
      <4> QED BY <1>5, <4>1, <4>6, <4>7
    <3>4. \A x \in Machines : x # m => (i \in down'[x] <=> i \in down[x])
      BY <1>1
    <3> QED BY <1>2, <1>3, <1>4, <1>6, <2>3, <3>1, <3>2, <3>3, <3>4, HookSettles
  <2>4. CASE i # e.input
    <3>1. ~IsUp(e, i)
      BY <2>4 DEF IsUp, Of
    <3> QED BY <1>1, <1>2, <1>3, <1>4, <1>5, <2>2, <2>4, <3>1, HookOthers, OthersSettle DEF Dialled
  <2> QED BY <2>3, <2>4
<1> QED BY <1>6 DEF PressInv

\* control.enter and control.leave press and release nothing.
LEMMA BannersSettle ==
  ASSUME ControlPairAssumption, Inv, PressInv, NEW m \in Machines, NEW c \in Conns,
         HandleControlEnter(m, c) \/ HandleControlLeave(m, c)
  PROVE  PressInv'
<1>1. PICK message \in {Enter, Leave} : Arrived(m, c, message)
  BY DEF HandleControlEnter, HandleControlLeave
<1>2. wire' = Rest(c) /\ UNCHANGED <<session, ends, down, pressed, cut>>
  BY DEF HandleControlEnter, HandleControlLeave
<1>3. ASSUME NEW i \in Inputs, i \notin cut' PROVE Settled(wire, i)'
  <2>1. Settled(wire, i) /\ session \in [Machines -> Conns \cup {None}]
    BY <1>2, <1>3 DEF PressInv, Inv, Dialled
  <2>2. ~IsUp(message, i)
    BY NoEvents DEF IsUp, Of
  <2> QED BY <1>1, <1>2, <2>1, <2>2, RestTells, OthersSettle
<1> QED BY <1>3 DEF PressInv

\* Sessions change: what is down or under way then is cut.
LEMMA SessionsSettle ==
  ASSUME ControlPairAssumption, Inv, Inv', PressInv,
         \/ \E n \in Machines : Stop(n) /\ pressed' = pressed
         \/ \E n, p \in Machines, c \in Conns : BeginControl(n, p, c)
         \/ \E c \in Conns : Break(c)
  PROVE  PressInv'
<1>1. ChangeHands /\ pressed' = pressed
  BY DEF Stop, BeginControl, Break
<1>2. ASSUME NEW i \in Inputs, NEW d \in Conns, Carries(wire', d, i) PROVE Carries(wire, d, i)
  <2>1. \A n \in Machines :
          /\ LeaveWritten(n) \in [Conns -> Seq(Messages)]
          /\ Carries(LeaveWritten(n), d, i) => Carries(wire, d, i)
    <3>1. ASSUME NEW n \in Machines, session[n] \in works
          PROVE  Carries(Push(wire, session[n], Leave), d, i) => Carries(wire, d, i)
      <4>1. session[n] \in Conns /\ wire \in [Conns -> Seq(Messages)] /\ ~Of(Leave, i)
        BY <3>1, NoEvents DEF Inv, Dialled, Shapes, Of
      <4> QED BY <4>1, MessagesAre, PushTells
    <3> QED BY <3>1, LeaveKeeps DEF LeaveWritten
  <2>2. CASE \E n \in Machines : Stop(n)
    BY <1>2, <2>1, <2>2 DEF Stop
  <2>3. ASSUME NEW n \in Machines, NEW p \in Machines, NEW c \in Conns, BeginControl(n, p, c)
        PROVE  Carries(wire, d, i)
    <3>1. wire' = Push(LeaveWritten(n), c, Enter) /\ ~Of(Enter, i)
      BY <2>3, NoEvents DEF BeginControl, Of
    <3>2. Carries(LeaveWritten(n), d, i)
      BY <1>2, <2>1, <3>1, MessagesAre, PushTells
    <3> QED BY <2>1, <3>2
  <2>4. ASSUME NEW c \in Conns, Break(c) PROVE Carries(wire, d, i)
    <3>1. PICK k \in 0..Len(wire[c]) : wire' = [wire EXCEPT ![c] = SubSeq(@, 1, k)]
      BY <2>4 DEF Break
    <3>2. wire[c] \in Seq(Messages) /\ wire \in [Conns -> Seq(Messages)] /\ Len(wire[c]) \in Nat
      BY DEF Inv, Shapes
    <3>3. /\ DOMAIN SubSeq(wire[c], 1, k) = 1..k /\ DOMAIN wire[c] = 1..Len(wire[c])
          /\ \A j \in 1..k : SubSeq(wire[c], 1, k)[j] = wire[c][j] /\ j \in 1..Len(wire[c])
      BY <3>1, <3>2
    <3>4. CASE d = c
      BY <1>2, <3>1, <3>2, <3>3, <3>4 DEF Carries
    <3>5. CASE d # c
      BY <1>2, <3>1, <3>2, <3>5 DEF Carries
    <3> QED BY <3>4, <3>5
  <2> QED BY <2>2, <2>3, <2>4
<1>3. ASSUME NEW i \in Inputs, i \notin cut' PROVE Settled(wire, i)'
  <2>1. i \notin Unsettled
    BY <1>1, <1>3 DEF ChangeHands
  <2> QED BY <1>1, <1>2, <2>1, ChangeSettles DEF Inv, Dialled
<1> QED BY <1>3 DEF PressInv

LEMMA PressInvInit == ASSUME ControlPairAssumption, Init PROVE PressInv
<1>1. \A c \in Conns, i \in Inputs : ~Carries(wire, c, i)
  BY DEF Init, Carries
<1>2. \A n \in Machines : pressed[n] = {} /\ session[n] = None
  BY DEF Init
<1> QED BY <1>1, <1>2 DEF PressInv, Settled, Calm, Still

LEMMA PressInvStep ==
  ASSUME ControlPairAssumption, Inv, Inv', PressInv, [Next]_vars
  PROVE  PressInv'
<1>1. ASSUME NEW n \in Machines, User(n) PROVE PressInv'
  <2>1. CASE StopControl(n)
    BY <2>1, SessionsSettle DEF StopControl
  <2>2. CASE \E p \in Machines, c \in Conns : BeginControl(n, p, c)
    BY <2>2, SessionsSettle
  <2>3. ASSUME NEW i \in Inputs, Press(n, i) \/ Release(n, i) PROVE PressInv'
    BY <2>3, HandSettles
  <2>4. ASSUME NEW i \in Inputs, ForwardFails(n, i) PROVE PressInv'
    BY <2>4, SessionsSettle DEF ForwardFails
  <2> QED BY <1>1, <2>1, <2>2, <2>3, <2>4 DEF User
<1>2. ASSUME NEW c \in Conns, Break(c) PROVE PressInv'
  BY <1>2, SessionsSettle
<1>3. ASSUME NEW c \in Conns, NEW m \in Machines, Receive(m, c) PROVE PressInv'
  BY <1>3, BannersSettle, EventSettles DEF Receive
<1>4. CASE UNCHANGED vars
  <2>1. UNCHANGED <<session, ends, wire, down, pressed, cut>>
    BY <1>4 DEF vars, netVars
  <2>2. \A i \in Inputs : Settled(wire, i) => Settled(wire, i)'
    BY <2>1, OthersSettle DEF Inv, Dialled
  <2> QED BY <2>1, <2>2 DEF PressInv
<1> QED BY <1>1, <1>2, <1>3, <1>4 DEF Next

-----------------------------------------------------------------------------
(* The theorems                                                            *)

LEMMA InvInit == ASSUME ControlPairAssumption, Init PROVE Inv
<1>1. Dialled
  BY DEF Init, Dialled
<1>2. Shapes(wire)
  <2>1. \A c \in Conns : wire[c] = << >> /\ Len(wire[c]) = 0
    BY DEF Init
  <2>2. wire \in [Conns -> Seq(Messages)] /\ 0 <= MaxWire + 1
    BY DEF Init, ControlPairAssumption
  <2> QED BY <2>1, <2>2 DEF Shapes, Init
<1>3. Told(wire)
  <2>1. ASSUME NEW m \in Machines, NEW n \in Machines
        PROVE  banner[m] # [peer |-> n, mode |-> "receiving"]
    <3>1. [peer |-> n, mode |-> "receiving"] \in Banners
      BY DEF Banners
    <3> QED BY <3>1 DEF Init, ControlPairAssumption
  <2> QED BY <2>1 DEF Told, Init
<1> QED BY <1>1, <1>2, <1>3 DEF Inv

LEMMA InvStep == ASSUME ControlPairAssumption, Inv, [Next]_vars PROVE Inv'
<1>1. ASSUME NEW n \in Machines, User(n) PROVE Inv'
  <2>1. CASE StopControl(n)
    BY <2>1, StopKeeps DEF StopControl, Inv, Dialled
  <2>2. ASSUME NEW p \in Machines, NEW c \in Conns, BeginControl(n, p, c) PROVE Inv'
    BY <2>2, BeginKeeps
  <2>3. ASSUME NEW i \in Inputs, Press(n, i) PROVE Inv'
    <3>1. Hook(n, i, "down", wire) /\ down' \in [Machines -> SUBSET Inputs]
      BY <2>3 DEF Press, Inv, Dialled
    <3> QED BY <3>1, HookKeeps DEF Inv
  <2>4. ASSUME NEW i \in Inputs, Release(n, i) PROVE Inv'
    <3>1. Hook(n, i, "up", wire) /\ down' \in [Machines -> SUBSET Inputs]
      BY <2>4 DEF Release, Inv, Dialled
    <3> QED BY <3>1, HookKeeps DEF Inv
  <2>5. ASSUME NEW i \in Inputs, ForwardFails(n, i) PROVE Inv'
    <3>1. Stop(n) /\ down' \in [Machines -> SUBSET Inputs] /\ pressed' = pressed
      BY <2>5 DEF ForwardFails, Inv, Dialled
    <3> QED BY <3>1, StopKeeps
  <2> QED BY <1>1, <2>1, <2>2, <2>3, <2>4, <2>5 DEF User
<1>2. ASSUME NEW c \in Conns, Break(c) PROVE Inv'
  BY <1>2, BreakKeeps
<1>3. ASSUME NEW c \in Conns, NEW m \in Machines, Receive(m, c) PROVE Inv'
  BY <1>3, EnterKeeps, LeaveHandled, EventKeeps DEF Receive
<1>4. CASE UNCHANGED vars
  BY <1>4 DEF vars, netVars, Inv, Dialled, Shapes, Told, Accounted, EndsInLeave
<1> QED BY <1>1, <1>2, <1>3, <1>4 DEF Next

\* The inductive invariant: every session has a connection its machine dialled,
\* with room for a control.leave, and every connection that still carries a
\* message, or is named by a banner, is that of a session, broken, muted, or
\* ends in the control.leave that clears the banner.
THEOREM PairInvariant == Spec => []Inv
<1>1. Init => Inv
  BY InvInit, ControlPairAssumption
<1>2. Inv /\ [Next]_vars => Inv'
  BY InvStep, ControlPairAssumption
<1> QED BY <1>1, <1>2, PTL DEF Spec

\* ControlPair is type correct for any machines, platforms, inputs and
\* connections: no connection ever carries more than MaxWire + 1 messages.
THEOREM PairTypeCorrect == Spec => []TypeOK
<1>1. Inv => TypeOK
  BY DEF Inv, Dialled, Shapes, TypeOK
<1> QED BY <1>1, PairInvariant, PTL

\* A machine says that another controls it no longer than that is so, but for a
\* connection that broke and a controller whose banner was taken: whatever the
\* number of machines and however their sessions, stops and messages interleave.
THEOREM BannerEnds == Spec => []BannerEndsWithControl
<1>1. ASSUME Inv, Quiet, NEW m \in Machines, NEW n \in Machines,
             banner[m] = [peer |-> n, mode |-> "receiving"]
      PROVE  \E c \in Conns :
               /\ ends[c] = [from |-> n, to |-> m]
               /\ session[n] = c \/ c \notin works \/ c \in muted
  <2>1. PICK c \in Conns : ends[c] = [from |-> n, to |-> m] /\ Accounted(wire, c)
    BY <1>1 DEF Inv, Told
  <2>2. ~EndsInLeave(wire, c) /\ ends[c].from = n
    BY <1>1, <2>1 DEF Quiet, EndsInLeave
  <2> QED BY <2>1, <2>2 DEF Accounted
<1>2. Inv => BannerEndsWithControl
  BY <1>1 DEF BannerEndsWithControl
<1> QED BY <1>2, PairInvariant, PTL

\* Nothing stays pressed: however many machines control each other, in chains and
\* circles, and however their messages interleave, when no finger is down and
\* everything sent has been handled no machine takes an input to be down, unless
\* it was down somewhere when control changed hands or an event was lost.
THEOREM NothingIsLeftPressed == Spec => []NothingStaysPressed
<1>1. Init => Inv /\ PressInv
  BY InvInit, PressInvInit, ControlPairAssumption
<1>2. Inv /\ PressInv /\ [Next]_vars => (Inv /\ PressInv)'
  BY InvStep, PressInvStep, ControlPairAssumption
<1>3. Inv /\ PressInv => NothingStaysPressed
  <2> SUFFICES ASSUME Inv, PressInv, Quiet, \A n \in Machines : down[n] = {},
                      NEW n \in Machines, NEW i \in pressed[n], i \notin cut
               PROVE  FALSE
    BY DEF NothingStaysPressed
  <2>1. i \in Inputs
    BY DEF Inv, Dialled
  <2>2. Silent(wire, Machines, i)
    <3>1. \A c \in Conns : ~HasUp(wire, c, i)
      BY DEF Quiet, HasUp
    <3>2. \A p, m \in Machines : Feeds(p, m, i) => ~HasUp(wire, session[p], i)
      BY <3>1 DEF Feeds, Inv, Dialled
    <3> QED BY <3>2 DEF Silent
  <2>3. Still(wire, Machines, i)
    BY <2>1, <2>2 DEF PressInv, Settled
  <2> QED BY <2>3 DEF Still
<1> QED BY <1>1, <1>2, <1>3, PTL DEF Spec
=============================================================================
