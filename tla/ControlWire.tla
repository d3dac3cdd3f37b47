---------------------------- MODULE ControlWire ----------------------------
(***************************************************************************)
(* What one control connection promises the machine at its far end,        *)
(* whatever the threads of the near end do: it is dialled, it opens with   *)
(* control.enter, carries any number of control.event messages, at most    *)
(* one control.leave, and is closed once, after which nothing is written.  *)
(* Each event was computed for the machine it is sent to.  ControlSession  *)
(* implements this specification.                                          *)
(***************************************************************************)
EXTENDS Naturals, Sequences

CONSTANTS Peers, Conns, None

VARIABLES
  link,     \* link[c]: "unused", "open" or "closed"
  dest,     \* dest[c]: the machine connection c was dialled to
  wire      \* wire[c]: what was written on c, a run of equal events being one

vars == <<link, dest, wire>>

Enter(p) == [kind |-> "control.enter", peer |-> p]
Event(p) == [kind |-> "control.event", peer |-> p]
Leave(p) == [kind |-> "control.leave", peer |-> p]

\* The wire w with message m written: a repeated event leaves it as it is.
Say(w, m) == IF w # << >> /\ w[Len(w)] = m THEN w ELSE Append(w, m)

Entered(c) == wire[c] # << >>
Left(c) == \E i \in 1..Len(wire[c]) : wire[c][i].kind = "control.leave"

Init ==
  /\ link = [c \in Conns |-> "unused"]
  /\ dest = [c \in Conns |-> None]
  /\ wire = [c \in Conns |-> << >>]

Dial(c, p) ==
  /\ link[c] = "unused"
  /\ link' = [link EXCEPT ![c] = "open"]
  /\ dest' = [dest EXCEPT ![c] = p]
  /\ UNCHANGED wire

WriteEnter(c) ==
  /\ link[c] = "open"
  /\ ~Entered(c)
  /\ wire' = [wire EXCEPT ![c] = << Enter(dest[c]) >>]
  /\ UNCHANGED <<link, dest>>

WriteEvent(c) ==
  /\ link[c] = "open"
  /\ Entered(c)
  /\ wire' = [wire EXCEPT ![c] = Say(@, Event(dest[c]))]
  /\ UNCHANGED <<link, dest>>

WriteLeave(c) ==
  /\ link[c] = "open"
  /\ Entered(c)
  /\ ~Left(c)
  /\ wire' = [wire EXCEPT ![c] = Say(@, Leave(dest[c]))]
  /\ UNCHANGED <<link, dest>>

Close(c) ==
  /\ link[c] = "open"
  /\ link' = [link EXCEPT ![c] = "closed"]
  /\ UNCHANGED <<dest, wire>>

Next ==
  \E c \in Conns :
    \/ \E p \in Peers : Dial(c, p)
    \/ WriteEnter(c)
    \/ WriteEvent(c)
    \/ WriteLeave(c)
    \/ Close(c)

Spec == Init /\ [][Next]_vars
=============================================================================
