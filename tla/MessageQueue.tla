---------------------------- MODULE MessageQueue ----------------------------
(***************************************************************************)
(* What the code takes a connection to be: whole messages, received in the *)
(* order they were sent in, each once.  Messages are numbered.             *)
(***************************************************************************)
EXTENDS Naturals, Sequences

VARIABLES
  sent,     \* how many messages have been sent
  received  \* the messages received, in order

Init == sent = 0 /\ received = << >>

Send == sent' = sent + 1 /\ UNCHANGED received

Receive ==
  /\ Len(received) < sent
  /\ received' = Append(received, Len(received) + 1)
  /\ UNCHANGED sent

Next == Send \/ Receive

Spec == Init /\ [][Next]_<<sent, received>>
=============================================================================
