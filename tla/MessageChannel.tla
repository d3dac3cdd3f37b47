--------------------------- MODULE MessageChannel ---------------------------
(***************************************************************************)
(* Messages over a TLS connection, one direction (writeMessage, readPayload *)
(* and handleConn of internal/app/service.go).                             *)
(*                                                                         *)
(* A message is encoded as a JSON value and a newline and handed to the     *)
(* connection in one Write, which turns it into one or more TLS records.   *)
(* The reader makes a new decoder for every message.  A decoder reads what *)
(* it can get, at most one record at a time, until it holds a whole value; *)
(* what it has read beyond the value is lost with it.                      *)
(*                                                                         *)
(* The stream is modelled by positions: how many bytes have been written,  *)
(* at which of them records and messages end, how many have been read.     *)
(***************************************************************************)
EXTENDS Integers, Sequences

CONSTANTS
  Sizes,       \* bytes of an encoded message, with its newline
  MaxRecord,   \* bytes a TLS record holds at most
  MaxRead,     \* bytes a decoder asks for at most
  MaxMessages  \* bounds the number of messages

ASSUME MessageChannelAssumption ==
  /\ Sizes \subseteq Nat /\ \A size \in Sizes : size >= 2
  /\ MaxRecord \in Nat \ {0} /\ MaxRead \in Nat \ {0}
  /\ MaxMessages \in Nat

VARIABLES
  ends,      \* ends[k]: where message k ends in the stream
  out,       \* bytes put into records
  cuts,      \* where records end
  start,     \* where the reader's decoder began
  pos,       \* bytes its decoders have read
  received,  \* the messages it has decoded, by number
  up         \* the connection works

vars == <<ends, out, cuts, start, pos, received, up>>

Sent == Len(ends)
End(k) == IF k = 0 THEN 0 ELSE ends[k]

Init ==
  /\ ends = << >> /\ out = 0 /\ cuts = {}
  /\ start = 0 /\ pos = 0 /\ received = << >>
  /\ up = TRUE

-----------------------------------------------------------------------------
(* writeMessage                                                            *)

\* Encode hands the message to Write; tls.Conn lets one Write in at a time,
\* whichever goroutines write.
BeginWrite(size) ==
  /\ up /\ out = End(Sent) /\ Sent < MaxMessages
  /\ ends' = Append(ends, End(Sent) + size)
  /\ UNCHANGED <<out, cuts, start, pos, received, up>>

\* Bug: the records of a buffered writer, filled over the ends of messages.
WriteRecord_Buffered ==
  /\ up /\ out < End(Sent)
  /\ \E n \in 1..MaxRecord :
       /\ out + n <= End(Sent) /\ out' = out + n
       /\ cuts' = IF n = MaxRecord \/ Sent = MaxMessages THEN cuts \cup {out + n} ELSE cuts
  /\ UNCHANGED <<ends, start, pos, received, up>>

\* The next record of the message, of any length: Write sizes records as it
\* likes, and none goes beyond what it was given.
WriteRecord ==
  /\ up /\ out < End(Sent)
  /\ \E n \in 1..MaxRecord :
       /\ out + n <= End(Sent) /\ out' = out + n
       /\ cuts' = cuts \cup {out + n}
  /\ UNCHANGED <<ends, start, pos, received, up>>

-----------------------------------------------------------------------------
(* Decode                                                                  *)

\* The decoder begins with message k, or with the newline of the one before.
BeginsWith(k) == start = End(k - 1) \/ (k > 1 /\ start = End(k - 1) - 1)

\* It holds all of message k but for the newline.
Holds(k) == BeginsWith(k) /\ pos >= End(k) - 1

\* Bug: a decoder reads ahead before it looks at what it holds.
ReadBytes_Ahead ==
  /\ pos < out
  /\ \E to \in (pos + 1)..out :
       /\ to <= pos + MaxRead /\ \A c \in cuts : ~(pos < c /\ c < to)
       /\ pos' = to
  /\ UNCHANGED <<ends, out, cuts, start, received, up>>

\* A Read of tls.Conn returns bytes of one record.
ReadBytes ==
  /\ ~\E k \in 1..Sent : Holds(k)
  /\ \E to \in (pos + 1)..out :
       /\ to <= pos + MaxRead /\ \A c \in cuts : ~(pos < c /\ c < to)
       /\ pos' = to
  /\ UNCHANGED <<ends, out, cuts, start, received, up>>

\* Bug: the next decoder is taken to begin with the next message.
Decode_SkipsNewline(k) ==
  /\ Holds(k)
  /\ received' = Append(received, k)
  /\ start' = End(k)
  /\ UNCHANGED <<ends, out, cuts, pos, up>>

\* The message is handled and the decoder dropped, with all it holds.  A
\* decoder that began in the middle of a message would find no value.
Decode(k) ==
  /\ Holds(k)
  /\ received' = Append(received, k)
  /\ start' = pos
  /\ UNCHANGED <<ends, out, cuts, pos, up>>

\* The connection breaks: what has not been read may be lost.
Break ==
  /\ up /\ up' = FALSE
  /\ \E n \in pos..out : out' = n /\ cuts' = {c \in cuts : c <= n}
  /\ UNCHANGED <<ends, start, pos, received>>

-----------------------------------------------------------------------------
Read == ReadBytes \/ \E k \in 1..Sent : Decode(k)

Next ==
  \/ \E size \in Sizes : BeginWrite(size)
  \/ WriteRecord \/ Read \/ Break

Spec == Init /\ [][Next]_vars

\* A goroutine in a Write goes on, and so does the one that reads.
FairSpec == Spec /\ WF_vars(WriteRecord) /\ WF_vars(Read)

-----------------------------------------------------------------------------
(* Properties                                                              *)

\* Every variable holds values of the type it stands for.
TypeOK ==
  /\ ends \in Seq(Nat) /\ Sent <= MaxMessages
  /\ out \in 0..End(Sent) /\ pos \in 0..out /\ start \in 0..pos
  /\ cuts \subseteq 1..out
  /\ received \in Seq(1..Sent)
  /\ up \in BOOLEAN

\* The connection is the queue of whole messages the handlers take it to be:
\* no message is skipped, cut or mixed with another, although each has a
\* decoder of its own that drops what it has read beyond it.
Queue == INSTANCE MessageQueue WITH sent <- Sent
IsQueue == Queue!Spec

\* What is sent arrives unless the connection breaks: no decoder swallows the
\* beginning of the message after its own.
AllArrive == \A k \in 1..MaxMessages : (Sent >= k) ~> (Len(received) >= k \/ ~up)
=============================================================================
