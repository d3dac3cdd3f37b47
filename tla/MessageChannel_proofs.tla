----------------------- MODULE MessageChannel_proofs -----------------------
(***************************************************************************)
(* Proof that a connection is a queue of whole messages, for any sizes of  *)
(* messages, records and reads.                                            *)
(***************************************************************************)
EXTENDS MessageChannel, SequenceTheorems, TLAPS

N == Len(received)

Positions ==
  /\ ends \in Seq(Nat) /\ \A k \in 1..Sent : End(k) \in Nat
  /\ \A j, k \in 0..Sent : j < k => End(j) + 2 <= End(k)
  /\ out \in Nat /\ out <= End(Sent) /\ pos \in Nat /\ pos <= out
  /\ start \in Nat /\ start <= pos
  /\ cuts \subseteq Nat /\ \A c \in cuts : 0 < c /\ c <= out
  /\ up \in BOOLEAN

\* A message that has been written ends with a record, and only the last one is
\* being written.
Written ==
  /\ up => \A k \in 0..Sent : k < Sent => End(k) <= out
  /\ \A k \in 1..Sent : End(k) <= out => End(k) \in cuts

\* The reader has not gone beyond the message after the last one it decoded.
Reader ==
  /\ received \in Seq(Nat) /\ N <= Sent /\ Sent <= MaxMessages
  /\ \A k \in 1..N : received[k] = k
  /\ start = End(N) \/ (N > 0 /\ start = End(N) - 1)
  /\ IF N < Sent THEN pos <= End(N + 1) ELSE pos <= End(N)

Inv == Positions /\ Written /\ Reader

LEMMA EndsAreNatural ==
  ASSUME Positions PROVE Sent \in Nat /\ \A k \in 0..Sent : End(k) \in Nat
<1>1. Sent \in Nat
  BY DEF Positions, Sent
<1>2. ASSUME NEW k \in 0..Sent PROVE End(k) \in Nat
  BY <1>1, <1>2 DEF Positions, End
<1> QED BY <1>1, <1>2

LEMMA NextOnly ==
  ASSUME Inv, NEW k \in 1..Sent, BeginsWith(k)
  PROVE  k = N + 1
<1>1. N \in Nat /\ Sent \in Nat /\ k - 1 \in 0..Sent /\ N \in 0..Sent
  BY EndsAreNatural DEF Inv, Reader, N
<1>2. End(k - 1) \in Nat /\ End(N) \in Nat
  BY <1>1, EndsAreNatural DEF Inv
<1>3. End(k - 1) - End(N) \in {-1, 0, 1}
  BY <1>1, <1>2 DEF BeginsWith, Inv, Reader
<1>4. ~(k - 1 < N)
  <2> SUFFICES ASSUME k - 1 < N PROVE FALSE
    OBVIOUS
  <2>1. End(k - 1) + 2 <= End(N)
    BY <1>1 DEF Inv, Positions
  <2> QED BY <2>1, <1>2, <1>3
<1>5. ~(N < k - 1)
  <2> SUFFICES ASSUME N < k - 1 PROVE FALSE
    OBVIOUS
  <2>1. End(N) + 2 <= End(k - 1)
    BY <1>1 DEF Inv, Positions
  <2> QED BY <2>1, <1>2, <1>3
<1> QED BY <1>1, <1>4, <1>5

LEMMA NextBegins ==
  ASSUME Inv, N < Sent PROVE N + 1 \in 1..Sent /\ BeginsWith(N + 1)
<1>1. N \in Nat /\ Sent \in Nat
  BY EndsAreNatural DEF Inv, Reader, N
<1> QED BY <1>1 DEF BeginsWith, Inv, Reader

-----------------------------------------------------------------------------
LEMMA BeginWriteKeeps ==
  ASSUME MessageChannelAssumption, Inv, NEW size \in Sizes, BeginWrite(size)
  PROVE  Inv' /\ Sent' = Sent + 1 /\ received' = received
<1>0. PICK n \in Nat : n = Sent
  BY EndsAreNatural DEF Inv
<1> DEFINE e == End(n) + size
<1>1. End(n) \in Nat /\ size \in Nat /\ size >= 2 /\ e \in Nat /\ e >= End(n) + 2
  BY <1>0, EndsAreNatural DEF Inv, MessageChannelAssumption
<1>2. ends \in Seq(Nat) /\ Len(ends) = n
  BY <1>0 DEF Inv, Positions, Sent
<1>3. ends' = Append(ends, e) /\ out = End(n) /\ n < MaxMessages
  BY <1>0 DEF BeginWrite
<1> HIDE DEF e
<1>4. /\ ends' \in Seq(Nat) /\ Len(ends') = n + 1
      /\ \A k \in 1..n : ends'[k] = ends[k]
      /\ ends'[n + 1] = e
  BY <1>1, <1>2, <1>3
<1>5. Sent' = n + 1 /\ End(n + 1)' = e
  <2>1. n + 1 # 0
    BY <1>0
  <2>2. End(n + 1)' = ends'[n + 1]
    BY <2>1 DEF End
  <2> QED BY <2>2, <1>4 DEF Sent
<1>6. ASSUME NEW k \in 0..n PROVE End(k)' = End(k) /\ End(k) \in Nat
  BY <1>0, <1>4, EndsAreNatural DEF End, Inv
<1>7. ASSUME NEW k \in 0..n PROVE End(k) <= End(n)
  <2>1. CASE k = n
    BY <2>1, <1>1
  <2>2. CASE k < n
    <3>1. End(k) \in Nat /\ End(k) + 2 <= End(n)
      BY <2>2, <1>0, <1>6 DEF Inv, Positions
    <3> QED BY <3>1, <1>1
  <2> QED BY <2>1, <2>2
<1>8. UNCHANGED <<out, cuts, start, pos, received, up>>
  BY DEF BeginWrite
<1>9. Positions'
  <2>1. ASSUME NEW k \in 1..(n + 1) PROVE End(k)' \in Nat
    <3>1. k \in 0..n \/ k = n + 1
      OBVIOUS
    <3> QED BY <3>1, <1>1, <1>5, <1>6
  <2>2. ASSUME NEW j \in 0..(n + 1), NEW k \in 0..(n + 1), j < k PROVE End(j)' + 2 <= End(k)'
    <3>1. j \in 0..n /\ (k \in 0..n \/ k = n + 1)
      BY <2>2
    <3>2. CASE k \in 0..n
      BY <3>1, <3>2, <2>2, <1>0, <1>6 DEF Inv, Positions
    <3>3. CASE k = n + 1
      BY <3>1, <3>3, <1>1, <1>5, <1>6, <1>7
    <3> QED BY <3>1, <3>2, <3>3
  <2>3. out' <= End(n + 1)'
    BY <1>1, <1>3, <1>5, <1>8
  <2> QED BY <1>4, <1>5, <1>8, <2>1, <2>2, <2>3 DEF Positions, Inv
<1>10. Written'
  <2>1. ASSUME NEW k \in 0..(n + 1), k < n + 1 PROVE End(k)' <= out'
    BY <2>1, <1>3, <1>6, <1>7, <1>8
  <2>2. ASSUME NEW k \in 1..(n + 1), End(k)' <= out' PROVE End(k)' \in cuts'
    <3>1. k \in 1..n
      BY <2>2, <1>1, <1>3, <1>5, <1>8
    <3> QED BY <3>1, <2>2, <1>0, <1>6, <1>8 DEF Inv, Written
  <2> QED BY <1>5, <2>1, <2>2 DEF Written
<1>11. Reader'
  <2>1. N' = N /\ N \in 0..n
    BY <1>0, <1>8 DEF N, Inv, Reader
  <2>2. PICK r \in 0..n : r = N
    BY <2>1
  <2>3. End(r)' = End(r) /\ pos <= End(r + 1)'
    <3>1. CASE r < n
      BY <3>1, <2>2, <1>0, <1>6 DEF Inv, Reader
    <3>2. CASE r = n
      BY <3>2, <1>0, <1>1, <1>3, <1>5, <1>6 DEF Inv, Positions
    <3> QED BY <3>1, <3>2, <2>2, <1>6
  <2>4. r < n + 1 /\ n + 1 <= MaxMessages
    BY <2>2, <1>3 DEF MessageChannelAssumption
  <2> QED BY <2>1, <2>2, <2>3, <2>4, <1>5, <1>8 DEF Reader, Inv
<1> QED BY <1>0, <1>5, <1>8, <1>9, <1>10, <1>11 DEF Inv

LEMMA WriteRecordKeeps ==
  ASSUME MessageChannelAssumption, Inv, WriteRecord
  PROVE  Inv' /\ Sent' = Sent /\ received' = received
<1>1. PICK n \in 1..MaxRecord :
        out + n <= End(Sent) /\ out' = out + n /\ cuts' = cuts \cup {out + n}
  BY DEF WriteRecord
<1>2. Sent \in Nat /\ End(Sent) \in Nat /\ n \in Nat /\ n > 0 /\ out \in Nat
  BY EndsAreNatural DEF Inv, Positions, MessageChannelAssumption
<1>3. ends' = ends /\ Sent' = Sent /\ up /\ up' = up /\ \A k : End(k)' = End(k)
  BY DEF WriteRecord, Sent, End
<1>4. Positions'
  BY <1>1, <1>2, <1>3 DEF Inv, Positions, WriteRecord
<1>5. Written'
  <2>1. ASSUME NEW k \in 0..Sent, k < Sent PROVE End(k) <= out'
    BY <1>1, <1>2, <1>3, <2>1, EndsAreNatural DEF Inv, Written
  <2>2. ASSUME NEW k \in 1..Sent, End(k) <= out' PROVE End(k) \in cuts'
    <3>1. CASE End(k) <= out
      BY <3>1, <1>1 DEF Inv, Written
    <3>2. CASE End(k) > out
      <4>1. k = Sent
        BY <3>2, <1>2, <1>3, EndsAreNatural DEF Inv, Written
      <4> QED BY <4>1, <1>1, <1>2, <2>2
    <3> QED BY <3>1, <3>2, <1>2, EndsAreNatural DEF Inv
  <2> QED BY <1>3, <2>1, <2>2 DEF Written
<1>6. Reader'
  BY <1>3 DEF Inv, Reader, N, WriteRecord
<1> QED BY <1>3, <1>4, <1>5, <1>6 DEF Inv, WriteRecord

LEMMA ReadBytesKeeps ==
  ASSUME MessageChannelAssumption, Inv, ReadBytes
  PROVE  Inv' /\ Sent' = Sent /\ received' = received
<1>1. PICK to \in (pos + 1)..out : (\A c \in cuts : ~(pos < c /\ c < to)) /\ pos' = to
  BY DEF ReadBytes
<1>2. /\ ends' = ends /\ Sent' = Sent /\ N' = N /\ \A k : End(k)' = End(k)
      /\ out' = out /\ cuts' = cuts /\ start' = start /\ received' = received /\ up' = up
  BY DEF ReadBytes, Sent, End, N
<1>3. N \in Nat /\ Sent \in Nat /\ pos \in Nat /\ out \in Nat /\ to \in Nat /\ N <= Sent
      /\ pos < to /\ to <= out
  BY <1>1, EndsAreNatural DEF Inv, Reader, N, Positions
<1>4. Positions' /\ Written'
  BY <1>1, <1>2, <1>3 DEF Inv, Positions, Written
<1>5. CASE N < Sent
  <2>1. N + 1 \in 1..Sent /\ BeginsWith(N + 1) /\ End(N + 1) \in Nat
    BY <1>3, <1>5, NextBegins, EndsAreNatural DEF Inv
  <2>2. pos < End(N + 1) - 1
    BY <2>1, <1>3 DEF ReadBytes, Holds
  <2>3. to <= End(N + 1)
    <3> SUFFICES ASSUME to > End(N + 1) PROVE FALSE
      BY <1>3, <2>1
    <3>1. End(N + 1) \in cuts
      BY <1>3, <2>1 DEF Inv, Written
    <3> QED BY <3>1, <2>1, <2>2, <1>1, <1>3
  <2> QED BY <1>1, <1>2, <1>4, <1>5, <2>3 DEF Inv, Reader
<1>6. CASE N = Sent
  <2>1. to <= End(N)
    BY <1>3, <1>6, EndsAreNatural DEF Inv, Positions
  <2> QED BY <1>1, <1>2, <1>3, <1>4, <1>6, <2>1 DEF Inv, Reader
<1> QED BY <1>2, <1>3, <1>5, <1>6

LEMMA DecodeKeeps ==
  ASSUME MessageChannelAssumption, Inv, NEW k \in 1..Sent, Decode(k)
  PROVE  /\ Inv' /\ Sent' = Sent
         /\ N < Sent /\ received' = Append(received, N + 1)
<1>1. k = N + 1 /\ N \in Nat /\ Sent \in Nat /\ N < Sent /\ received \in Seq(Nat)
  <2>1. k = N + 1
    BY NextOnly DEF Decode, Holds
  <2> QED BY <2>1, EndsAreNatural DEF Inv, Reader, N
<1>2. /\ received' = Append(received, N + 1) /\ start' = pos
      /\ ends' = ends /\ Sent' = Sent /\ \A j : End(j)' = End(j)
      /\ out' = out /\ cuts' = cuts /\ pos' = pos /\ up' = up
  BY <1>1 DEF Decode, Sent, End
<1>3. /\ received' \in Seq(Nat) /\ N' = N + 1
      /\ \A j \in 1..(N + 1) : received'[j] = j
  BY <1>1, <1>2 DEF Inv, Reader, N
<1>4. Positions' /\ Written'
  BY <1>2 DEF Inv, Positions, Written
<1>5. End(N + 1) \in Nat /\ pos \in Nat /\ pos >= End(N + 1) - 1 /\ pos <= End(N + 1)
  BY <1>1, EndsAreNatural DEF Inv, Positions, Reader, Decode, Holds
<1>6. IF N + 1 < Sent THEN pos <= End(N + 1 + 1) ELSE pos <= End(N + 1)
  <2>1. CASE N + 1 < Sent
    <3>1. N + 1 \in 0..Sent /\ N + 1 + 1 \in 0..Sent /\ N + 1 < N + 1 + 1
      BY <1>1, <2>1
    <3>2. End(N + 1) + 2 <= End(N + 1 + 1) /\ End(N + 1 + 1) \in Nat
      BY <3>1, EndsAreNatural DEF Inv, Positions
    <3> QED BY <3>2, <1>5, <2>1
  <2> QED BY <2>1, <1>5
<1>7. Reader'
  BY <1>1, <1>2, <1>3, <1>5, <1>6 DEF Inv, Reader
<1> QED BY <1>1, <1>2, <1>4, <1>7 DEF Inv

LEMMA BreakKeeps ==
  ASSUME MessageChannelAssumption, Inv, Break
  PROVE  Inv' /\ Sent' = Sent /\ received' = received
<1>1. PICK n \in pos..out : out' = n /\ cuts' = {c \in cuts : c <= n}
  BY DEF Break
<1>2. /\ ends' = ends /\ Sent' = Sent /\ N' = N /\ \A k : End(k)' = End(k)
      /\ pos' = pos /\ start' = start /\ received' = received /\ up' = FALSE
  BY DEF Break, Sent, End, N
<1>3. Sent \in Nat /\ pos \in Nat /\ out \in Nat /\ n \in Nat /\ End(Sent) \in Nat
  BY <1>1, EndsAreNatural DEF Inv, Positions
<1>4. Positions'
  <2>1. cuts' \subseteq Nat /\ \A c \in cuts' : 0 < c /\ c <= out'
    BY <1>1 DEF Inv, Positions
  <2>2. out' \in Nat /\ out' <= End(Sent) /\ pos <= out'
    BY <1>1, <1>3 DEF Inv, Positions
  <2>3. \A k \in 1..Sent : End(k)' \in Nat
    BY <1>2 DEF Inv, Positions
  <2>4. \A j, k \in 0..Sent : j < k => End(j)' + 2 <= End(k)'
    BY <1>2 DEF Inv, Positions
  <2>5. End(Sent)' = End(Sent)
    BY <1>2 DEF Sent, End
  <2> QED BY <1>2, <2>1, <2>2, <2>3, <2>4, <2>5 DEF Inv, Positions
<1>5. Written'
  BY <1>1, <1>2, <1>3, EndsAreNatural DEF Inv, Written
<1>6. Reader'
  BY <1>2 DEF Inv, Reader
<1> QED BY <1>2, <1>4, <1>5, <1>6 DEF Inv

-----------------------------------------------------------------------------
\* The invariant behind the next two theorems: messages end with records, and
\* the reader is in the message after the last one it decoded, or before its
\* first byte, for any sizes (writeMessage, readPayload, handleConn).
THEOREM ChannelInvariant == Spec => []Inv
<1>1. Init => Inv
  BY MessageChannelAssumption
     DEF MessageChannelAssumption, Init, Inv, Positions, Written, Reader, N, Sent, End
<1>2. Inv /\ [Next]_vars => Inv'
  <2> SUFFICES ASSUME Inv, [Next]_vars PROVE Inv'
    OBVIOUS
  <2>1. ASSUME NEW size \in Sizes, BeginWrite(size) PROVE Inv'
    BY <2>1, BeginWriteKeeps, MessageChannelAssumption
  <2>2. CASE WriteRecord
    BY <2>2, WriteRecordKeeps, MessageChannelAssumption
  <2>3. CASE ReadBytes
    BY <2>3, ReadBytesKeeps, MessageChannelAssumption
  <2>4. ASSUME NEW k \in 1..Sent, Decode(k) PROVE Inv'
    BY <2>4, DecodeKeeps, MessageChannelAssumption
  <2>5. CASE Break
    BY <2>5, BreakKeeps, MessageChannelAssumption
  <2>6. CASE UNCHANGED vars
    BY <2>6 DEF vars, Inv, Positions, Written, Reader, N, Sent, End
  <2> QED BY <2>1, <2>2, <2>3, <2>4, <2>5, <2>6 DEF Next, Read
<1> QED BY <1>1, <1>2, PTL DEF Spec

\* MessageChannel is type correct for any sizes: no decoder is ahead of what
\* has been put into records, and no message is made up.
THEOREM ChannelTypeCorrect == Spec => []TypeOK
<1>1. Inv => TypeOK
  <2> SUFFICES ASSUME Inv PROVE TypeOK
    OBVIOUS
  <2>1. Sent \in Nat /\ End(Sent) \in Nat /\ N \in Nat /\ N <= Sent
    BY EndsAreNatural DEF Inv, Reader, N
  <2>2. ends \in Seq(Nat) /\ Sent <= MaxMessages /\ up \in BOOLEAN
    BY DEF Inv, Positions, Reader
  <2>3. out \in 0..End(Sent) /\ pos \in 0..out /\ start \in 0..pos /\ cuts \subseteq 1..out
    BY <2>1 DEF Inv, Positions
  <2>4. received \in Seq(1..Sent)
    <3>1. received \in Seq(Nat) /\ \A k \in 1..Len(received) : received[k] \in 1..Sent
      BY <2>1 DEF Inv, Reader, N
    <3>2. received \in [1..Len(received) -> 1..Sent] /\ Len(received) \in Nat
      BY <3>1
    <3> QED BY <3>2, SeqDef
  <2> QED BY <2>2, <2>3, <2>4 DEF TypeOK
<1> QED BY <1>1, ChannelInvariant, PTL

\* The connection implements the queue of whole messages: each message is
\* decoded once, whole and in order, although every message has a decoder of
\* its own (handleConn, readPayload).
THEOREM ChannelIsQueue == Spec => IsQueue
<1>1. Init => Queue!Init
  BY DEF Init, Queue!Init, Sent
<1>2. Inv /\ [Next]_vars => [Queue!Next]_<<Sent, received>>
  <2> SUFFICES ASSUME Inv, [Next]_vars PROVE [Queue!Next]_<<Sent, received>>
    OBVIOUS
  <2>1. ASSUME NEW size \in Sizes, BeginWrite(size) PROVE Queue!Send
    BY <2>1, BeginWriteKeeps, MessageChannelAssumption DEF Queue!Send
  <2>2. CASE WriteRecord \/ ReadBytes \/ Break
    BY <2>2, WriteRecordKeeps, ReadBytesKeeps, BreakKeeps, MessageChannelAssumption
  <2>3. ASSUME NEW k \in 1..Sent, Decode(k) PROVE Queue!Receive
    BY <2>3, DecodeKeeps, MessageChannelAssumption DEF Queue!Receive, N
  <2>4. CASE UNCHANGED vars
    BY <2>4 DEF vars, Sent
  <2> QED BY <2>1, <2>2, <2>3, <2>4 DEF Next, Read, Queue!Next
<1> QED BY <1>1, <1>2, ChannelInvariant, PTL DEF Spec, IsQueue, Queue!Spec
=============================================================================
