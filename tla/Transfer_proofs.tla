---------------------------- MODULE Transfer_proofs ----------------------------
(***************************************************************************)
(* Proofs of Transfer, for any uploads and archives: what the receiver has *)
(* taken from the connection, what is on its way and what the sender has   *)
(* put in are pieces of one stream, the offer, the chunks and the end.     *)
(***************************************************************************)
EXTENDS Transfer, SequenceTheorems, TLAPS

Messages == [kind : Kinds, index : Nat]

\* Message number p of upload u.
Msg(u, p) == IF p = 0 THEN Offer ELSE IF p <= Size[u] THEN Chunk(p - 1) ELSE Done
Streamed(u, s, p) == s \in Seq(Messages) /\ \A i \in 1..Len(s) : s[i] = Msg(u, p + i - 1)

\* How many messages the receiver has taken.
Taken(u) ==
  IF rjob[u].status = "none" THEN 0
  ELSE IF serve[u] = "finish" \/ rjob[u].status = "complete" THEN Size[u] + 2
  ELSE Len(file[u]) + 1

\* How many the sender has put in, had none been lost; of an upload that
\* failed, at most.
Put(u) ==
  IF pc[u] \in {"idle", "dial", "offer"} THEN 0
  ELSE IF pc[u] = "decide" THEN 1
  ELSE IF pc[u] \in {"chunks", "progress"} \/ job[u].status = "failed" THEN next[u] + 1
  ELSE Size[u] + 2

Stream(u) ==
  /\ Streamed(u, wire[u], Taken(u))
  /\ Taken(u) + Len(wire[u]) <= Put(u)
  /\ link[u] = "open" => Taken(u) + Len(wire[u]) = Put(u)

Sending(u) ==
  /\ pc[u] \in {"idle", "dial"} =>
       /\ link[u] = "none" /\ serve[u] = "none" /\ wire[u] = << >> /\ rjob[u].status = "none"
  /\ pc[u] \in {"idle", "dial", "offer", "decide"} => next[u] = 0
  /\ link[u] = "open" => pc[u] # "end"
  /\ job[u].status = "failed" => pc[u] = "end"
  /\ job[u].done <= next[u]
  /\ pc[u] = "progress" => job[u].done + 1 <= next[u]

Receiving(u) ==
  /\ rjob[u].status \in {"none", "in_progress", "complete"}
  /\ rjob[u].status = "none" => file[u] = << >>
  /\ Len(file[u]) <= Size[u] /\ \A i \in 1..Len(file[u]) : file[u][i] = i - 1
  /\ serve[u] \in {"answer", "count", "finish"} \/ handle[u] => rjob[u].status = "in_progress"
  /\ serve[u] = "finish" \/ rjob[u].status = "complete" => Len(file[u]) = Size[u]
  /\ rjob[u].status = "in_progress" => rjob[u].done <= Len(file[u])
  /\ serve[u] = "count" => rjob[u].done + 1 <= Len(file[u])

Good(u) == Stream(u) /\ Sending(u) /\ Receiving(u)
Inv == TypeOK /\ \A u \in Uploads : Good(u)

-----------------------------------------------------------------------------
(* Streams                                                                 *)

LEMMA MsgType ==
  ASSUME TransferAssumption, NEW u \in Uploads, NEW p \in Nat
  PROVE  /\ Msg(u, p) \in Messages
         /\ Msg(u, p).kind = "transfer.offer" <=> p = 0
         /\ Msg(u, p).kind = "transfer.chunk" <=> p \in 1..Size[u]
         /\ Msg(u, p).kind = "done" <=> p > Size[u]
         /\ p \in 1..Size[u] => Msg(u, p).index = p - 1
<1>1. Size[u] \in Nat
  BY DEF TransferAssumption
<1>2. CASE p = 0
  BY <1>1, <1>2 DEF Msg, Offer, Messages, Kinds
<1>3. CASE p \in 1..Size[u]
  BY <1>1, <1>3 DEF Msg, Chunk, Messages, Kinds
<1>4. CASE p > Size[u]
  BY <1>1, <1>4 DEF Msg, Done, Messages, Kinds
<1> QED BY <1>1, <1>2, <1>3, <1>4

\* The pieces of a sequence have its type.
LEMMA PiecesTyped ==
  ASSUME NEW S, NEW s \in Seq(S)
  PROVE  /\ s # << >> => Tail(s) \in Seq(S)
         /\ \A m \in S : Append(s, m) \in Seq(S)
         /\ \A n \in 0..Len(s) : SubSeq(s, 1, n) \in Seq(S)
OBVIOUS

LEMMA StreamEmpty ==
  ASSUME NEW u, NEW p PROVE Streamed(u, << >>, p)
<1>1. << >> \in Seq(Messages) /\ Len(<< >>) = 0
  OBVIOUS
<1> QED BY <1>1 DEF Streamed

LEMMA StreamAppend ==
  ASSUME TransferAssumption, NEW u \in Uploads, NEW p \in Nat, NEW s, Streamed(u, s, p),
         NEW m, m = Msg(u, p + Len(s))
  PROVE  Streamed(u, Append(s, m), p) /\ Len(Append(s, m)) = Len(s) + 1
<1>1. s \in Seq(Messages) /\ Len(s) \in Nat /\ \A i \in 1..Len(s) : s[i] = Msg(u, p + i - 1)
  BY DEF Streamed
<1>2. m \in Messages
  BY <1>1, MsgType
<1> DEFINE t == Append(s, m)
<1>3. /\ t \in Seq(Messages) /\ Len(t) = Len(s) + 1
      /\ \A i \in 1..Len(s) : t[i] = s[i]
      /\ t[Len(s) + 1] = m
  BY <1>1, <1>2
<1> HIDE DEF t
<1>4. ASSUME NEW i \in 1..Len(t) PROVE t[i] = Msg(u, p + i - 1)
  <2>1. CASE i \in 1..Len(s)
    BY <1>1, <1>3, <2>1
  <2>2. CASE i = Len(s) + 1
    <3>1. p + i - 1 = p + Len(s)
      BY <1>1, <2>2
    <3> QED BY <1>3, <2>2, <3>1
  <2> QED BY <1>1, <1>3, <2>1, <2>2
<1>5. Streamed(u, t, p) /\ Len(t) = Len(s) + 1
  BY <1>3, <1>4 DEF Streamed
<1> QED BY <1>5 DEF t

LEMMA StreamTail ==
  ASSUME TransferAssumption, NEW u \in Uploads, NEW p \in Nat, NEW s, Streamed(u, s, p), s # << >>
  PROVE  /\ Head(s) = Msg(u, p)
         /\ Streamed(u, Tail(s), p + 1) /\ Len(Tail(s)) = Len(s) - 1 /\ Len(s) \in Nat \ {0}
<1>1. s \in Seq(Messages) /\ Len(s) \in Nat \ {0} /\ \A i \in 1..Len(s) : s[i] = Msg(u, p + i - 1)
  BY EmptySeq DEF Streamed
<1> DEFINE t == Tail(s)
<1>2. /\ t \in Seq(Messages) /\ Len(t) = Len(s) - 1 /\ Head(s) = s[1]
      /\ \A i \in 1..(Len(s) - 1) : t[i] = s[i + 1]
  BY <1>1
<1> HIDE DEF t
<1>3. ASSUME NEW i \in 1..Len(t) PROVE t[i] = Msg(u, p + 1 + i - 1)
  <2>1. i + 1 \in 1..Len(s) /\ i \in 1..(Len(s) - 1)
    BY <1>1, <1>2
  <2>2. p + (i + 1) - 1 = p + 1 + i - 1
    BY <2>1
  <2>3. s[i + 1] = Msg(u, p + (i + 1) - 1)
    BY <1>1, <2>1
  <2> QED BY <1>2, <2>1, <2>2, <2>3
<1>4. Head(s) = Msg(u, p)
  <2>1. s[1] = Msg(u, p + 1 - 1) /\ p + 1 - 1 = p
    BY <1>1
  <2> QED BY <1>2, <2>1
<1>5. Streamed(u, t, p + 1) /\ Len(t) = Len(s) - 1
  BY <1>2, <1>3 DEF Streamed
<1> QED BY <1>1, <1>4, <1>5 DEF t

LEMMA StreamCut ==
  ASSUME NEW u, NEW p, NEW s, Streamed(u, s, p), NEW n \in 0..Len(s)
  PROVE  Streamed(u, SubSeq(s, 1, n), p) /\ Len(SubSeq(s, 1, n)) = n
<1>1. s \in Seq(Messages) /\ Len(s) \in Nat /\ \A i \in 1..Len(s) : s[i] = Msg(u, p + i - 1)
  BY DEF Streamed
<1> DEFINE t == SubSeq(s, 1, n)
<1>2. t \in Seq(Messages) /\ Len(t) = n /\ \A i \in 1..n : t[i] = s[i]
  BY <1>1
<1> HIDE DEF t
<1>3. Streamed(u, t, p) /\ Len(t) = n
  BY <1>1, <1>2 DEF Streamed
<1> QED BY <1>3 DEF t

-----------------------------------------------------------------------------
(* Steps of one upload                                                     *)

Same(v) ==
  /\ pc'[v] = pc[v] /\ job'[v] = job[v] /\ next'[v] = next[v]
  /\ serve'[v] = serve[v] /\ rjob'[v] = rjob[v] /\ handle'[v] = handle[v] /\ file'[v] = file[v]
  /\ link'[v] = link[v] /\ wire'[v] = wire[v]

\* A step of another upload leaves this one as it is.
LEMMA OthersKeep ==
  ASSUME NEW v \in Uploads, Good(v), Same(v) PROVE Good(v)'
<1>1. Taken(v)' = Taken(v) /\ Put(v)' = Put(v)
  BY DEF Same, Taken, Put
<1>2. Stream(v)'
  BY <1>1 DEF Good, Stream, Streamed, Msg, Same
<1>3. Sending(v)'
  BY DEF Good, Sending, Same
<1>4. Receiving(v)'
  BY DEF Good, Receiving, Same
<1> QED BY <1>2, <1>3, <1>4 DEF Good

\* The counts are numbers.
LEMMA CountsAreNumbers ==
  ASSUME TransferAssumption, TypeOK, NEW u \in Uploads
  PROVE  /\ Taken(u) \in Nat /\ Put(u) \in Nat /\ Size[u] \in Nat /\ next[u] \in Nat
         /\ Len(file[u]) \in Nat /\ Len(wire[u]) \in Nat
<1>1. Size[u] \in Nat /\ next[u] \in Nat
  BY DEF TransferAssumption, TypeOK
<1>2. file[u] \in Seq(Nat) /\ wire[u] \in Seq([kind : Kinds, index : Nat])
  BY DEF TypeOK
<1>3. Len(file[u]) \in Nat /\ Len(wire[u]) \in Nat
  BY <1>2
<1>4. Taken(u) \in Nat /\ Put(u) \in Nat
  BY <1>1, <1>3 DEF Taken, Put
<1> QED BY <1>1, <1>3, <1>4

\* A step of the sender that puts nothing in, or loses what it puts in.
LEMMA SenderKeepsStream ==
  ASSUME TransferAssumption, TypeOK, NEW u \in Uploads, Stream(u),
         wire'[u] = wire[u], serve'[u] = serve[u], rjob'[u] = rjob[u], file'[u] = file[u],
         Put(u)' \in Nat, Put(u) <= Put(u)', link'[u] = "open" => Put(u)' = Put(u) /\ link[u] = "open"
  PROVE  Stream(u)'
<1>1. Taken(u)' = Taken(u)
  BY DEF Taken
<1>2. Streamed(u, wire[u], Taken(u))'
  BY <1>1 DEF Stream, Streamed, Msg
<1>3. Taken(u)' + Len(wire'[u]) <= Put(u)' /\ (link'[u] = "open" => Taken(u)' + Len(wire'[u]) = Put(u)')
  BY <1>1, CountsAreNumbers DEF Stream
<1> QED BY <1>2, <1>3 DEF Stream

\* A message put in continues the stream.
LEMMA SenderExtendsStream ==
  ASSUME TransferAssumption, TypeOK, NEW u \in Uploads, Stream(u),
         link[u] = "open", link'[u] = link[u],
         wire'[u] = Append(wire[u], Msg(u, Put(u))),
         serve'[u] = serve[u], rjob'[u] = rjob[u], file'[u] = file[u], Put(u)' = Put(u) + 1
  PROVE  Stream(u)'
<1>1. Taken(u)' = Taken(u)
  BY DEF Taken
<1>2. Taken(u) + Len(wire[u]) = Put(u) /\ Streamed(u, wire[u], Taken(u))
  BY DEF Stream
<1>3. /\ Streamed(u, Append(wire[u], Msg(u, Put(u))), Taken(u))
      /\ Len(Append(wire[u], Msg(u, Put(u)))) = Len(wire[u]) + 1
  BY <1>2, CountsAreNumbers, StreamAppend
<1>4. Streamed(u, wire[u], Taken(u))'
  <2>1. Streamed(u, wire'[u], Taken(u)')
    BY <1>1, <1>3
  <2> QED BY <2>1 DEF Streamed, Msg
<1>5. Taken(u)' + Len(wire'[u]) = Put(u)' /\ Put(u)' \in Nat
  BY <1>1, <1>2, <1>3, CountsAreNumbers
<1> QED BY <1>4, <1>5 DEF Stream

\* A message taken shortens it.
LEMMA ReceiverTakes ==
  ASSUME TransferAssumption, TypeOK, NEW u \in Uploads, Stream(u), wire[u] # << >>,
         wire'[u] = Tail(wire[u]), Taken(u)' = Taken(u) + 1,
         pc' = pc, job' = job, next' = next, link' = link
  PROVE  Stream(u)'
<1>1. Put(u)' = Put(u)
  BY DEF Put
<1>2. /\ Streamed(u, Tail(wire[u]), Taken(u) + 1)
      /\ Len(Tail(wire[u])) = Len(wire[u]) - 1
  BY CountsAreNumbers, StreamTail DEF Stream
<1>3. Streamed(u, wire[u], Taken(u))'
  <2>1. Streamed(u, wire'[u], Taken(u)')
    BY <1>2
  <2> QED BY <2>1 DEF Streamed, Msg
<1>4. Taken(u)' + Len(wire'[u]) = Taken(u) + Len(wire[u])
  <2>1. Len(wire'[u]) = Len(wire[u]) - 1
    BY <1>2
  <2>2. Taken(u) \in Nat /\ Len(wire[u]) \in Nat
    BY CountsAreNumbers
  <2> QED BY <2>1, <2>2
<1> QED BY <1>1, <1>3, <1>4 DEF Stream

\* The end of the connection empties it.
LEMMA HangupKeepsStream ==
  ASSUME TransferAssumption, TypeOK, NEW u \in Uploads, Stream(u),
         wire'[u] = << >>, link'[u] # "open", Taken(u)' = Taken(u),
         pc' = pc, job' = job, next' = next
  PROVE  Stream(u)'
<1>1. Put(u)' = Put(u)
  BY DEF Put
<1>2. Streamed(u, wire[u], Taken(u))'
  <2>1. Streamed(u, wire'[u], Taken(u)')
    BY StreamEmpty
  <2> QED BY <2>1 DEF Streamed, Msg
<1>3. Len(wire'[u]) = 0
  <2>1. Len(<< >>) = 0
    OBVIOUS
  <2> QED BY <2>1
<1>4. Taken(u)' + Len(wire'[u]) <= Put(u)'
  BY <1>1, <1>3, CountsAreNumbers DEF Stream
<1> QED BY <1>2, <1>4 DEF Stream

-----------------------------------------------------------------------------
(* The sender                                                              *)

LEMMA FailKeeps ==
  ASSUME TransferAssumption, TypeOK, NEW u \in Uploads, Good(u), pc[u] \in {"dial", "offer", "decide", "chunks"}, Fail(u)
  PROVE  TypeOK' /\ Good(u)' /\ \A v \in Uploads \ {u} : Same(v)
<1>0. /\ pc' = [pc EXCEPT ![u] = "end"] /\ job' = [job EXCEPT ![u].status = "failed"]
      /\ link' = [link EXCEPT ![u] = IF @ = "open" THEN "closed" ELSE @]
      /\ UNCHANGED <<next, wire, answer, serve, rjob, handle, file>>
  BY DEF Fail, Status, Goto, CloseConn, receiver
<1>1. TypeOK'
  BY <1>0 DEF TypeOK, Statuses
<1>2. /\ pc'[u] = "end" /\ job'[u].status = "failed" /\ job'[u].done = job[u].done
      /\ link'[u] # "open" /\ next'[u] = next[u]
  BY <1>0 DEF TypeOK
<1>3. Stream(u)'
  <2>1. Put(u)' = next[u] + 1
    BY <1>2 DEF Put
  <2>2. Put(u) <= next[u] + 1
    BY CountsAreNumbers DEF Put, Good, Sending
  <2> QED BY <1>0, <1>2, <2>1, <2>2, CountsAreNumbers, SenderKeepsStream DEF Good
<1>4. Sending(u)'
  BY <1>2 DEF Good, Sending
<1>5. Receiving(u)'
  BY <1>0 DEF Good, Receiving
<1>6. \A v \in Uploads \ {u} : Same(v)
  BY <1>0 DEF Same, TypeOK
<1> QED BY <1>1, <1>3, <1>4, <1>5, <1>6 DEF Good

LEMMA SendUploadKeeps ==
  ASSUME TransferAssumption, TypeOK, NEW u \in Uploads, Good(u), SendUpload(u)
  PROVE  TypeOK' /\ Good(u)' /\ \A v \in Uploads \ {u} : Same(v)
<1>0. /\ pc[u] = "idle" /\ pc' = [pc EXCEPT ![u] = "dial"]
      /\ job' = [job EXCEPT ![u] = [status |-> "offering", done |-> 0]]
      /\ UNCHANGED <<next, link, wire, answer, serve, rjob, handle, file>>
  BY DEF SendUpload, At, Goto, Job, receiver, net
<1>1. TypeOK'
  BY <1>0 DEF TypeOK, Statuses
<1>2. pc'[u] = "dial" /\ job'[u].status = "offering" /\ job'[u].done = 0
  BY <1>0 DEF TypeOK
<1>3. Stream(u)'
  <2>1. Put(u)' = 0 /\ Put(u) = 0
    BY <1>0, <1>2 DEF Put
  <2> QED BY <1>0, <1>2, <2>1, CountsAreNumbers, SenderKeepsStream DEF Good, Sending
<1>4. Sending(u)'
  BY <1>0, <1>2 DEF Good, Sending
<1>5. Receiving(u)'
  BY <1>0 DEF Good, Receiving
<1>6. \A v \in Uploads \ {u} : Same(v)
  BY <1>0 DEF Same, TypeOK
<1> QED BY <1>1, <1>3, <1>4, <1>5, <1>6 DEF Good

LEMMA ConnectKeeps ==
  ASSUME TransferAssumption, TypeOK, NEW u \in Uploads, Good(u), Connect(u)
  PROVE  TypeOK' /\ Good(u)' /\ \A v \in Uploads \ {u} : Same(v)
<1>0. /\ pc[u] = "dial" /\ pc' = [pc EXCEPT ![u] = "offer"]
      /\ link' = [link EXCEPT ![u] = "open"] /\ serve' = [serve EXCEPT ![u] = "reading"]
      /\ UNCHANGED <<job, next, wire, answer, rjob, handle, file>>
  BY DEF Connect, At, Goto
<1>1. TypeOK'
  BY <1>0 DEF TypeOK
<1>2. pc'[u] = "offer" /\ link'[u] = "open" /\ serve'[u] = "reading"
  BY <1>0 DEF TypeOK
<1>3. wire[u] = << >> /\ rjob[u].status = "none" /\ next[u] = 0 /\ job[u].status # "failed"
  BY <1>0 DEF Good, Sending
<1>4. Stream(u)'
  <2>1. Put(u)' = 0 /\ Taken(u)' = 0
    BY <1>0, <1>2, <1>3 DEF Put, Taken
  <2>2. Streamed(u, wire'[u], 0)
    BY <1>0, <1>3, StreamEmpty
  <2>3. Streamed(u, wire[u], Taken(u))'
    BY <2>1, <2>2 DEF Streamed, Msg
  <2>4. Len(wire'[u]) = 0
    <3>1. Len(<< >>) = 0
      OBVIOUS
    <3> QED BY <1>0, <1>3, <3>1
  <2> QED BY <2>1, <2>3, <2>4 DEF Stream
<1>5. Sending(u)'
  BY <1>0, <1>2, <1>3 DEF Good, Sending
<1>6. Receiving(u)'
  BY <1>0, <1>2, <1>3 DEF Good, Receiving
<1>7. \A v \in Uploads \ {u} : Same(v)
  BY <1>0 DEF Same, TypeOK
<1> QED BY <1>1, <1>4, <1>5, <1>6, <1>7 DEF Good

LEMMA SendOfferKeeps ==
  ASSUME TransferAssumption, TypeOK, NEW u \in Uploads, Good(u), SendOffer(u)
  PROVE  TypeOK' /\ Good(u)' /\ \A v \in Uploads \ {u} : Same(v)
<1>1. CASE WriteError(u) /\ Fail(u)
  BY <1>1, FailKeeps DEF SendOffer, At
<1>2. CASE Written(u, Offer) /\ Goto(u, "decide") /\ UNCHANGED <<job, next, link, answer, receiver>>
  <2>0. /\ pc[u] = "offer" /\ pc' = [pc EXCEPT ![u] = "decide"]
        /\ wire' = IF link[u] = "open" THEN [wire EXCEPT ![u] = Append(@, Offer)] ELSE wire
        /\ UNCHANGED <<job, next, link, answer, serve, rjob, handle, file>>
    BY <1>2 DEF SendOffer, At, Goto, Written, receiver
  <2>1. TypeOK'
    BY <2>0 DEF TypeOK, Offer, Kinds
  <2>2. /\ pc'[u] = "decide" /\ wire'[u] = IF link[u] = "open" THEN Append(wire[u], Offer) ELSE wire[u]
    BY <2>0 DEF TypeOK
  <2>3. Stream(u)'
    <3>1. Put(u) = 0 /\ Put(u)' = 1 /\ Offer = Msg(u, Put(u))
      BY <2>0, <2>2 DEF Put, Msg
    <3>2. CASE link[u] = "open"
      BY <2>0, <2>2, <3>1, <3>2, SenderExtendsStream DEF Good
    <3>3. CASE link[u] # "open"
      BY <2>0, <2>2, <3>1, <3>3, SenderKeepsStream DEF Good
    <3> QED BY <3>2, <3>3
  <2>4. Sending(u)'
    BY <2>0, <2>2 DEF Good, Sending
  <2>5. Receiving(u)'
    BY <2>0 DEF Good, Receiving
  <2>6. \A v \in Uploads \ {u} : Same(v)
    BY <2>0 DEF Same, TypeOK
  <2> QED BY <2>1, <2>3, <2>4, <2>5, <2>6 DEF Good
<1> QED BY <1>1, <1>2 DEF SendOffer

LEMMA ReadDecisionKeeps ==
  ASSUME TransferAssumption, TypeOK, NEW u \in Uploads, Good(u), ReadDecision(u)
  PROVE  TypeOK' /\ Good(u)' /\ \A v \in Uploads \ {u} : Same(v)
<1>1. CASE ~answer[u] /\ link[u] # "open" /\ Fail(u)
  BY <1>1, FailKeeps DEF ReadDecision, At
<1>2. CASE answer[u] /\ Status(u, "in_progress") /\ Goto(u, "chunks") /\ UNCHANGED <<next, net, receiver>>
  <2>0. /\ pc[u] = "decide" /\ pc' = [pc EXCEPT ![u] = "chunks"]
        /\ job' = [job EXCEPT ![u].status = "in_progress"]
        /\ UNCHANGED <<next, link, wire, answer, serve, rjob, handle, file>>
    BY <1>2 DEF ReadDecision, At, Goto, Status, net, receiver
  <2>1. TypeOK'
    BY <2>0 DEF TypeOK, Statuses
  <2>2. /\ pc'[u] = "chunks" /\ job'[u].status = "in_progress" /\ job'[u].done = job[u].done
        /\ next[u] = 0
    BY <2>0 DEF TypeOK, Good, Sending
  <2>3. Stream(u)'
    <3>1. Put(u) = 1 /\ Put(u)' = 1
      BY <2>0, <2>2 DEF Put
    <3> QED BY <2>0, <2>2, <3>1, SenderKeepsStream DEF Good
  <2>4. Sending(u)'
    BY <2>0, <2>2 DEF Good, Sending
  <2>5. Receiving(u)'
    BY <2>0 DEF Good, Receiving
  <2>6. \A v \in Uploads \ {u} : Same(v)
    BY <2>0 DEF Same, TypeOK
  <2> QED BY <2>1, <2>3, <2>4, <2>5, <2>6 DEF Good
<1> QED BY <1>1, <1>2 DEF ReadDecision

LEMMA SendChunkKeeps ==
  ASSUME TransferAssumption, TypeOK, NEW u \in Uploads, Good(u), SendChunk(u)
  PROVE  TypeOK' /\ Good(u)' /\ \A v \in Uploads \ {u} : Same(v)
<1>1. CASE WriteError(u) /\ Fail(u)
  BY <1>1, FailKeeps DEF SendChunk, At
<1>2. CASE /\ Written(u, Chunk(next[u])) /\ next' = [next EXCEPT ![u] = @ + 1]
           /\ Goto(u, "progress") /\ UNCHANGED <<job, link, answer, receiver>>
  <2>0. /\ pc[u] = "chunks" /\ next[u] < Size[u] /\ pc' = [pc EXCEPT ![u] = "progress"]
        /\ next' = [next EXCEPT ![u] = @ + 1]
        /\ wire' = IF link[u] = "open" THEN [wire EXCEPT ![u] = Append(@, Chunk(next[u]))] ELSE wire
        /\ UNCHANGED <<job, link, answer, serve, rjob, handle, file>>
    BY <1>2 DEF SendChunk, At, Goto, Written, receiver
  <2>1. TypeOK'
    <3>1. Chunk(next[u]) \in [kind : Kinds, index : Nat]
      BY CountsAreNumbers DEF Chunk, Kinds
    <3>2. wire' \in [Uploads -> Seq([kind : Kinds, index : Nat])]
      <4>1. wire \in [Uploads -> Seq([kind : Kinds, index : Nat])]
        BY DEF TypeOK
      <4>2. Append(wire[u], Chunk(next[u])) \in Seq([kind : Kinds, index : Nat])
        BY <3>1, <4>1, PiecesTyped
      <4> QED BY <2>0, <4>1, <4>2
    <3>3. next' \in [Uploads -> Nat] /\ \A v \in Uploads : next'[v] <= Size[v]
      <4>1. next \in [Uploads -> Nat] /\ (\A v \in Uploads : next[v] <= Size[v]) /\ Size[u] \in Nat
        BY CountsAreNumbers DEF TypeOK
      <4>2. next' \in [Uploads -> Nat] /\ next'[u] = next[u] + 1
        BY <2>0, <4>1
      <4>3. next[u] + 1 <= Size[u]
        BY <2>0, <4>1
      <4>4. \A v \in Uploads \ {u} : next'[v] = next[v]
        BY <2>0, <4>1
      <4> QED BY <4>1, <4>2, <4>3, <4>4
    <3> QED BY <2>0, <3>2, <3>3 DEF TypeOK
  <2>2. /\ pc'[u] = "progress" /\ next'[u] = next[u] + 1
        /\ wire'[u] = IF link[u] = "open" THEN Append(wire[u], Chunk(next[u])) ELSE wire[u]
    BY <2>0 DEF TypeOK
  <2>3. Stream(u)'
    <3>1. Put(u) = next[u] + 1 /\ Put(u)' = Put(u) + 1
      BY <2>0, <2>2 DEF Put
    <3>2. Chunk(next[u]) = Msg(u, Put(u))
      BY <2>0, <3>1, CountsAreNumbers DEF Msg
    <3>3. CASE link[u] = "open"
      BY <2>0, <2>2, <3>1, <3>2, <3>3, SenderExtendsStream DEF Good
    <3>4. CASE link[u] # "open"
      BY <2>0, <2>2, <3>1, <3>4, CountsAreNumbers, SenderKeepsStream DEF Good
    <3> QED BY <3>3, <3>4
  <2>4. Sending(u)'
    <3>1. job[u].done \in Nat
      BY DEF TypeOK
    <3> QED BY <2>0, <2>2, <3>1, CountsAreNumbers DEF Good, Sending
  <2>5. Receiving(u)'
    BY <2>0 DEF Good, Receiving
  <2>6. \A v \in Uploads \ {u} : Same(v)
    BY <2>0 DEF Same, TypeOK
  <2> QED BY <2>1, <2>3, <2>4, <2>5, <2>6 DEF Good
<1> QED BY <1>1, <1>2 DEF SendChunk

LEMMA AddProgressKeeps ==
  ASSUME TransferAssumption, TypeOK, NEW u \in Uploads, Good(u), AddProgress(u)
  PROVE  TypeOK' /\ Good(u)' /\ \A v \in Uploads \ {u} : Same(v)
<1>0. /\ pc[u] = "progress" /\ pc' = [pc EXCEPT ![u] = "chunks"]
      /\ job' = [job EXCEPT ![u].done = @ + 1]
      /\ UNCHANGED <<next, link, wire, answer, serve, rjob, handle, file>>
  BY DEF AddProgress, At, Goto, receiver, net
<1>1. TypeOK'
  <2>1. job \in [Uploads -> [status : Statuses, done : Nat]]
    BY DEF TypeOK
  <2>2. [job[u] EXCEPT !.done = @ + 1] \in [status : Statuses, done : Nat]
    BY <2>1
  <2>3. job' \in [Uploads -> [status : Statuses, done : Nat]]
    BY <1>0, <2>1, <2>2
  <2> QED BY <1>0, <2>3 DEF TypeOK
<1>2. pc'[u] = "chunks" /\ job'[u].status = job[u].status /\ job'[u].done = job[u].done + 1
  BY <1>0 DEF TypeOK
<1>3. Stream(u)'
  <2>1. Put(u)' = Put(u)
    BY <1>0, <1>2 DEF Put
  <2> QED BY <1>0, <1>2, <2>1, CountsAreNumbers, SenderKeepsStream DEF Good
<1>4. Sending(u)'
  BY <1>0, <1>2 DEF Good, Sending
<1>5. Receiving(u)'
  BY <1>0 DEF Good, Receiving
<1>6. \A v \in Uploads \ {u} : Same(v)
  BY <1>0 DEF Same, TypeOK
<1> QED BY <1>1, <1>3, <1>4, <1>5, <1>6 DEF Good

LEMMA SendDoneKeeps ==
  ASSUME TransferAssumption, TypeOK, NEW u \in Uploads, Good(u), SendDone(u)
  PROVE  TypeOK' /\ Good(u)' /\ \A v \in Uploads \ {u} : Same(v)
<1>1. CASE WriteError(u) /\ Fail(u)
  BY <1>1, FailKeeps DEF SendDone, At
<1>2. CASE Written(u, Done) /\ Goto(u, "complete") /\ UNCHANGED <<job, next, link, answer, receiver>>
  <2>0. /\ pc[u] = "chunks" /\ next[u] = Size[u] /\ pc' = [pc EXCEPT ![u] = "complete"]
        /\ wire' = IF link[u] = "open" THEN [wire EXCEPT ![u] = Append(@, Done)] ELSE wire
        /\ UNCHANGED <<job, next, link, answer, serve, rjob, handle, file>>
    BY <1>2 DEF SendDone, At, Goto, Written, receiver
  <2>1. TypeOK'
    BY <2>0 DEF TypeOK, Done, Kinds
  <2>2. /\ pc'[u] = "complete" /\ wire'[u] = IF link[u] = "open" THEN Append(wire[u], Done) ELSE wire[u]
        /\ job[u].status # "failed"
    BY <2>0 DEF TypeOK, Good, Sending
  <2>3. Stream(u)'
    <3>1. Put(u) = Size[u] + 1 /\ Put(u)' = Size[u] + 2
      BY <2>0, <2>2 DEF Put
    <3>2. Done = Msg(u, Put(u))
      BY <3>1, CountsAreNumbers DEF Msg
    <3>3. CASE link[u] = "open"
      <4>1. wire'[u] = Append(wire[u], Msg(u, Put(u))) /\ Put(u)' = Put(u) + 1
        BY <2>2, <3>1, <3>2, <3>3, CountsAreNumbers
      <4> QED BY <2>0, <3>3, <4>1, SenderExtendsStream DEF Good
    <3>4. CASE link[u] # "open"
      <4>1. Put(u)' \in Nat /\ Put(u) <= Put(u)'
        BY <3>1, CountsAreNumbers
      <4>2. /\ wire'[u] = wire[u] /\ serve'[u] = serve[u] /\ rjob'[u] = rjob[u]
            /\ file'[u] = file[u] /\ link'[u] # "open"
        BY <2>0, <2>2, <3>4
      <4> QED BY <4>1, <4>2, SenderKeepsStream DEF Good
    <3> QED BY <3>3, <3>4
  <2>4. Sending(u)'
    BY <2>0, <2>2 DEF Good, Sending
  <2>5. Receiving(u)'
    BY <2>0 DEF Good, Receiving
  <2>6. \A v \in Uploads \ {u} : Same(v)
    BY <2>0 DEF Same, TypeOK
  <2> QED BY <2>1, <2>3, <2>4, <2>5, <2>6 DEF Good
<1> QED BY <1>1, <1>2 DEF SendDone

LEMMA CompleteKeeps ==
  ASSUME TransferAssumption, TypeOK, NEW u \in Uploads, Good(u), Complete(u)
  PROVE  TypeOK' /\ Good(u)' /\ \A v \in Uploads \ {u} : Same(v)
<1>0. /\ pc[u] = "complete" /\ pc' = [pc EXCEPT ![u] = "end"]
      /\ job' = [job EXCEPT ![u].status = "complete"]
      /\ link' = [link EXCEPT ![u] = IF @ = "open" THEN "closed" ELSE @]
      /\ UNCHANGED <<next, wire, answer, serve, rjob, handle, file>>
  BY DEF Complete, At, Status, Goto, CloseConn, receiver
<1>1. TypeOK'
  BY <1>0 DEF TypeOK, Statuses
<1>2. /\ pc'[u] = "end" /\ job'[u].status = "complete" /\ job'[u].done = job[u].done
      /\ link'[u] # "open" /\ job[u].status # "failed"
  BY <1>0 DEF TypeOK, Good, Sending
<1>3. Stream(u)'
  <2>1. Put(u)' = Put(u)
    BY <1>0, <1>2 DEF Put
  <2> QED BY <1>0, <1>2, <2>1, CountsAreNumbers, SenderKeepsStream DEF Good
<1>4. Sending(u)'
  BY <1>0, <1>2 DEF Good, Sending
<1>5. Receiving(u)'
  BY <1>0 DEF Good, Receiving
<1>6. \A v \in Uploads \ {u} : Same(v)
  BY <1>0 DEF Same, TypeOK
<1> QED BY <1>1, <1>3, <1>4, <1>5, <1>6 DEF Good

-----------------------------------------------------------------------------
(* The receiver and the network                                            *)

LEMMA HangupKeeps ==
  ASSUME TransferAssumption, TypeOK, NEW u \in Uploads, Good(u), pc[u] \notin {"idle", "dial"}, serve[u] # "finish", Hangup(u)
  PROVE  TypeOK' /\ Good(u)' /\ \A v \in Uploads \ {u} : Same(v)
<1>0. /\ serve' = [serve EXCEPT ![u] = "gone"] /\ link' = [link EXCEPT ![u] = "broken"]
      /\ wire' = [wire EXCEPT ![u] = << >>]
      /\ UNCHANGED <<pc, job, next, answer, rjob, handle, file>>
  BY DEF Hangup, Serve, sender
<1>1. TypeOK'
  <2>1. << >> \in Seq([kind : Kinds, index : Nat])
    OBVIOUS
  <2> QED BY <1>0, <2>1 DEF TypeOK
<1>2. serve'[u] = "gone" /\ link'[u] = "broken" /\ wire'[u] = << >>
  BY <1>0 DEF TypeOK
<1>3. Stream(u)'
  <2>1. Taken(u)' = Taken(u)
    BY <1>0, <1>2 DEF Taken
  <2> QED BY <1>0, <1>2, <2>1, HangupKeepsStream DEF Good
<1>4. Sending(u)'
  BY <1>0, <1>2 DEF Good, Sending
<1>5. Receiving(u)'
  BY <1>0, <1>2 DEF Good, Receiving
<1>6. \A v \in Uploads \ {u} : Same(v)
  BY <1>0 DEF Same, TypeOK
<1> QED BY <1>1, <1>3, <1>4, <1>5, <1>6 DEF Good

\* A message is only on its way once the connection has been made.
LEMMA ReadingIsConnected ==
  ASSUME NEW u \in Uploads, Good(u), serve[u] # "none" PROVE pc[u] \notin {"idle", "dial"}
BY DEF Good, Sending

\* What the kind of the next message says of the place in the stream.
LEMMA NextMessage ==
  ASSUME TransferAssumption, TypeOK, NEW u \in Uploads, Good(u), wire[u] # << >>
  PROVE  /\ Head(wire[u]) = Msg(u, Taken(u)) /\ Taken(u) < Put(u)
         /\ Head(wire[u]).kind = "transfer.offer" <=> Taken(u) = 0
         /\ Head(wire[u]).kind = "transfer.chunk" <=> Taken(u) \in 1..Size[u]
         /\ Head(wire[u]).kind = "done" <=> Taken(u) > Size[u]
<1>1. Taken(u) \in Nat /\ Put(u) \in Nat /\ Len(wire[u]) \in Nat
  BY CountsAreNumbers
<1>2. Head(wire[u]) = Msg(u, Taken(u)) /\ Len(wire[u]) \in Nat \ {0}
  BY <1>1, StreamTail DEF Good, Stream
<1>3. Taken(u) < Put(u)
  BY <1>1, <1>2 DEF Good, Stream
<1> QED BY <1>1, <1>2, <1>3, MsgType

LEMMA TakeOfferKeeps ==
  ASSUME TransferAssumption, TypeOK, NEW u \in Uploads, Good(u), TakeOffer(u)
  PROVE  TypeOK' /\ Good(u)' /\ \A v \in Uploads \ {u} : Same(v)
<1>1. serve[u] = "reading" /\ wire[u] # << >> /\ Head(wire[u]).kind = "transfer.offer"
  BY DEF TakeOffer, Received
<1>2. CASE Hangup(u)
  BY <1>1, <1>2, ReadingIsConnected, HangupKeeps
<1>3. CASE /\ TakeMessage(u) /\ file' = [file EXCEPT ![u] = << >>]
           /\ rjob' = [rjob EXCEPT ![u] = Job("in_progress", 0)]
           /\ handle' = [handle EXCEPT ![u] = TRUE]
           /\ Serve(u, "answer") /\ UNCHANGED <<sender, link, answer>>
  <2>0. /\ wire' = [wire EXCEPT ![u] = Tail(@)] /\ file' = [file EXCEPT ![u] = << >>]
        /\ rjob' = [rjob EXCEPT ![u] = [status |-> "in_progress", done |-> 0]]
        /\ handle' = [handle EXCEPT ![u] = TRUE] /\ serve' = [serve EXCEPT ![u] = "answer"]
        /\ UNCHANGED <<pc, job, next, link, answer>>
    BY <1>3 DEF TakeMessage, Serve, Job, sender
  <2>1. TypeOK'
    <3>1. << >> \in Seq(Nat)
      OBVIOUS
    <3>2. Tail(wire[u]) \in Seq([kind : Kinds, index : Nat])
      <4>1. wire[u] \in Seq([kind : Kinds, index : Nat])
        BY DEF TypeOK
      <4> QED BY <1>1, <4>1, PiecesTyped
    <3> QED BY <2>0, <3>1, <3>2 DEF TypeOK, Statuses
  <2>2. /\ wire'[u] = Tail(wire[u]) /\ file'[u] = << >> /\ serve'[u] = "answer"
        /\ rjob'[u].status = "in_progress" /\ rjob'[u].done = 0 /\ handle'[u]
    BY <2>0 DEF TypeOK
  <2>a. Len(file'[u]) = 0
    <3>1. Len(<< >>) = 0
      OBVIOUS
    <3> QED BY <2>2, <3>1
  <2>3. Stream(u)'
    <3>1. Taken(u) = 0
      BY <1>1, NextMessage
    <3>2. Taken(u)' = 1
      BY <2>2, <2>a DEF Taken
    <3> QED BY <1>1, <2>0, <2>2, <3>1, <3>2, ReceiverTakes DEF Good
  <2>4. Sending(u)'
    BY <1>1, <2>0, <2>2, ReadingIsConnected DEF Good, Sending
  <2>5. Receiving(u)'
    BY <2>2, <2>a, CountsAreNumbers DEF Receiving
  <2>6. \A v \in Uploads \ {u} : Same(v)
    BY <2>0 DEF Same, TypeOK
  <2> QED BY <2>1, <2>3, <2>4, <2>5, <2>6 DEF Good
<1> QED BY <1>2, <1>3 DEF TakeOffer

LEMMA SendAnswerKeeps ==
  ASSUME TransferAssumption, TypeOK, NEW u \in Uploads, Good(u), SendAnswer(u)
  PROVE  TypeOK' /\ Good(u)' /\ \A v \in Uploads \ {u} : Same(v)
<1>1. serve[u] = "answer"
  BY DEF SendAnswer
<1>2. CASE Hangup(u)
  BY <1>1, <1>2, ReadingIsConnected, HangupKeeps
<1>3. CASE /\ answer' = [answer EXCEPT ![u] = link[u] = "open"] /\ Serve(u, "reading")
           /\ UNCHANGED <<sender, link, wire, rjob, handle, file>>
  <2>0. /\ answer' = [answer EXCEPT ![u] = link[u] = "open"] /\ serve' = [serve EXCEPT ![u] = "reading"]
        /\ UNCHANGED <<pc, job, next, link, wire, rjob, handle, file>>
    BY <1>3 DEF Serve, sender
  <2>1. TypeOK'
    <3>1. (link[u] = "open") \in BOOLEAN
      OBVIOUS
    <3>2. answer' \in [Uploads -> BOOLEAN]
      BY <2>0, <3>1, Zenon DEF TypeOK
    <3> QED BY <2>0, <3>2 DEF TypeOK
  <2>2. serve'[u] = "reading"
    BY <2>0 DEF TypeOK
  <2>3. Stream(u)'
    <3>1. Taken(u)' = Taken(u) /\ Put(u)' = Put(u)
      BY <1>1, <2>0, <2>2 DEF Taken, Put
    <3> QED BY <2>0, <3>1 DEF Good, Stream, Streamed, Msg
  <2>4. Sending(u)'
    BY <1>1, <2>0, <2>2, ReadingIsConnected DEF Good, Sending
  <2>5. Receiving(u)'
    BY <1>1, <2>0, <2>2 DEF Good, Receiving
  <2>6. \A v \in Uploads \ {u} : Same(v)
    BY <2>0 DEF Same, TypeOK
  <2> QED BY <2>1, <2>3, <2>4, <2>5, <2>6 DEF Good
<1> QED BY <1>2, <1>3 DEF SendAnswer

LEMMA TakeChunkKeeps ==
  ASSUME TransferAssumption, TypeOK, NEW u \in Uploads, Good(u), TakeChunk(u)
  PROVE  TypeOK' /\ Good(u)' /\ \A v \in Uploads \ {u} : Same(v)
<1>1. /\ serve[u] = "reading" /\ wire[u] # << >> /\ Head(wire[u]).kind = "transfer.chunk"
      /\ handle[u]
  BY DEF TakeChunk, Received
<1>2. CASE Hangup(u)
  BY <1>1, <1>2, ReadingIsConnected, HangupKeeps
<1>3. CASE /\ TakeMessage(u) /\ file' = [file EXCEPT ![u] = Append(@, Head(wire[u]).index)]
           /\ Serve(u, "count") /\ UNCHANGED <<sender, link, answer, rjob, handle>>
  <2> DEFINE k == Head(wire[u]).index
  <2>0. /\ wire' = [wire EXCEPT ![u] = Tail(@)] /\ file' = [file EXCEPT ![u] = Append(@, k)]
        /\ serve' = [serve EXCEPT ![u] = "count"]
        /\ UNCHANGED <<pc, job, next, link, answer, rjob, handle>>
    BY <1>3 DEF TakeMessage, Serve, sender
  <2>a. rjob[u].status = "in_progress" /\ Taken(u) = Len(file[u]) + 1
    BY <1>1 DEF Good, Receiving, Taken
  <2>b. k = Len(file[u]) /\ Len(file[u]) < Size[u] /\ file[u] \in Seq(Nat) /\ k \in Nat
    <3>1. Head(wire[u]) = Msg(u, Taken(u)) /\ Taken(u) \in 1..Size[u]
      BY <1>1, NextMessage
    <3>2. Msg(u, Taken(u)).index = Taken(u) - 1
      BY <3>1, CountsAreNumbers, MsgType
    <3>3. file[u] \in Seq(Nat) /\ Len(file[u]) \in Nat /\ Size[u] \in Nat
      BY CountsAreNumbers DEF TypeOK
    <3>4. k = Taken(u) - 1
      BY <3>1, <3>2
    <3> HIDE DEF k
    <3> QED BY <2>a, <3>1, <3>3, <3>4
  <2> HIDE DEF k
  <2>1. TypeOK'
    <3>1. Append(file[u], k) \in Seq(Nat)
      BY <2>b
    <3>2. Tail(wire[u]) \in Seq([kind : Kinds, index : Nat])
      <4>1. wire[u] \in Seq([kind : Kinds, index : Nat])
        BY DEF TypeOK
      <4> QED BY <1>1, <4>1, PiecesTyped
    <3> QED BY <2>0, <3>1, <3>2 DEF TypeOK
  <2>2. wire'[u] = Tail(wire[u]) /\ file'[u] = Append(file[u], k) /\ serve'[u] = "count"
    BY <2>0 DEF TypeOK
  <2>c. /\ Len(file'[u]) = Len(file[u]) + 1 /\ file'[u][Len(file[u]) + 1] = k
        /\ \A i \in 1..Len(file[u]) : file'[u][i] = file[u][i]
    BY <2>2, <2>b
  <2>3. Stream(u)'
    <3>1. Taken(u)' = Len(file'[u]) + 1
      BY <2>0, <2>2, <2>a DEF Taken
    <3> QED BY <1>1, <2>0, <2>2, <2>a, <2>c, <3>1, ReceiverTakes DEF Good
  <2>4. Sending(u)'
    BY <1>1, <2>0, <2>2, ReadingIsConnected DEF Good, Sending
  <2>5. Receiving(u)'
    <3>1. Len(file[u]) \in Nat /\ Size[u] \in Nat /\ rjob[u].done \in Nat
      BY CountsAreNumbers DEF TypeOK
    <3>2. \A i \in 1..Len(file'[u]) : file'[u][i] = i - 1
      <4>1. \A i \in 1..Len(file[u]) : file[u][i] = i - 1
        BY DEF Good, Receiving
      <4>2. \A i \in 1..Len(file'[u]) : i \in 1..Len(file[u]) \/ i = Len(file[u]) + 1
        BY <2>c, <3>1
      <4> QED BY <2>b, <2>c, <3>1, <4>1, <4>2
    <3>3. rjob[u].done <= Len(file[u])
      BY <2>a DEF Good, Receiving
    <3> QED BY <2>0, <2>2, <2>a, <2>b, <2>c, <3>1, <3>2, <3>3 DEF Receiving
  <2>6. \A v \in Uploads \ {u} : Same(v)
    BY <2>0 DEF Same, TypeOK
  <2> QED BY <2>1, <2>3, <2>4, <2>5, <2>6 DEF Good
<1> QED BY <1>2, <1>3 DEF TakeChunk

LEMMA CountChunkKeeps ==
  ASSUME TransferAssumption, TypeOK, NEW u \in Uploads, Good(u), CountChunk(u)
  PROVE  TypeOK' /\ Good(u)' /\ \A v \in Uploads \ {u} : Same(v)
<1>0. /\ serve[u] = "count" /\ serve' = [serve EXCEPT ![u] = "reading"]
      /\ rjob' = [rjob EXCEPT ![u].done = @ + 1]
      /\ UNCHANGED <<pc, job, next, link, wire, answer, handle, file>>
  BY DEF CountChunk, Serve, sender, net
<1>1. TypeOK'
  <2>1. rjob \in [Uploads -> [status : Statuses, done : Nat]]
    BY DEF TypeOK
  <2>2. [rjob[u] EXCEPT !.done = @ + 1] \in [status : Statuses, done : Nat]
    BY <2>1
  <2>3. rjob' \in [Uploads -> [status : Statuses, done : Nat]]
    BY <1>0, <2>1, <2>2
  <2> QED BY <1>0, <2>3 DEF TypeOK
<1>2. serve'[u] = "reading" /\ rjob'[u].status = rjob[u].status /\ rjob'[u].done = rjob[u].done + 1
  BY <1>0 DEF TypeOK
<1>3. Stream(u)'
  <2>1. Taken(u)' = Taken(u) /\ Put(u)' = Put(u)
    BY <1>0, <1>2 DEF Taken, Put
  <2> QED BY <1>0, <2>1 DEF Good, Stream, Streamed, Msg
<1>4. Sending(u)'
  BY <1>0, <1>2, ReadingIsConnected DEF Good, Sending
<1>5. Receiving(u)'
  BY <1>0, <1>2 DEF Good, Receiving
<1>6. \A v \in Uploads \ {u} : Same(v)
  BY <1>0 DEF Same, TypeOK
<1> QED BY <1>1, <1>3, <1>4, <1>5, <1>6 DEF Good

LEMMA TakeDoneKeeps ==
  ASSUME TransferAssumption, TypeOK, NEW u \in Uploads, Good(u), TakeDone(u)
  PROVE  TypeOK' /\ Good(u)' /\ \A v \in Uploads \ {u} : Same(v)
<1>1. serve[u] = "reading" /\ wire[u] # << >> /\ Head(wire[u]).kind = "done" /\ handle[u]
  BY DEF TakeDone, Received
<1>2. CASE Hangup(u)
  BY <1>1, <1>2, ReadingIsConnected, HangupKeeps
<1>3. CASE TakeMessage(u) /\ Serve(u, "finish") /\ UNCHANGED <<sender, link, answer, rjob, handle, file>>
  <2>0. /\ wire' = [wire EXCEPT ![u] = Tail(@)] /\ serve' = [serve EXCEPT ![u] = "finish"]
        /\ UNCHANGED <<pc, job, next, link, answer, rjob, handle, file>>
    BY <1>3 DEF TakeMessage, Serve, sender
  <2>a. rjob[u].status = "in_progress" /\ Taken(u) = Len(file[u]) + 1
    BY <1>1 DEF Good, Receiving, Taken
  <2>b. Len(file[u]) = Size[u]
    <3>1. Taken(u) > Size[u]
      BY <1>1, NextMessage
    <3>2. Len(file[u]) <= Size[u]
      BY DEF Good, Receiving
    <3> QED BY <2>a, <3>1, <3>2, CountsAreNumbers
  <2>1. TypeOK'
    <3>1. Tail(wire[u]) \in Seq([kind : Kinds, index : Nat])
      <4>1. wire[u] \in Seq([kind : Kinds, index : Nat])
        BY DEF TypeOK
      <4> QED BY <1>1, <4>1, PiecesTyped
    <3> QED BY <2>0, <3>1 DEF TypeOK
  <2>2. wire'[u] = Tail(wire[u]) /\ serve'[u] = "finish"
    BY <2>0 DEF TypeOK
  <2>3. Stream(u)'
    <3>1. Taken(u)' = Size[u] + 2
      BY <2>0, <2>2, <2>a DEF Taken
    <3>2. Taken(u)' = Taken(u) + 1
      BY <2>a, <2>b, <3>1, CountsAreNumbers
    <3> QED BY <1>1, <2>0, <2>2, <3>2, ReceiverTakes DEF Good
  <2>4. Sending(u)'
    BY <1>1, <2>0, <2>2, ReadingIsConnected DEF Good, Sending
  <2>5. Receiving(u)'
    BY <2>0, <2>2, <2>a, <2>b DEF Good, Receiving
  <2>6. \A v \in Uploads \ {u} : Same(v)
    BY <2>0 DEF Same, TypeOK
  <2> QED BY <2>1, <2>3, <2>4, <2>5, <2>6 DEF Good
<1> QED BY <1>2, <1>3 DEF TakeDone

LEMMA FinishKeeps ==
  ASSUME TransferAssumption, TypeOK, NEW u \in Uploads, Good(u), Finish(u)
  PROVE  TypeOK' /\ Good(u)' /\ \A v \in Uploads \ {u} : Same(v)
<1>0. /\ serve[u] = "finish" /\ serve' = [serve EXCEPT ![u] = "reading"]
      /\ rjob' = [rjob EXCEPT ![u] = [status |-> "complete", done |-> Size[u]]]
      /\ handle' = [handle EXCEPT ![u] = FALSE]
      /\ UNCHANGED <<pc, job, next, link, wire, answer, file>>
  BY DEF Finish, Serve, Job, sender, net
<1>1. TypeOK'
  BY <1>0, CountsAreNumbers DEF TypeOK, Statuses
<1>2. serve'[u] = "reading" /\ rjob'[u].status = "complete" /\ ~handle'[u]
  BY <1>0 DEF TypeOK
<1>a. rjob[u].status = "in_progress" /\ Len(file[u]) = Size[u]
  BY <1>0 DEF Good, Receiving
<1>3. Stream(u)'
  <2>1. Taken(u)' = Taken(u) /\ Put(u)' = Put(u)
    BY <1>0, <1>2, <1>a DEF Taken, Put
  <2> QED BY <1>0, <2>1 DEF Good, Stream, Streamed, Msg
<1>4. Sending(u)'
  BY <1>0, <1>2, ReadingIsConnected DEF Good, Sending
<1>5. Receiving(u)'
  BY <1>0, <1>2, <1>a DEF Good, Receiving
<1>6. \A v \in Uploads \ {u} : Same(v)
  BY <1>0 DEF Same, TypeOK
<1> QED BY <1>1, <1>3, <1>4, <1>5, <1>6 DEF Good

LEMMA BreakKeeps ==
  ASSUME TransferAssumption, TypeOK, NEW u \in Uploads, Good(u), Break(u)
  PROVE  TypeOK' /\ Good(u)' /\ \A v \in Uploads \ {u} : Same(v)
<1>1. PICK n \in 0..Len(wire[u]) : wire' = [wire EXCEPT ![u] = SubSeq(@, 1, n)]
  BY DEF Break
<1>2. PICK arrives \in BOOLEAN : answer' = [answer EXCEPT ![u] = @ /\ arrives]
  BY DEF Break
<1>0. /\ link[u] \in {"open", "closed"} /\ link' = [link EXCEPT ![u] = "broken"]
      /\ UNCHANGED <<pc, job, next, serve, rjob, handle, file>>
  BY DEF Break, sender, receiver
<1>3. TypeOK'
  <2>1. SubSeq(wire[u], 1, n) \in Seq([kind : Kinds, index : Nat])
    <3>1. wire[u] \in Seq([kind : Kinds, index : Nat])
      BY DEF TypeOK
    <3> QED BY <3>1, PiecesTyped
  <2>2. wire' \in [Uploads -> Seq([kind : Kinds, index : Nat])]
    BY <1>1, <2>1 DEF TypeOK
  <2>3. answer' \in [Uploads -> BOOLEAN]
    <3>1. (answer[u] /\ arrives) \in BOOLEAN
      BY Zenon
    <3> QED BY <1>2, <3>1, Zenon DEF TypeOK
  <2> QED BY <1>0, <2>2, <2>3 DEF TypeOK
<1>4. link'[u] = "broken" /\ wire'[u] = SubSeq(wire[u], 1, n)
  BY <1>0, <1>1 DEF TypeOK
<1>5. Stream(u)'
  <2>1. Taken(u)' = Taken(u) /\ Put(u)' = Put(u)
    BY <1>0 DEF Taken, Put
  <2>2. Streamed(u, wire'[u], Taken(u)) /\ Len(wire'[u]) = n
    BY <1>4, StreamCut DEF Good, Stream
  <2>3. Streamed(u, wire[u], Taken(u))'
    <3>1. Streamed(u, wire'[u], Taken(u)')
      BY <2>1, <2>2
    <3> QED BY <3>1 DEF Streamed, Msg
  <2>4. Taken(u)' + Len(wire'[u]) <= Put(u)'
    BY <2>1, <2>2, CountsAreNumbers DEF Good, Stream
  <2> QED BY <1>4, <2>3, <2>4 DEF Stream
<1>6. Sending(u)'
  BY <1>0, <1>4 DEF Good, Sending
<1>7. Receiving(u)'
  BY <1>0 DEF Good, Receiving
<1>8. \A v \in Uploads \ {u} : Same(v)
  BY <1>0, <1>1 DEF Same, TypeOK
<1> QED BY <1>3, <1>5, <1>6, <1>7, <1>8 DEF Good

-----------------------------------------------------------------------------
(* The invariant                                                           *)

LEMMA InvInit ==
  ASSUME TransferAssumption, Init PROVE Inv
<1>1. TypeOK
  <2>1. << >> \in Seq([kind : Kinds, index : Nat]) /\ << >> \in Seq(Nat)
    OBVIOUS
  <2> QED BY <2>1 DEF Init, TypeOK, Job, Statuses, TransferAssumption
<1>2. ASSUME NEW u \in Uploads PROVE Good(u)
  <2>1. /\ pc[u] = "idle" /\ job[u].status = "none" /\ job[u].done = 0 /\ next[u] = 0
        /\ link[u] = "none" /\ wire[u] = << >> /\ serve[u] = "none"
        /\ rjob[u].status = "none" /\ rjob[u].done = 0 /\ ~handle[u] /\ file[u] = << >>
    BY DEF Init, Job
  <2>2. Len(<< >>) = 0
    OBVIOUS
  <2>3. Taken(u) = 0 /\ Put(u) = 0
    BY <2>1 DEF Taken, Put
  <2>4. Stream(u)
    BY <2>1, <2>2, <2>3, StreamEmpty DEF Stream
  <2>5. Sending(u)
    BY <2>1 DEF Sending
  <2>6. Receiving(u)
    BY <2>1, <2>2 DEF Receiving, TransferAssumption
  <2> QED BY <2>4, <2>5, <2>6 DEF Good
<1> QED BY <1>1, <1>2 DEF Inv

\* A step is a step of one upload, which keeps what is said of it.
LEMMA StepOfOne ==
  ASSUME TransferAssumption, TypeOK, NEW u \in Uploads, Good(u),
         SendUpload(u) \/ Sender(u) \/ Receiver(u) \/ Break(u)
  PROVE  TypeOK' /\ Good(u)' /\ \A v \in Uploads \ {u} : Same(v)
<1>1. CASE SendUpload(u)
  BY <1>1, SendUploadKeeps
<1>2. CASE Connect(u)
  BY <1>2, ConnectKeeps
<1>3. CASE ConnectFails(u) \/ ReadError(u)
  BY <1>3, FailKeeps DEF ConnectFails, ReadError, At
<1>4. CASE SendOffer(u)
  BY <1>4, SendOfferKeeps
<1>5. CASE ReadDecision(u)
  BY <1>5, ReadDecisionKeeps
<1>6. CASE SendChunk(u)
  BY <1>6, SendChunkKeeps
<1>7. CASE AddProgress(u)
  BY <1>7, AddProgressKeeps
<1>8. CASE SendDone(u)
  BY <1>8, SendDoneKeeps
<1>9. CASE Complete(u)
  BY <1>9, CompleteKeeps
<1>10. CASE TakeOffer(u)
  BY <1>10, TakeOfferKeeps
<1>11. CASE SendAnswer(u)
  BY <1>11, SendAnswerKeeps
<1>12. CASE TakeChunk(u)
  BY <1>12, TakeChunkKeeps
<1>13. CASE CountChunk(u)
  BY <1>13, CountChunkKeeps
<1>14. CASE TakeDone(u)
  BY <1>14, TakeDoneKeeps
<1>15. CASE Finish(u)
  BY <1>15, FinishKeeps
<1>16. CASE EndOfStream(u)
  BY <1>16, ReadingIsConnected, HangupKeeps DEF EndOfStream
<1>17. CASE Break(u)
  BY <1>17, BreakKeeps
<1> QED BY <1>1, <1>2, <1>3, <1>4, <1>5, <1>6, <1>7, <1>8, <1>9, <1>10, <1>11, <1>12,
           <1>13, <1>14, <1>15, <1>16, <1>17 DEF Sender, Receiver

LEMMA InvStep ==
  ASSUME TransferAssumption, Inv, [Next]_vars PROVE Inv'
<1>1. TypeOK /\ \A u \in Uploads : Good(u)
  BY DEF Inv
<1>2. CASE UNCHANGED vars
  <2>1. \A u \in Uploads : Same(u)
    BY <1>2 DEF Same, vars, sender, receiver, net
  <2>2. TypeOK'
    BY <1>1, <1>2 DEF TypeOK, vars, sender, receiver, net
  <2> QED BY <1>1, <2>1, <2>2, OthersKeep DEF Inv
<1>3. CASE Next
  <2>1. PICK u \in Uploads : SendUpload(u) \/ Sender(u) \/ Receiver(u) \/ Break(u)
    BY <1>3 DEF Next
  <2>2. TypeOK /\ Good(u)
    BY <1>1
  <2>3. TypeOK' /\ Good(u)' /\ \A v \in Uploads \ {u} : Same(v)
    BY <2>1, <2>2, StepOfOne
  <2>4. ASSUME NEW v \in Uploads PROVE Good(v)'
    <3>1. CASE v = u
      BY <2>3, <3>1
    <3>2. CASE v # u
      BY <1>1, <2>3, <3>2, OthersKeep
    <3> QED BY <3>1, <3>2
  <2> QED BY <2>3, <2>4 DEF Inv
<1> QED BY <1>2, <1>3

\* The stream invariant holds in every state.
THEOREM TransferInvariant == Spec => []Inv
<1>1. Init => Inv
  BY TransferAssumption, InvInit
<1>2. Inv /\ [Next]_vars => Inv'
  BY TransferAssumption, InvStep
<1> QED BY <1>1, <1>2, PTL DEF Spec

-----------------------------------------------------------------------------
(* The properties                                                          *)

\* Every variable keeps its type, for any uploads and archives.
THEOREM TransferTypeCorrect == Spec => []TypeOK
<1>1. Inv => TypeOK
  BY DEF Inv
<1> QED BY <1>1, TransferInvariant, PTL

\* A transfer shown as complete is the whole archive in order: the done
\* message follows the last chunk in the stream.
THEOREM CompleteTransfersAreWhole == Spec => []CompleteIsWhole
<1>1. Inv => CompleteIsWhole
  <2> SUFFICES ASSUME Inv, NEW u \in Uploads, rjob[u].status = "complete"
               PROVE  Len(file[u]) = Size[u] /\ \A i \in 1 .. Size[u] : file[u][i] = i - 1
    BY DEF CompleteIsWhole
  <2>1. Receiving(u)
    BY DEF Inv, Good
  <2> QED BY <2>1 DEF Receiving
<1> QED BY <1>1, TransferInvariant, PTL

\* A failed upload has not put the done message in, so the receiver cannot
\* have taken it.
THEOREM FailedTransfersStayIncomplete == Spec => []FailedIsNotDelivered
<1>1. Inv => FailedIsNotDelivered
  <2> SUFFICES ASSUME Inv, NEW u \in Uploads, job[u].status = "failed"
               PROVE  rjob[u].status # "complete"
    BY DEF FailedIsNotDelivered
  <2>1. TypeOK /\ Stream(u) /\ Sending(u)
    BY DEF Inv, Good
  <2>2. /\ Taken(u) \in Nat /\ Put(u) \in Nat /\ Size[u] \in Nat /\ next[u] \in Nat
        /\ Len(wire[u]) \in Nat
    BY <2>1, TransferAssumption, CountsAreNumbers
  <2>3. Put(u) = next[u] + 1 /\ next[u] <= Size[u]
    BY <2>1 DEF Sending, Put, TypeOK
  <2>4. Taken(u) <= Size[u] + 1
    BY <2>1, <2>2, <2>3 DEF Stream
  <2>5. ASSUME rjob[u].status = "complete" PROVE FALSE
    <3>1. Taken(u) = Size[u] + 2
      BY <2>5 DEF Taken
    <3> QED BY <2>2, <2>4, <3>1
  <2> QED BY <2>5
<1> QED BY <1>1, TransferInvariant, PTL

\* Neither end shows progress that was not made.
THEOREM ProgressIsNeverAhead == Spec => []ProgressIsReal
<1>1. Inv => ProgressIsReal
  BY DEF Inv, Good, Sending, Receiving, ProgressIsReal
<1> QED BY <1>1, TransferInvariant, PTL

-----------------------------------------------------------------------------
(* Transfer delivers as Delivery says                                      *)

\* The status the sender shows fits where SendUpload is.
Fits(u) ==
  /\ pc[u] = "idle" <=> job[u].status = "none"
  /\ pc[u] = "end" <=> job[u].status \in {"complete", "failed"}

FitInv == \A u \in Uploads : Fits(u)

Arrived(u) == rjob[u].status = "complete"

\* A step of the sender begins the upload, ends it, or does not show in Delivery.
SenderMaps(u) ==
  /\ UNCHANGED <<file, rjob>>
  /\ \/ Outcome(u)' = Outcome(u)
     \/ Outcome(u) = "none" /\ Outcome(u)' = "under way"
     \/ Outcome(u) = "under way" /\ Outcome(u)' \in {"sent", "failed"}

\* So does a step of the receiver or the network: it stores a chunk or announces
\* the copy.
ReceiverMaps(u) ==
  /\ UNCHANGED <<pc, job>>
  /\ \/ file' = file /\ \A v \in Uploads : Arrived(v)' = Arrived(v)
     \/ /\ Outcome(u) # "none" /\ ~Arrived(u) /\ Len(file[u]) < Size[u]
        /\ file' = [file EXCEPT ![u] = Append(@, Len(@))]
        /\ \A v \in Uploads : Arrived(v)' = Arrived(v)
     \/ /\ Outcome(u) = "sent" /\ Len(file[u]) = Size[u] /\ ~Arrived(u)
        /\ Arrived(u)' = TRUE
        /\ \A v \in Uploads \ {u} : Arrived(v)' = Arrived(v)
        /\ file' = file

LEMMA FailMaps ==
  ASSUME TypeOK, NEW u \in Uploads, Fits(u), pc[u] \in {"dial", "offer", "decide", "chunks"},
         Fail(u)
  PROVE  Fits(u)' /\ SenderMaps(u)
<1>1. pc'[u] = "end" /\ job'[u].status = "failed" /\ UNCHANGED <<file, rjob>>
  BY DEF Fail, Status, Goto, TypeOK, receiver
<1>2. Outcome(u) = "under way" /\ Outcome(u)' = "failed"
  BY <1>1 DEF Fits, Outcome
<1> QED BY <1>1, <1>2 DEF Fits, SenderMaps

\* A step that keeps the status and stays between the beginning and the end.
LEMMA SendingMaps ==
  ASSUME NEW u \in Uploads, Fits(u), UNCHANGED <<file, rjob>>,
         pc[u] \in {"dial", "offer", "decide", "chunks", "progress"},
         job'[u].status = job[u].status \/ job'[u].status = "in_progress",
         pc'[u] \in {"offer", "decide", "chunks", "progress", "complete"}
  PROVE  Fits(u)' /\ SenderMaps(u)
<1>1. Outcome(u) = "under way" /\ Fits(u)'
  BY DEF Fits, Outcome
<1>2. Outcome(u)' \in {"under way", "sent"}
  BY DEF Fits, Outcome
<1> QED BY <1>1, <1>2 DEF SenderMaps

LEMMA SenderStep ==
  ASSUME TypeOK, NEW u \in Uploads, Fits(u), SendUpload(u) \/ Sender(u)
  PROVE  Fits(u)' /\ SenderMaps(u)
<1>1. CASE SendUpload(u)
  <2>1. /\ pc[u] = "idle" /\ pc'[u] = "dial" /\ job'[u].status = "offering"
        /\ UNCHANGED <<file, rjob>>
    BY <1>1 DEF SendUpload, At, Goto, Job, TypeOK, receiver
  <2>2. Outcome(u) = "none" /\ Outcome(u)' = "under way"
    BY <2>1 DEF Fits, Outcome
  <2> QED BY <2>1, <2>2 DEF Fits, SenderMaps
<1>2. CASE Connect(u)
  <2>1. /\ pc[u] = "dial" /\ pc'[u] = "offer" /\ job' = job /\ UNCHANGED <<file, rjob>>
    BY <1>2 DEF Connect, At, Goto, TypeOK
  <2> QED BY <2>1, SendingMaps
<1>3. CASE ConnectFails(u) \/ ReadError(u)
  BY <1>3, FailMaps DEF ConnectFails, ReadError, At
<1>4. CASE SendOffer(u)
  <2>1. CASE Fail(u)
    BY <1>4, <2>1, FailMaps DEF SendOffer, At
  <2>2. CASE Goto(u, "decide") /\ UNCHANGED <<job, receiver>>
    <3>1. /\ pc[u] = "offer" /\ pc'[u] = "decide" /\ job' = job /\ UNCHANGED <<file, rjob>>
      BY <1>4, <2>2 DEF SendOffer, At, Goto, TypeOK, receiver
    <3> QED BY <3>1, SendingMaps
  <2> QED BY <1>4, <2>1, <2>2 DEF SendOffer
<1>5. CASE ReadDecision(u)
  <2>1. CASE Fail(u)
    BY <1>5, <2>1, FailMaps DEF ReadDecision, At
  <2>2. CASE Status(u, "in_progress") /\ Goto(u, "chunks") /\ UNCHANGED <<next, net, receiver>>
    <3>1. /\ pc[u] = "decide" /\ pc'[u] = "chunks" /\ job'[u].status = "in_progress"
          /\ UNCHANGED <<file, rjob>>
      BY <1>5, <2>2 DEF ReadDecision, Status, At, Goto, TypeOK, receiver
    <3> QED BY <3>1, SendingMaps
  <2> QED BY <1>5, <2>1, <2>2 DEF ReadDecision
<1>6. CASE SendChunk(u)
  <2>1. CASE Fail(u)
    BY <1>6, <2>1, FailMaps DEF SendChunk, At
  <2>2. CASE Goto(u, "progress") /\ UNCHANGED <<job, receiver>>
    <3>1. /\ pc[u] = "chunks" /\ pc'[u] = "progress" /\ job' = job /\ UNCHANGED <<file, rjob>>
      BY <1>6, <2>2 DEF SendChunk, At, Goto, TypeOK, receiver
    <3> QED BY <3>1, SendingMaps
  <2> QED BY <1>6, <2>1, <2>2 DEF SendChunk
<1>7. CASE AddProgress(u)
  <2>1. /\ pc[u] = "progress" /\ pc'[u] = "chunks" /\ job'[u].status = job[u].status
        /\ UNCHANGED <<file, rjob>>
    BY <1>7 DEF AddProgress, At, Goto, TypeOK, receiver
  <2> QED BY <2>1, SendingMaps
<1>8. CASE SendDone(u)
  <2>1. CASE Fail(u)
    BY <1>8, <2>1, FailMaps DEF SendDone, At
  <2>2. CASE Goto(u, "complete") /\ UNCHANGED <<job, receiver>>
    <3>1. /\ pc[u] = "chunks" /\ pc'[u] = "complete" /\ job' = job /\ UNCHANGED <<file, rjob>>
      BY <1>8, <2>2 DEF SendDone, At, Goto, TypeOK, receiver
    <3> QED BY <3>1, SendingMaps
  <2> QED BY <1>8, <2>1, <2>2 DEF SendDone
<1>9. CASE Complete(u)
  <2>1. /\ pc[u] = "complete" /\ pc'[u] = "end" /\ job'[u].status = "complete"
        /\ UNCHANGED <<file, rjob>>
    BY <1>9 DEF Complete, Status, At, Goto, TypeOK, receiver
  <2>2. Outcome(u) = "sent" /\ Outcome(u)' = "sent" /\ Fits(u)'
    BY <2>1 DEF Fits, Outcome
  <2> QED BY <2>1, <2>2 DEF SenderMaps
<1> QED BY <1>1, <1>2, <1>3, <1>4, <1>5, <1>6, <1>7, <1>8, <1>9 DEF Sender

\* Once the receiver has taken the end of the stream, the upload was sent.
LEMMA EndTakenIsSent ==
  ASSUME TransferAssumption, TypeOK, NEW u \in Uploads, Good(u), Fits(u), serve[u] = "finish"
  PROVE  Outcome(u) = "sent"
<1>1. /\ Taken(u) \in Nat /\ Put(u) \in Nat /\ Size[u] \in Nat /\ next[u] \in Nat
      /\ Len(wire[u]) \in Nat /\ next[u] <= Size[u]
  BY CountsAreNumbers DEF TypeOK
<1>2. Taken(u) = Size[u] + 2
  BY DEF Good, Receiving, Taken
<1>3. Size[u] + 2 <= Put(u)
  BY <1>1, <1>2 DEF Good, Stream
<1>4. pc[u] \in {"complete", "end"} /\ job[u].status # "failed"
  BY <1>1, <1>3 DEF Put, TypeOK
<1> QED BY <1>4 DEF Fits, Outcome

LEMMA HangupMaps ==
  ASSUME NEW u \in Uploads, Hangup(u) PROVE ReceiverMaps(u)
BY DEF Hangup, sender, ReceiverMaps, Arrived

LEMMA ReceiverStep ==
  ASSUME TransferAssumption, TypeOK, NEW u \in Uploads, Good(u), Fits(u),
         Receiver(u) \/ Break(u)
  PROVE  ReceiverMaps(u)
<1>1. CASE TakeOffer(u)
  <2>1. CASE Hangup(u)
    BY <2>1, HangupMaps
  <2>2. CASE /\ file' = [file EXCEPT ![u] = << >>]
             /\ rjob' = [rjob EXCEPT ![u] = Job("in_progress", 0)] /\ UNCHANGED sender
    <3>1. Taken(u) = 0
      BY <1>1, NextMessage DEF TakeOffer, Received
    <3>2. rjob[u].status = "none" /\ file[u] = << >>
      <4>1. Size[u] \in Nat /\ Len(file[u]) \in Nat
        BY CountsAreNumbers
      <4>2. rjob[u].status = "none"
        BY <3>1, <4>1 DEF Taken
      <4> QED BY <4>2 DEF Good, Receiving
    <3>3. file' = file
      BY <2>2, <3>2 DEF TypeOK
    <3>4. \A v \in Uploads : Arrived(v)' = Arrived(v)
      BY <2>2, <3>2 DEF Arrived, Job, TypeOK
    <3> QED BY <2>2, <3>3, <3>4 DEF ReceiverMaps, sender
  <2> QED BY <1>1, <2>1, <2>2 DEF TakeOffer
<1>2. CASE SendAnswer(u)
  BY <1>2, HangupMaps DEF SendAnswer, sender, ReceiverMaps, Arrived
<1>3. CASE TakeChunk(u)
  <2>1. CASE Hangup(u)
    BY <2>1, HangupMaps
  <2>2. CASE /\ file' = [file EXCEPT ![u] = Append(@, Head(wire[u]).index)]
             /\ UNCHANGED <<sender, rjob>>
    <3>1. /\ serve[u] = "reading" /\ wire[u] # << >> /\ Head(wire[u]).kind = "transfer.chunk"
          /\ handle[u]
      BY <1>3 DEF TakeChunk, Received
    <3>2. rjob[u].status = "in_progress" /\ Taken(u) = Len(file[u]) + 1
      BY <3>1 DEF Good, Receiving, Taken
    <3>3. Head(wire[u]) = Msg(u, Taken(u)) /\ Taken(u) \in 1..Size[u]
      BY <3>1, NextMessage
    <3>4. Msg(u, Taken(u)).index = Taken(u) - 1 /\ Size[u] \in Nat /\ Len(file[u]) \in Nat
      BY <3>3, CountsAreNumbers, MsgType
    <3>5. Head(wire[u]).index = Len(file[u]) /\ Len(file[u]) < Size[u]
      BY <3>2, <3>3, <3>4
    <3>6. Outcome(u) # "none"
      BY <3>1, ReadingIsConnected DEF Fits, Outcome
    <3>7. file' = [file EXCEPT ![u] = Append(@, Len(@))]
      BY <2>2, <3>5
    <3> QED BY <2>2, <3>2, <3>5, <3>6, <3>7 DEF ReceiverMaps, Arrived, sender
  <2> QED BY <1>3, <2>1, <2>2 DEF TakeChunk
<1>4. CASE CountChunk(u)
  <2>1. \A v \in Uploads : rjob'[v].status = rjob[v].status
    BY <1>4 DEF CountChunk, TypeOK
  <2> QED BY <1>4, <2>1 DEF CountChunk, sender, ReceiverMaps, Arrived
<1>5. CASE TakeDone(u)
  BY <1>5, HangupMaps DEF TakeDone, sender, ReceiverMaps, Arrived
<1>6. CASE Finish(u)
  <2>1. Outcome(u) = "sent" /\ Len(file[u]) = Size[u] /\ rjob[u].status = "in_progress"
    BY <1>6, EndTakenIsSent DEF Finish, Good, Receiving
  <2>2. /\ rjob'[u].status = "complete" /\ file' = file /\ UNCHANGED <<pc, job>>
        /\ \A v \in Uploads \ {u} : rjob'[v] = rjob[v]
    BY <1>6 DEF Finish, Job, TypeOK, sender
  <2> QED BY <2>1, <2>2 DEF ReceiverMaps, Arrived
<1>7. CASE EndOfStream(u)
  BY <1>7, HangupMaps DEF EndOfStream
<1>8. CASE Break(u)
  BY <1>8 DEF Break, sender, receiver, ReceiverMaps, Arrived
<1> QED BY <1>1, <1>2, <1>3, <1>4, <1>5, <1>6, <1>7, <1>8 DEF Receiver

\* What shows of one upload's step is a step of Delivery.
LEMMA MapsToDelivery ==
  ASSUME NEW u \in Uploads, SenderMaps(u) \/ ReceiverMaps(u),
         \A v \in Uploads \ {u} : Same(v), file \in [Uploads -> Seq(Nat)]
  PROVE  [D!Next]_(D!deliveryVars)
<1> DEFINE outcome == [v \in Uploads |-> Outcome(v)]
           arrived == [v \in Uploads |-> rjob[v].status = "complete"]
<1>1. \A v \in Uploads \ {u} : Outcome(v)' = Outcome(v)
  BY DEF Same, Outcome
<1>2. CASE SenderMaps(u)
  <2>1. file' = file /\ arrived' = arrived
    BY <1>2 DEF SenderMaps
  <2>2. outcome' = [outcome EXCEPT ![u] = Outcome(u)']
    BY <1>1
  <2>3. CASE Outcome(u)' = Outcome(u)
    <3>1. outcome' = outcome
      BY <1>1, <2>3
    <3> QED BY <2>1, <3>1 DEF D!deliveryVars
  <2>4. CASE Outcome(u) = "none" /\ Outcome(u)' = "under way"
    <3>1. D!Begin(u)
      BY <2>1, <2>2, <2>4 DEF D!Begin
    <3> QED BY <3>1 DEF D!Next
  <2>5. CASE Outcome(u) = "under way" /\ Outcome(u)' \in {"sent", "failed"}
    <3>1. D!End(u)
      BY <2>1, <2>2, <2>5 DEF D!End
    <3> QED BY <3>1 DEF D!Next
  <2> QED BY <1>2, <2>3, <2>4, <2>5 DEF SenderMaps
<1>3. CASE ReceiverMaps(u)
  <2>1. outcome' = outcome
    BY <1>3 DEF ReceiverMaps, Outcome
  <2>2. CASE \A v \in Uploads : Arrived(v)' = Arrived(v)
    <3>1. arrived' = arrived
      BY <2>2 DEF Arrived
    <3>2. CASE file' = file
      BY <2>1, <3>1, <3>2 DEF D!deliveryVars
    <3>3. CASE /\ Outcome(u) # "none" /\ ~Arrived(u) /\ Len(file[u]) < Size[u]
               /\ file' = [file EXCEPT ![u] = Append(@, Len(@))]
      <4>1. D!Store(u)
        BY <2>1, <3>1, <3>3 DEF D!Store, Arrived
      <4> QED BY <4>1 DEF D!Next
    <3> QED BY <1>3, <2>2, <3>2, <3>3 DEF ReceiverMaps
  <2>3. CASE /\ Outcome(u) = "sent" /\ Len(file[u]) = Size[u] /\ ~Arrived(u)
             /\ Arrived(u)' = TRUE
             /\ \A v \in Uploads \ {u} : Arrived(v)' = Arrived(v)
             /\ file' = file
    <3>1. arrived' = [arrived EXCEPT ![u] = TRUE]
      BY <2>3 DEF Arrived
    <3>2. D!Arrive(u)
      BY <2>1, <2>3, <3>1 DEF D!Arrive, Arrived
    <3> QED BY <3>2 DEF D!Next
  <2> QED BY <1>3, <2>2, <2>3 DEF ReceiverMaps
<1> QED BY <1>2, <1>3

LEMMA DeliveryInit == Init => FitInv /\ D!Init
<1> SUFFICES ASSUME Init PROVE FitInv /\ D!Init
  OBVIOUS
<1>1. \A u \in Uploads : pc[u] = "idle" /\ job[u].status = "none" /\ rjob[u].status = "none"
  BY DEF Init, Job
<1>2. \A u \in Uploads : Outcome(u) = "none"
  BY <1>1 DEF Outcome
<1>3. FitInv
  BY <1>1 DEF FitInv, Fits
<1>4. file = [u \in Uploads |-> << >>]
  BY DEF Init
<1>5. D!Init
  BY <1>1, <1>2, <1>4 DEF D!Init
<1> QED BY <1>3, <1>5

LEMMA DeliveryStep ==
  ASSUME TransferAssumption, Inv, Inv', FitInv, [Next]_vars
  PROVE  FitInv' /\ [D!Next]_(D!deliveryVars)
<1>1. TypeOK /\ \A u \in Uploads : Good(u) /\ Fits(u)
  BY DEF Inv, FitInv
<1>2. CASE UNCHANGED vars
  BY <1>2 DEF vars, sender, receiver, net, FitInv, Fits, D!deliveryVars, Outcome
<1>3. CASE Next
  <2>1. PICK u \in Uploads : SendUpload(u) \/ Sender(u) \/ Receiver(u) \/ Break(u)
    BY <1>3 DEF Next
  <2>2. \A v \in Uploads \ {u} : Same(v)
    BY <1>1, <2>1, StepOfOne
  <2>3. Fits(u)' /\ (SenderMaps(u) \/ ReceiverMaps(u))
    <3>1. CASE SendUpload(u) \/ Sender(u)
      BY <1>1, <3>1, SenderStep
    <3>2. CASE Receiver(u) \/ Break(u)
      <4>1. ReceiverMaps(u)
        BY <1>1, <3>2, ReceiverStep
      <4> QED BY <1>1, <4>1 DEF ReceiverMaps, Fits
    <3> QED BY <2>1, <3>1, <3>2
  <2>4. FitInv'
    BY <1>1, <2>2, <2>3 DEF FitInv, Fits, Same
  <2> QED BY <1>1, <2>2, <2>3, <2>4, MapsToDelivery DEF TypeOK
<1> QED BY <1>2, <1>3

\* Both ends together implement Delivery: whatever fails on the way, an upload
\* ends once, its copy is stored in order and announced only when it was sent.
THEOREM UploadsAreDelivered == Spec => IsDelivery
<1>1. Init => FitInv /\ D!Init
  BY DeliveryInit
<1>2. Inv /\ Inv' /\ FitInv /\ [Next]_vars => FitInv' /\ [D!Next]_(D!deliveryVars)
  BY TransferAssumption, DeliveryStep
<1> QED BY <1>1, <1>2, TransferInvariant, PTL DEF Spec, IsDelivery, D!Spec
=============================================================================
