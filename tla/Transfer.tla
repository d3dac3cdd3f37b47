------------------------------ MODULE Transfer ------------------------------
(***************************************************************************)
(* Sending files (internal/app/service.go): SendUpload offers an archive   *)
(* on a connection of its own and streams it in chunks; the goroutine that *)
(* serves the connection on the other machine writes them to a file.       *)
(*                                                                         *)
(* Each upload u has its connection, its sender and its handler.  Both     *)
(* ends keep a job the UI polls, so a step is what one of them does        *)
(* between two points where a poll or the other end can see the result.    *)
(* newID is the clock in nanoseconds and is taken to be distinct for each  *)
(* upload.  Sizes are counted in chunks of chunkSize bytes.                *)
(***************************************************************************)
EXTENDS Naturals, Sequences

CONSTANTS
  Uploads,  \* calls of SendUpload
  Size      \* Size[u]: chunks in the archive of u

ASSUME TransferAssumption == Size \in [Uploads -> Nat]

VARIABLES
  pc,      \* pc[u]: the next step of SendUpload
  job,     \* job[u]: the sender's TransferJob: status and BytesDone
  next,    \* next[u]: index of the next chunk
  link,    \* link[u]: "none", "open", "closed" by the sender or "broken"
  wire,    \* wire[u]: messages on the way to the receiver
  answer,  \* answer[u]: the decision is on its way back
  serve,   \* serve[u]: the next step of the handler of the connection
  rjob,    \* rjob[u]: the receiver's TransferJob
  handle,  \* handle[u]: u is in recvTransfers
  file     \* file[u]: the chunks in the receiver's file

sender == <<pc, job, next>>
receiver == <<serve, rjob, handle, file>>
net == <<link, wire, answer>>
vars == <<sender, receiver, net>>

Offer == [kind |-> "transfer.offer", index |-> 0]
Chunk(k) == [kind |-> "transfer.chunk", index |-> k]
Done == [kind |-> "done", index |-> 0]

Job(s, n) == [status |-> s, done |-> n]

Init ==
  /\ pc = [u \in Uploads |-> "idle"]
  /\ job = [u \in Uploads |-> Job("none", 0)]
  /\ next = [u \in Uploads |-> 0]
  /\ link = [u \in Uploads |-> "none"]
  /\ wire = [u \in Uploads |-> << >>]
  /\ answer = [u \in Uploads |-> FALSE]
  /\ serve = [u \in Uploads |-> "none"]
  /\ rjob = [u \in Uploads |-> Job("none", 0)]
  /\ handle = [u \in Uploads |-> FALSE]
  /\ file = [u \in Uploads |-> << >>]

-----------------------------------------------------------------------------
(* SendUpload                                                              *)

At(u, l) == pc[u] = l
Goto(u, l) == pc' = [pc EXCEPT ![u] = l]
Status(u, s) == job' = [job EXCEPT ![u].status = s]

\* writeMessage: a connection the network or the peer has given up takes the
\* bytes and loses them, or reports an error.
Written(u, m) ==
  wire' = IF link[u] = "open" THEN [wire EXCEPT ![u] = Append(@, m)] ELSE wire
WriteError(u) == link[u] # "open"

\* The deferred conn.Close: what was written can still be read.
CloseConn(u) == link' = [link EXCEPT ![u] = IF @ = "open" THEN "closed" ELSE @]

\* failTransfer, and the return that closes the connection.
Fail(u) ==
  /\ Status(u, "failed")
  /\ Goto(u, "end")
  /\ CloseConn(u)
  /\ UNCHANGED <<next, wire, answer, receiver>>

SendUpload(u) ==
  /\ At(u, "idle")
  /\ job' = [job EXCEPT ![u] = Job("offering", 0)]
  /\ Goto(u, "dial")
  /\ UNCHANGED <<next, net, receiver>>

Connect(u) ==
  /\ At(u, "dial")
  /\ link' = [link EXCEPT ![u] = "open"]
  /\ serve' = [serve EXCEPT ![u] = "reading"]
  /\ Goto(u, "offer")
  /\ UNCHANGED <<job, next, wire, answer, rjob, handle, file>>

ConnectFails(u) == At(u, "dial") /\ Fail(u)

SendOffer(u) ==
  /\ At(u, "offer")
  /\ \/ Written(u, Offer) /\ Goto(u, "decide") /\ UNCHANGED <<job, next, link, answer, receiver>>
     \/ WriteError(u) /\ Fail(u)

\* The receiver of this code accepts every offer it answers.
ReadDecision(u) ==
  /\ At(u, "decide")
  /\ \/ /\ answer[u]
        /\ Status(u, "in_progress")
        /\ Goto(u, "chunks")
        /\ UNCHANGED <<next, net, receiver>>
     \/ ~answer[u] /\ link[u] # "open" /\ Fail(u)

\* The archive cannot be opened or read.
ReadError(u) == At(u, "chunks") /\ Fail(u)

\* Bug: the end of the file is noticed one chunk late.
SendChunk_OneTooMany(u) ==
  /\ At(u, "chunks") /\ next[u] <= Size[u]
  /\ \/ /\ Written(u, Chunk(next[u]))
        /\ next' = [next EXCEPT ![u] = @ + 1]
        /\ Goto(u, "progress")
        /\ UNCHANGED <<job, link, answer, receiver>>
     \/ WriteError(u) /\ Fail(u)

SendChunk(u) ==
  /\ At(u, "chunks") /\ next[u] < Size[u]
  /\ \/ /\ Written(u, Chunk(next[u]))
        /\ next' = [next EXCEPT ![u] = @ + 1]
        /\ Goto(u, "progress")
        /\ UNCHANGED <<job, link, answer, receiver>>
     \/ WriteError(u) /\ Fail(u)

\* Bug: the last chunk completes the job, before the end has been written.
AddProgress_CompletesEarly(u) ==
  /\ At(u, "progress")
  /\ job' = [job EXCEPT ![u] = Job(IF next[u] = Size[u] THEN "complete" ELSE @.status,
                                  @.done + 1)]
  /\ Goto(u, "chunks")
  /\ UNCHANGED <<next, net, receiver>>

AddProgress(u) ==
  /\ At(u, "progress")
  /\ job' = [job EXCEPT ![u].done = @ + 1]
  /\ Goto(u, "chunks")
  /\ UNCHANGED <<next, net, receiver>>

SendDone(u) ==
  /\ At(u, "chunks") /\ next[u] = Size[u]
  /\ \/ Written(u, Done) /\ Goto(u, "complete") /\ UNCHANGED <<job, next, link, answer, receiver>>
     \/ WriteError(u) /\ Fail(u)

\* Bug: an error of closing the connection fails a job that is done.
Complete_ChecksClose(u) ==
  /\ At(u, "complete")
  /\ Status(u, IF link[u] = "open" THEN "complete" ELSE "failed")
  /\ Goto(u, "end")
  /\ CloseConn(u)
  /\ UNCHANGED <<next, wire, answer, receiver>>

Complete(u) ==
  /\ At(u, "complete")
  /\ Status(u, "complete")
  /\ Goto(u, "end")
  /\ CloseConn(u)
  /\ UNCHANGED <<next, wire, answer, receiver>>

-----------------------------------------------------------------------------
(* handleConn on the receiver                                              *)

Serve(u, l) == serve' = [serve EXCEPT ![u] = l]

\* The next message is of kind k.
Received(u, k) == serve[u] = "reading" /\ wire[u] # << >> /\ Head(wire[u]).kind = k
TakeMessage(u) == wire' = [wire EXCEPT ![u] = Tail(@)]

\* Bug: the handler returns and the connection stays open.
Hangup_Leaks(u) ==
  /\ Serve(u, "gone")
  /\ wire' = [wire EXCEPT ![u] = << >>]
  /\ UNCHANGED <<sender, link, answer, rjob, handle, file>>

\* The handler returns: the connection is closed, the rest of it unread.
Hangup(u) ==
  /\ Serve(u, "gone")
  /\ link' = [link EXCEPT ![u] = "broken"]
  /\ wire' = [wire EXCEPT ![u] = << >>]
  /\ UNCHANGED <<sender, answer, rjob, handle, file>>

TakeOffer(u) ==
  /\ Received(u, "transfer.offer")
  /\ \/ /\ TakeMessage(u)
        /\ file' = [file EXCEPT ![u] = << >>]
        /\ rjob' = [rjob EXCEPT ![u] = Job("in_progress", 0)]
        /\ handle' = [handle EXCEPT ![u] = TRUE]
        /\ Serve(u, "answer")
        /\ UNCHANGED <<sender, link, answer>>
     \/ Hangup(u)   \* the file cannot be created

SendAnswer(u) ==
  /\ serve[u] = "answer"
  /\ \/ /\ answer' = [answer EXCEPT ![u] = link[u] = "open"]
        /\ Serve(u, "reading")
        /\ UNCHANGED <<sender, link, wire, rjob, handle, file>>
     \/ link[u] # "open" /\ Hangup(u)

\* Bug: a chunk that could not be written is skipped.
TakeChunk_IgnoresError(u) ==
  /\ Received(u, "transfer.chunk") /\ handle[u]
  /\ TakeMessage(u)
  /\ \/ file' = [file EXCEPT ![u] = Append(@, Head(wire[u]).index)] /\ Serve(u, "count")
     \/ UNCHANGED <<file, serve>>
  /\ UNCHANGED <<sender, link, answer, rjob, handle>>

\* Bug: progress is added before the chunk is written.
TakeChunk_CountsFirst(u) ==
  /\ Received(u, "transfer.chunk") /\ handle[u]
  /\ TakeMessage(u)
  /\ rjob' = [rjob EXCEPT ![u].done = @ + 1]
  /\ file' = [file EXCEPT ![u] = Append(@, Head(wire[u]).index)] \/ UNCHANGED file
  /\ Serve(u, "reading")
  /\ UNCHANGED <<sender, link, answer, handle>>

\* The transfer is known: its offer came first on the same connection.
TakeChunk(u) ==
  /\ Received(u, "transfer.chunk") /\ handle[u]
  /\ \/ /\ TakeMessage(u)
        /\ file' = [file EXCEPT ![u] = Append(@, Head(wire[u]).index)]
        /\ Serve(u, "count")
        /\ UNCHANGED <<sender, link, answer, rjob, handle>>
     \/ Hangup(u)   \* the file cannot be written

CountChunk(u) ==
  /\ serve[u] = "count"
  /\ rjob' = [rjob EXCEPT ![u].done = @ + 1]
  /\ Serve(u, "reading")
  /\ UNCHANGED <<sender, net, handle, file>>

TakeDone(u) ==
  /\ Received(u, "done") /\ handle[u]
  /\ \/ TakeMessage(u) /\ Serve(u, "finish") /\ UNCHANGED <<sender, link, answer, rjob, handle, file>>
     \/ Hangup(u)   \* the file cannot be closed

Finish(u) ==
  /\ serve[u] = "finish"
  /\ rjob' = [rjob EXCEPT ![u] = Job("complete", Size[u])]
  /\ handle' = [handle EXCEPT ![u] = FALSE]
  /\ Serve(u, "reading")
  /\ UNCHANGED <<sender, net, file>>

EndOfStream(u) ==
  /\ serve[u] = "reading" /\ wire[u] = << >> /\ link[u] \in {"closed", "broken"}
  /\ Hangup(u)

\* The network gives the connection up; what is on the way may be lost, the
\* latest first, and so may the answer.
Break(u) ==
  /\ link[u] \in {"open", "closed"}
  /\ link' = [link EXCEPT ![u] = "broken"]
  /\ \E n \in 0 .. Len(wire[u]) : wire' = [wire EXCEPT ![u] = SubSeq(@, 1, n)]
  /\ \E arrives \in BOOLEAN : answer' = [answer EXCEPT ![u] = @ /\ arrives]
  /\ UNCHANGED <<sender, receiver>>

-----------------------------------------------------------------------------
Sender(u) ==
  \/ Connect(u) \/ ConnectFails(u) \/ SendOffer(u) \/ ReadDecision(u)
  \/ ReadError(u) \/ SendChunk(u) \/ AddProgress(u) \/ SendDone(u) \/ Complete(u)

Receiver(u) ==
  \/ TakeOffer(u) \/ SendAnswer(u) \/ TakeChunk(u) \/ CountChunk(u)
  \/ TakeDone(u) \/ Finish(u) \/ EndOfStream(u)

Next == \E u \in Uploads : SendUpload(u) \/ Sender(u) \/ Receiver(u) \/ Break(u)

Spec == Init /\ [][Next]_vars

\* The Go scheduler runs both goroutines, and no deadline is needed as long as
\* each end keeps reading what the other sends.
FairSpec == Spec /\ \A u \in Uploads : WF_vars(Sender(u)) /\ WF_vars(Receiver(u))

-----------------------------------------------------------------------------
(* Properties                                                              *)

Statuses == {"none", "offering", "in_progress", "complete", "failed"}
Kinds == {"transfer.offer", "transfer.chunk", "done"}

\* Every variable holds values of the Go type it stands for; no chunk index
\* runs past the archive.
TypeOK ==
  /\ pc \in [Uploads -> {"idle", "dial", "offer", "decide", "chunks", "progress",
                         "complete", "end"}]
  /\ job \in [Uploads -> [status : Statuses, done : Nat]]
  /\ next \in [Uploads -> Nat] /\ \A u \in Uploads : next[u] <= Size[u]
  /\ link \in [Uploads -> {"none", "open", "closed", "broken"}]
  /\ wire \in [Uploads -> Seq([kind : Kinds, index : Nat])]
  /\ answer \in [Uploads -> BOOLEAN]
  /\ serve \in [Uploads -> {"none", "reading", "answer", "count", "finish", "gone"}]
  /\ rjob \in [Uploads -> [status : Statuses, done : Nat]]
  /\ handle \in [Uploads -> BOOLEAN]
  /\ file \in [Uploads -> Seq(Nat)]

\* A transfer the receiver shows as complete is the whole archive, in order:
\* chunk.Index is never looked at, so nothing but the order of the connection
\* and the end of the handler on the first error keeps it so.
CompleteIsWhole ==
  \A u \in Uploads : rjob[u].status = "complete" =>
    Len(file[u]) = Size[u] /\ \A i \in 1 .. Size[u] : file[u][i] = i - 1

\* A transfer the sender shows as failed never completes on the receiver, so
\* that sending it again makes no second copy of a file that arrived.
FailedIsNotDelivered ==
  \A u \in Uploads : job[u].status = "failed" => rjob[u].status # "complete"

\* "Transfers show progress" (docs/PRD.md:37): what either end shows as done
\* has been written to the file, or to the connection.
ProgressIsReal ==
  \A u \in Uploads :
    /\ rjob[u].status = "in_progress" => rjob[u].done <= Len(file[u])
    /\ job[u].done <= next[u]

\* What an upload has come to: sent, once the end of the archive is written.
Outcome(u) ==
  IF job[u].status \in {"none", "failed"} THEN job[u].status
  ELSE IF pc[u] = "complete" \/ job[u].status = "complete" THEN "sent" ELSE "under way"

D == INSTANCE Delivery WITH
       outcome <- [u \in Uploads |-> Outcome(u)],
       copy <- file,
       arrived <- [u \in Uploads |-> rjob[u].status = "complete"]

\* Both ends together deliver as Delivery says: an upload that ended stays as it
\* ended, the copy grows chunk by chunk from the first to the last and is never
\* begun anew, and it is announced only after the sender has sent all of it.
IsDelivery == D!Spec

\* Every upload ends, complete or failed, whatever fails on the way: each
\* error of the receiver closes the connection the sender waits on.
UploadEnds == \A u \in Uploads : pc[u] # "idle" ~> pc[u] = "end"
=============================================================================
