# MouseShare in TLA+

MouseShare runs on each of a user's laptops. It hands the local mouse and
keyboard to another machine when the cursor crosses a screen edge (or on a
click in its web UI), lets machines pair, and sends files. This directory holds
TLA+ models of its core, the TLC configurations that check them on small
instances, and proofs checked by TLAPS that hold for every value of the
constants. `service.go` below is `internal/app/service.go`.

## The system

| Part | Where | State | Operations |
| --- | --- | --- | --- |
| Control session | `service.go` | `control`, `controlState`, `controlConn`, `lastEscapeAt` | `StartControl`, `StopControl`, `handleLocalEvent`, `beginControl`, `stopControlSession`, `forwardControlEvent`, `handleControlEnter/Leave` |
| Edge hand-off | `service.go`, `platform.go` | `controlState.RemoteCursor`, `PeerBounds`, `EnteredFrom`, the event channel | `maybeStartControlFromEdge`, `adjacentPeer`, `entryPointFor`, `shouldReturnToLocal`, `Rect.Clamp` |
| Pairing and trust | `service.go`, `config/store.go` | `peers`, `settings.TrustedPeers`, `pendingPair`, `config.json` | `upsertPeer`, `handlePairHello`, `connectPeer`, `ApprovePeer`, `RejectPeer`, `ManualPair`, `VerifyConnection` |
| Layout | `service.go` | `settings.Layout`, `localBounds` | `SaveLayout`, `handleLayoutUpdate`, `broadcastLayout`, `ensureLocalLayout`, `ensurePeerLayoutLocked` |
| Controlled machine | `service.go`, `platform/darwin.go`, `windows.go` | `control` in mode receiving, what is pressed | `handleControlEnter/Leave/Event`, `Inject` |
| Message framing | `service.go`, `transport/messages.go` | the TLS stream, one decoder a message | `writeMessage`, `readPayload`, the loop of `handleConn` |
| File transfer | `service.go` | `transfers`, `recvTransfers`, files | `SendUpload`, `handleTransferOffer`, `handleTransferChunk` |
| Bridges | `platform/darwin.go`, `windows.go` | suppression flag, anchor, capture channel | `EnterControl`, `ExitControl`, capture callbacks, `Inject` |
| Discovery | `discovery/service.go` | none | broadcast a beacon every 2 s, listen |
| HTTP interface | `ui/server.go` | none | one handler per operation |
| Identity, settings, process | `security/identity.go`, `config/store.go`, `cmd/mouseshare/main.go` | `identity.pem`, `identity-key.pem`, `config.json`, instance lock | `EnsureCertificate`, `Load`, `Save`, `main` |

How they interact: HTTP handlers, the goroutine `consumeLocalEvents`, one
goroutine for each accepted TLS connection, the discovery listener and the
broadcasts of layouts all call methods of one `Service`. Its mutex `s.mu` is
held for single reads and assignments, never across a dial, a write or a call
of the bridge (but for the write of `pair.ack`). Machines talk over TLS
connections of their own for each control session, transfer or layout update;
each opens with `pair.hello` and `pair.ack`. Captured input reaches the consumer
through a channel of 512 events that drops what does not fit.

What is hard: starts, stops and forwarding interleave at every point where the
mutex is not held; the bridge and the connection are changed outside it; writes
and dials have no deadline, and the goroutine that writes events is the one
that watches for Escape; connections break without `control.leave`; captured
moves are acted on late or not at all; saves fail and processes end between a
change in memory and its save; each end of a transfer may fail at any chunk.
`PROJECT.json` lists these hazards at their lines.

What makes each part correct: *control session* - local input is withheld only
while a session exists, what is written on a connection is meant for its peer,
the user can always take control back; *hand-off* - control crosses only a
border two screens share, and the remote cursor stays on the peer; *pairing* -
trust comes from the user only, survives restarts, and is what the listener
consults; *transfer* - complete means whole, failed means not delivered, every
upload ends; *layout* - a machine knows where its own screen is, a save reaches
the trusted peers, a screen placed by default overlaps no other; *controlled
machine* - it shows who controls it and only then, and no button stays pressed;
*framing* - whole messages, in order, each once; *identity and settings* - one
identity for good, a file that can be read after any crash.

## Modules

**`ControlWire`** is the abstract specification of control connections: each
is dialled, opened by one `control.enter`, carries events for the machine it was
dialled to, at most one `control.leave`, and is closed once.

**`ControlSession`** models one machine's control session. A thread is an HTTP
handler or the consumer (`Consumer`); `pc[t]` is where it is and `call[t]` its
locals. A step is what happens between two points where another thread may run:
`ClearSession` is the critical section of `stopControlSession`, then `SendLeave`
(the write), `ExitControl` (the bridge) and `CloseConn`; `beginControl` is
`Lookup`, that stop, `Dial`, `SendEnter`, `EnterControl`, `Publish`, `SendFirst`.
The consumer looks at whether a session is active in `TakeEvent`; Escape taps go
through `EscapeTap` and `PanicStop`, other events through `ReadSession`, `Steer`
(a move) and `ForwardEvent`. Messages of peers, the breaking of connections and
the passing of the Escape window are the environment. A connection is unused,
open, broken by the network (a write may still succeed) or closed here. In
`ControlWire` a run of equal events is one, which keeps `wire` finite.

**`Bridge`** puts the platforms' bridges under `ControlSession`: the platform
(`Platform`), whether `StartCapture` succeeded (`capturing`; without it no consumer runs and no event
is taken), and how often the cursor was hidden and not shown since (`hides`). Its
actions are those of `ControlSession`; `Enter` and `Exit` add what `EnterControl` and
`ExitControl` do to the count: `windows.go:209` returns early when the input is
withheld already, `darwin.go:297` does not. `overlapped` is a history variable that
every step keeps (`Note`): whether two starts or stops have been under way at once
since session and bridge last agreed with nothing under way.

**`Geometry`** holds points, rectangles, edges, adjacency and the entry point;
**`EdgeHandoff`** the cursor, the bounded channel and the session, with one step each
for begin and stop and three for a move that is forwarded (`SteerRemote` reads the
session, `StoreCursor` stores the position, `SendMove` or `SendFails` writes it), between
which a handler may start or stop. The field `own` of a session is a history variable:
whether its cursor was computed from it, or for a session before it
(`service.go:1081`). `Capture` is the hook of `windows.go` (the event tap
of `darwin.go` does the same): with a session the cursor stays, the delta is
reported, and a full channel drops the event. `layout` and `trusted` change at any
time, so that the bounds a session copied go stale. Coordinates are whole pixels;
fractions that scaling leaves are dropped.

**`Pairing`** models any number of machines, each with the status of its peers,
`TrustedPeers` in memory (`trusted`) and in `config.json` (`disk`), and at most one
outgoing connection at a time. `asked`, `acked` and `spurned` are history variables:
whom the user let in, whom the user was told is paired (the call returned
without an error), whom the user rejected since. A machine's id is the prefix
of its certificate's fingerprint, so one value stands for both.

**`Delivery`** is the abstract specification of sending files, seen from both
machines: an upload begins and ends once, sent or failed; the copy on the other
machine grows chunk by chunk and never begins anew; it is announced as arrived
only when it is whole and the upload was sent. Sent does not promise arrived, as
nothing acknowledges the last message.

**`Transfer`** models uploads, each with its connection, its sender
(`SendUpload`) and the goroutine that serves it. A step ends where a poll of the UI or
the other end can see its result. `Outcome` makes of the sender's label and the
status of its job what `Delivery` sees of them: an upload is sent once its last
message is written. A connection that breaks loses a suffix of what
is on the way; the receiver's `Hangup` is the deferred `Close` of `handleConn`.

**`LayoutSync`** models any number of machines and the layout each keeps. A save
(`SaveLayout`) has a broadcast of its own, `ListPeers` and then one `SendUpdate` or
`SkipPeer` a peer in any order; an update travels in `mail`, is lost
(`LoseUpdate`) or handled (`HandleLayoutUpdate`) in any order. `ApprovePeer` stands
for every place that calls `ensurePeerLayoutLocked` for a peer that becomes
trusted. `Start` places the own screen without the mutex while connections are
served: it may overwrite what an update has just stored, and an update may find no
bounds. `ran`, `alone` and `missed` of a save are history: whether every machine
ran and nothing was under way when it was made, and who did not get it.

**`ControlPair`** joins both ends of control sessions between any machines. It takes
a begin and a stop as one step each (`ControlSession` has the steps between) and
leaves moves out, and has what the other end does with `control.enter`, `control.leave`
and events, with a goroutine for each connection. `Hook` is what the hook or the
event tap makes of an input, whether a finger or `Inject` caused it: it passes,
is forwarded to the session's peer, or is swallowed. Windows captures no middle
button, macOS reports a modifier as changed, and both injections take a changed
modifier as released. `cut` and `muted` are history: the inputs that were down or
under way when a session began or ended or a connection broke, and the sessions
whose own banner a peer's `control.leave` removed.

**`MessageQueue`** is the abstract channel, **`MessageChannel`** the code's: a message
is written into records of its own, of any length; the decoder of a message reads
at most one record at a time until it holds a whole value, and what it has read
beyond is dropped with it. That the newline after a value may be left to the next
decoder, which skips it, is part of the model. Writers on one connection take
turns, which `crypto/tls` sees to.

**`Startup`** models one machine's files and the processes that use them, launched
at once or one after another: the lock, `Load`, `EnsureCertificate` file by file,
`Save` as the write of `config.json.tmp` and a rename. A process may end anywhere
(`End`, `IdentityCutShort`), a write may fail and leave part of a file. The end of a
process and the release of its port are one step. Settings are numbered in the
order they come to be; a `DeviceName` that `New` sets but does not save is left out.

`MC*` modules hold the small instances, `*_proofs` the theorems.

## Runs

| Run | Shows | Bounds |
| --- | --- | --- |
| `control_session` | `NoStrandedSuppression`, `SessionOwnsOpenConnection`, `BannerNamesControlledPeer`, `WireProtocol` (refinement of `ControlWire`) | 2 peers, 2 dials, 1 handler and the consumer |
| `bridge` | `CursorComesBack`, `OnlyOverlapsDisagree`, `EscapeReturnsControl` when peers read | Windows, 1 peer, 2 dials, 1 handler and the consumer |
| `bridge_macos` (violated) | `CursorComesBack` | the same on macOS |
| `pairing` | `PairingsSurvive`, `TrustIsAskedFor`, `TrustedPeerIsRecorded` | 2 machines with discovery |
| `pairing_manual` (violated) | `ManualPairingReachesPeer` | 2 machines, no discovery |
| `pairing_reject` (violated) | `RejectionStands` | 2 machines |
| `edge_handoff` | `RemoteCursorInBounds`, `PeerShowsTrackedCursor`, `CrossesSharedBorder` | 5x5 screen, two 4x3 peers, 3 layouts, 5 moves, a channel of 1 |
| `transfer` | `CompleteIsWhole`, `FailedIsNotDelivered`, `ProgressIsReal`, `UploadEnds`, `IsDelivery` (refinement of `Delivery`) | archives of 2 and 1 chunks |
| `layout_sync` | `OwnScreenPlaced`, `LoneSaveReachesPeers`, `ApprovalKeepsApart`, `OneSource` | 3 machines, one without bounds, 2 drafts, 2 saves |
| `control_pair` | `BannerEndsWithControl`, `NothingStaysPressed` | 2 Windows machines, 1 Mac, 1 modifier, 2 connections of 2 messages |
| `message_channel` | `IsQueue` (refinement of `MessageQueue`), `AllArrive` | 3 messages of 2 or 4 bytes, records of up to 3, reads of up to 4 |
| `startup` | `OneIdentity`, `PairFits`, `SavedSettingsKept`, `ConfigGoesForward` | 4 launches, 4 changes of the settings |

Each passing run also checks its module's type invariant.

Why the bounds are enough. The races of the control session are between two
threads at a time, one of which may be the consumer, over one session and its
successor: two dials and two peers give an old and a new connection that lead to
different machines. The proofs cover the same invariants for any number. `bridge`
needs one peer only, as the bridge does not know whom the session is with; two
starts that overlap take two dials, and a handler and the consumer make them. A
pairing property speaks of one machine's view of one other; two machines have
both views and both dials. With a 5x5 screen every edge has a middle and
corners, and peers lie at each of the four edges, one of them touching a corner
only; a channel of one event is enough for an event to be stale and for the next
one to be dropped. `EdgeMargin` and `Inset` are 1 where the code has 2, so that
the small screens have an interior; the theorems hold for every value. Two
chunks are enough to lose one and write the next.

A lone save needs a peer that is reached and one that is not, hence three
machines; two saves make updates cross. In `control_pair` the machines can control
each other in a circle while a third controls one of them; two connections are
an old and a new session or both directions at once. A modifier is the input that the
platforms treat least alike; `NothingStaysPressed` speaks of each input by itself.
A message of 4 bytes takes two records at least and one of 2 may take one; three
messages give a decoder one behind it and one ahead. Four launches are two at
once and two after them.

`Conns` bounds the number of dials: a machine that has used them up has its
dials fail. The uploads of `Transfer`, the saves of `LayoutSync`, the messages of
`MessageChannel` and the launches of `Startup` come to an end, so these runs do
not check for deadlock; all others do.

### Violated runs

Three runs show where the code does not do what its text says.

- `bridge_macos`: two starts that overlap reach `EnterControl` one after the other. The
  second hides the cursor of a Mac again, a stop shows it once, and control is back
  (`app.js:109`) with the cursor still hidden. The run `bridge` shows that the early
  return of `windows.go:209` is what keeps the same starts harmless on Windows.
- `pairing_manual`: a machine that has received no `pair.hello` refuses unknown
  certificates in the handshake that must come before a `pair.hello`. The manual
  pairing of `README.md:46` fails on fresh machines without discovery.
- `pairing_reject`: `RejectPeer` leaves the peer in `TrustedPeers`, and its next
  beacon makes it trusted again.

### What the properties leave open

Each property says what the code keeps; where that is less than one might
expect, its conditions say so.

- `EscapeReturnsControl` assumes peers that read. `control.leave` is written before
  `ExitControl`, without a deadline, and the consumer of the Escape taps writes events
  itself: with a peer that stops reading (`Unresponsive` not empty) the taps do not work.
- A session ends beyond the peer's edge opposite to the one the cursor came by
  (`BeyondEdge`), and positions are sent in the coordinates of the sender's layout.
- `RemoteCursorInBounds` excepts a cursor that `forwardControlEvent` stored in a session
  begun meanwhile, and a write of such a move that fails stops the new session
  (`SendFails`). The new peer is never told that position.
- `LoneSaveReachesPeers` is about saves that do not overlap: after crossing saves
  machines may stay with different layouts. `OneSource` says what each of them still
  has: the layout of one save, never parts of several.
- `OneSource` lets a machine place and resize screens of its own (`OwnWork`). That
  approving a peer resizes its node and leaves the neighbours where they are
  (`service.go:1202`), so that nodes may overlap or part, is left open.
- `NoStrandedSuppression` keeps input from being withheld without a session, not the
  reverse: when one stop has cleared the session and a start publishes a new one with
  `EnterControl` done, the late `ExitControl` of the stop releases the input, and the banner
  says "Local input is being held back here" (`app.js:109`) while it is not.
  `OnlyOverlapsDisagree` shows that nothing but such an overlap leads there: without one,
  session and bridge agree whenever no start or stop is under way, whatever failed.
- `Start` logs a failure of `StartCapture` and goes on without a consumer
  (`service.go:181`). `StartControl` from the web UI still withholds the cursor, and nobody
  hears the Escape taps: `EscapeReturnsControl` speaks of taps that a consumer takes.
- The hook of Windows reports a move as the difference to the position it was told
  before (`windows.go:415`), and while input is withheld the cursor does not leave its
  pixel. What position Windows passes for a swallowed move is not in the repository;
  `EdgeHandoff` takes the deltas to be the hand's, as they are on macOS.
- `BannerEndsWithControl` excepts connections that broke and controllers whose own
  banner a `control.leave` removed: in both cases the controlled machine goes on
  showing that it is controlled.
- `NothingStaysPressed` excepts what was down when control changed hands: a stop
  sends no releases.
- `PairFits` excepts an identity cut short between its two files: every later start
  then fails, and nothing makes the identity anew.

## Fairness

`Bridge!BridgeFairSpec` has weak fairness of each thread that is in a call, as the
Go scheduler runs every goroutine that can run. It excludes a thread that waits for
an unresponsive peer in a dial or a write (`Unblocked`), since neither has a
deadline. No request, tap, message of a peer or
failure is fair. `Transfer!FairSpec` has weak fairness of each sender and each
receiver; neither waits for anything but the other's next message or the end of
the connection, and TCP keep-alive, which Go's dialer and listener turn on, ends
a connection whose other end is gone. `MessageChannel!FairSpec` has weak fairness of
a `Write` under way and of the goroutine that reads. File errors and `Break` may
happen at any time but need not. The other modules state no liveness.

## Proofs

TLAPS proves, for every value of the constants under the assumptions named in the
modules (`ControlSessionAssumption`, `PairingAssumption`, `GeometryAssumption`,
`EdgeHandoffAssumption`, `TransferAssumption`, `LayoutSyncAssumption`,
`ControlPairAssumption`, `MessageChannelAssumption`, `StartupAssumption`):

- `ControlSession_proofs`: `TypeCorrect`, `NeverStranded`, `SessionConnectionOpen`,
  `BannerTruthful`, and `ConnectionsFollowWire`, the refinement of `ControlWire`.
  `SessionOwnsOpenConnection` is not inductive: whether a stop closes the session's
  connection depends on which threads hold it.
  `ControlInvariant` adds ownership. A dialled connection has one owner: the thread
  that dialled it until it publishes it, then the service, then the thread whose stop
  took it out until it has closed it. What a thread owns is open at this end and is
  not the service's, no two threads own the same, and the locals a thread relies on
  at its label name a peer and a connection dialled to that peer. The proof has one
  lemma per action. `NeverStranded` and `BannerTruthful` are then preserved by each
  step: only a thread that goes on to `publish`, `leave` or `exit` answers for withheld input.
  `BridgeRunsSessions` carries all this over to `Bridge`, whose steps are steps of
  `ControlSession`, and with it `CursorAlwaysComesBack`, for Windows: the cursor is hidden
  once while input is withheld and not at all otherwise (`HiddenOnce`), and
  `NeverStranded` says when input is not withheld. `BridgeTypeCorrect` needs only that
  withheld input means a hidden cursor (`CountInv`), which holds on macOS too.
  `OverlapsAlonePart` is about both platforms. Its invariant `SerialInv` speaks of the
  time before an overlap: at most one thread is in a call, and session, input and
  cursor are where its label says (`Phase`); with no thread in a call they agree.
  For the refinement, `WireInv` says what a connection carries at each label of the thread
  that has it: nothing before `control.enter` is written, no `control.leave` until its
  owner writes it. Each step is then a step of `ControlWire` or a stutter.
- `Pairing_proofs`: `PairingTypeCorrect`, `ConfirmedPairingsSurvive`,
  `TrustIsExplicit`, `ListedTrustIsRecorded`. `PairingInvariant` proves them together,
  as each leans on the others (a save writes out the trust in memory, so what is
  confirmed has to be in memory while the machine runs, and what is in memory has
  to be asked for), and adds that a machine that is down lists nobody and that a
  machine that sets up a connection runs.
- `EdgeHandoff_proofs`: `HandoffTypeCorrect`, `CursorStaysOnPeer`, `PeerIsInStep`,
  `BorderIsShared`. The invariant adds that a session's bounds have pixels, which is what
  clamping needs, and that a move whose session is still there aims at a pixel of its peer;
  `Captured` adds that every event was captured on this screen. Lemmas state what `Clamp`,
  `EntryPoint` and `EdgeAt` return and that adjoining screens have pixels side by side.
  They hold for every inset and margin, those of the code included.
- `Transfer_proofs`: `TransferTypeCorrect`, `CompleteTransfersAreWhole`,
  `FailedTransfersStayIncomplete`, `ProgressIsNeverAhead`. The stream of an upload is
  the offer, its chunks and the end, numbered by `Msg`. `TransferInvariant` says that
  what is on the way is the piece of it that starts where the receiver is (`Taken`)
  and ends no later than where the sender is (`Put`), there exactly while the
  connection is open. So the end is taken only after the last chunk, and never
  from a sender that failed. `UploadsAreDelivered` is the refinement of `Delivery`. It adds
  `FitInv`, that the sender's calls and its job begin and end together. Each step of the sender then maps to a `Begin`, an `End` or
  a stutter, each of the receiver to a `Store`, an `Arrive` or a stutter; a break of the
  connection changes nothing that `Delivery` sees.
- `LayoutSync_proofs`: `LayoutTypeCorrect`, `OwnScreenStaysPlaced`, `LoneSaveIsShared`,
  `ApprovalsKeepApart`. `LayoutInvariant` follows the last save while it stands alone:
  its machine holds it, and so does every listed peer that is neither still to be
  dialled, nor has it in the mail, nor missed it. `LayoutsHaveOneSource` is inductive by
  itself: lemmas say that what `EnsureLocal` and an approval make of a layout is `MadeFrom`
  it, and that `MadeFrom` is kept when more is made of the result.
- `ControlPair_proofs`: `PairTypeCorrect`, `BannerEnds`, `NothingIsLeftPressed`. `PairInvariant` accounts for
  every banner in mode receiving: a session of the machine it names, a broken or muted
  connection from it, or a `control.leave` still under way behind its `control.enter`.
  An input may be down on a machine because of a finger several machines away. `PressInv`
  avoids chains of machines: it says of every set of machines that nobody outside it
  feeds, with no finger on the input and nothing under way in it, that the input is up in
  all of it. A step can make such a set only by answering what was down.
- `MessageChannel_proofs`: `ChannelTypeCorrect`, and `ChannelIsQueue`, the refinement: initial states map to
  initial states and each step to a `Send`, a `Receive` or a stutter. `ChannelInvariant`
  says that messages end where records end, that the decoder began with the message
  after the last one received or with the newline before it, and that it has not read
  beyond that message's record.
- `Startup_proofs`: `StartupTypeCorrect`, `IdentityIsKept`, `PairAlwaysFits`,
  `SavedSettingsAreKept`. `StartupInvariant` says that only the process with the lock
  is past it, and what its progress says of each file. `ConfigOnlyGoesForward`, an action
  property, adds that a process about to rename has settings newer than `config.json`
  (`NewerWaits`); that its temporary file holds them, `StartupInvariant` says already.

Only model-checked: the liveness properties (`EscapeReturnsControl`, `UploadEnds`,
`AllArrive`), which are beyond the prover. The runs that are violated have nothing to
prove. Every other property of a run is a theorem.

## Not modelled

Discovery's choice of addresses, HTTP decoding, the browser application, the C and
Win32 calls, key codes and scrolling, zip archives, logs, packaging: I/O without a
state of their own to check. What the browser may save is any layout; the draft that
its polls overwrite is left out. The `offline` status is display only. `newID` is
the clock and taken to be distinct for each upload. Power loss that undoes a
rename is outside: a crash is the process ending. `StopCapture` and `Close` run when
the process ends and nothing is left to observe. What a peer does with a cursor in the
coordinates of the sender's layout is beyond `Inject`, a call of the system.

## Plan

What is left, should the project grow:

1. The browser's draft of a layout against the polls that overwrite it (`app.js`).
2. Events steered on the controller's coordinates and injected on the peer's, once
   `EdgeHandoff` and `ControlPair` share one model of a screen.
