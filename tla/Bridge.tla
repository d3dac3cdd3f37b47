-------------------------------- MODULE Bridge --------------------------------
(***************************************************************************)
(* The platform bridges (internal/platform/darwin.go and windows.go) under *)
(* the control sessions of ControlSession: whether captured input reaches  *)
(* the service at all, and how often the cursor has been hidden.           *)
(*                                                                         *)
(* ControlSession's locked is the field of that name, which both bridges   *)
(* set with the flag that withholds input and with the cursor's being held *)
(* in place.  Both platforms count how often the cursor was hidden and     *)
(* show it when it has been shown as often.                                *)
(***************************************************************************)
EXTENDS ControlSession, Integers

CONSTANT Platform  \* the platform the process runs on

ASSUME BridgeAssumption == Platform \in {"darwin", "windows"}

VARIABLES
  capturing,  \* StartCapture succeeded, so the consumer runs
  hides,      \* how often the cursor was hidden and not shown since
  overlapped  \* history: two starts or stops were under way at once since the
              \* session and the bridge were last in agreement

bridgeVars == <<capturing, hides>>
allVars == <<vars, bridgeVars, overlapped>>

\* Thread t is in beginControl or stopControlSession.
InCall(t) == pc[t] \in {"lookup", "clear", "leave", "exit", "close", "dial",
                         "enter", "lock", "publish", "first"}
Quiet == \A t \in Threads : ~InCall(t)
Overlap == \E t, u \in Threads : t # u /\ InCall(t) /\ InCall(u)

\* Input is withheld exactly while a session is on, and the cursor is hidden once.
Agreed ==
  /\ locked <=> controlState # None
  /\ hides = IF locked THEN 1 ELSE 0

\* Start logs an error of StartCapture (no Accessibility permission, no event
\* tap, no hook) and goes on without a consumer.
BridgeInit ==
  /\ Init
  /\ capturing \in BOOLEAN
  /\ hides = 0
  /\ overlapped = FALSE

\* Bug: no bridge looks whether the input is withheld already.
Enter_NoGuard(t) ==
  /\ EnterControl(t)
  /\ hides' = IF pc'[t] = "publish" THEN hides + 1 ELSE hides
  /\ UNCHANGED capturing

\* Only the bridge of Windows looks whether the input is withheld already.
Enter(t) ==
  /\ EnterControl(t)
  /\ hides' = IF pc'[t] = "publish" /\ ~(Platform = "windows" /\ locked) THEN hides + 1 ELSE hides
  /\ UNCHANGED capturing

\* Bug: the cursor is shown whether or not it was hidden.
Exit_NoGuard(t) ==
  /\ ExitControl(t)
  /\ hides' = hides - 1
  /\ UNCHANGED capturing

Exit(t) ==
  /\ ExitControl(t)
  /\ hides' = IF locked THEN hides - 1 ELSE hides
  /\ UNCHANGED capturing

\* The consumer takes what the event tap or the hooks have put in the channel.
Captured(p) == capturing /\ TakeEvent(p) /\ UNCHANGED bridgeVars

Elsewhere(t) ==
  /\ \/ ClearSession(t) \/ SendLeave(t) \/ CloseConn(t)
     \/ Lookup(t) \/ Dial(t) \/ SendEnter(t) \/ Publish(t) \/ SendFirst(t)
     \/ t = Consumer /\ Forward
  /\ UNCHANGED bridgeVars

Asked(t) ==
  /\ StopControl(t) \/ \E p \in Peers : StartControl(t, p)
  /\ UNCHANGED bridgeVars

\* The history is not part of the program.
Note == overlapped' = (Overlap' \/ (overlapped /\ ~(Quiet /\ Agreed)'))

BridgeStep ==
  \/ \E t \in Handlers : Asked(t)
  \/ \E p \in Peers : Captured(p)
  \/ \E t \in Threads : Enter(t) \/ Exit(t) \/ Elsewhere(t)
  \/ Environment /\ UNCHANGED bridgeVars

BridgeNext == BridgeStep /\ Note

BridgeSpec == BridgeInit /\ [][BridgeNext]_allVars

\* The Go scheduler runs every goroutine that can run.
BridgeFairSpec ==
  /\ BridgeSpec
  /\ \A t \in Threads : WF_allVars(Unblocked(t) /\ (Enter(t) \/ Exit(t) \/ Elsewhere(t)) /\ Note)

-----------------------------------------------------------------------------
(* Properties                                                              *)

\* Every variable holds values of the type it stands for.
BridgeTypeOK ==
  TypeOK /\ capturing \in BOOLEAN /\ hides \in Nat /\ overlapped \in BOOLEAN

\* "Press Escape twice quickly to return control" (app.js:109): whenever no
\* session is on and no start or stop under way, the user has the input and sees
\* the cursor, whatever starts, stops and failures came before and however
\* their calls of the bridge interleaved.  It holds on Windows; on macOS two
\* starts that overlap hide the cursor twice, and a stop shows it once.
CursorComesBack ==
  (\A t \in Threads : pc[t] = "idle") /\ controlState = None => ~locked /\ hides = 0

\* "Local input is being held back here" (app.js:109) while a session is on, and
\* not otherwise: between starts and stops the session and the bridge agree, on
\* either platform and whichever step of them failed, unless two of them were
\* under way at once.  Then the ExitControl of a stop, which comes after s.mu is
\* released, may undo the EnterControl of a session begun meanwhile.
OnlyOverlapsDisagree == Quiet => Agreed \/ overlapped
=============================================================================
