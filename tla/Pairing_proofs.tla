--------------------------- MODULE Pairing_proofs ---------------------------
(***************************************************************************)
(* Proofs about Pairing for any set of machines: trust is granted by the   *)
(* user alone, is recorded where it is shown, and once confirmed is on     *)
(* disk for good.                                                          *)
(***************************************************************************)
EXTENDS Pairing, TLAPS

\* A machine that sets up a connection runs: a crash drops the call.
CallersRun == \A n \in Nodes : dial[n] # None => running[n]

\* A machine that does not run lists nobody.
StoppedListNobody ==
  \A n, m \in Nodes : ~running[n] => status[n][m] = "absent"

\* The properties of Pairing and what makes them inductive.
PairingInv ==
  /\ TypeOK
  /\ CallersRun
  /\ StoppedListNobody
  /\ PairingsSurvive
  /\ TrustIsAskedFor
  /\ TrustedPeerIsRecorded

USE DEF memory, user

\* Nobody is one of the calls a machine can be in.
LEMMA InitPairing == Init => PairingInv
BY PairingAssumption
DEF Init, PairingInv, TypeOK, CallersRun, StoppedListNobody, PairingsSurvive,
    TrustIsAskedFor, TrustedPeerIsRecorded, Statuses

\* What MetStatus returns is a status, and trusted only if it was before.
LEMMA MetStatusKeepsTrust ==
  ASSUME PairingInv, NEW n \in Nodes, NEW m \in Nodes
  PROVE  /\ MetStatus(n, m) \in Statuses
         /\ MetStatus(n, m) = "trusted" => m \in trusted[n]
BY DEF MetStatus, Known, PairingInv, TypeOK, TrustedPeerIsRecorded, Statuses

\* Setting one entry of the peers of n leaves a table of statuses.
LEMMA SetStatusTyped ==
  ASSUME TypeOK, NEW n \in Nodes, NEW m \in Nodes, NEW s \in Statuses, SetStatus(n, m, s)
  PROVE  /\ status' \in [Nodes -> [Nodes -> Statuses]]
         /\ status'[n][m] = s
         /\ \A k, l \in Nodes : k # n \/ l # m => status'[k][l] = status[k][l]
BY DEF SetStatus, TypeOK

\* The call n is in, with its next step s, is a call.
LEMMA ToStepTyped ==
  ASSUME TypeOK, NEW n \in Nodes, dial[n] # None,
         NEW s \in {"connect", "record", "approve"}, ToStep(n, s)
  PROVE  /\ dial' \in [Nodes -> Calls \cup {None}]
         /\ \A k \in Nodes : dial'[k] # None => dial[k] # None
<1>1. dial[n] \in Calls
  BY DEF TypeOK
<1>2. [dial[n] EXCEPT !.step = s] \in Calls
  BY <1>1 DEF Calls
<1>3. dial' = [dial EXCEPT ![n] = [dial[n] EXCEPT !.step = s]]
  BY DEF ToStep
<1> QED
  BY <1>2, <1>3 DEF TypeOK

\* A step that changes the status of one entry of a running machine, to
\* trusted only if TrustedPeers has it, and no trust, keeps the invariant.
LEMMA EntryChanged ==
  ASSUME PairingInv, NEW n \in Nodes, NEW m \in Nodes, NEW s \in Statuses, running[n],
         SetStatus(n, m, s), s = "trusted" => m \in trusted[n],
         pending' \in [Nodes -> Nodes \cup {None}],
         spurned' \in [Nodes -> SUBSET Nodes],
         dial' \in [Nodes -> Calls \cup {None}],
         \A k \in Nodes : dial'[k] # None => dial[k] # None,
         UNCHANGED <<running, trusted, disk, asked, acked>>
  PROVE  PairingInv'
<1>1. /\ status' \in [Nodes -> [Nodes -> Statuses]]
      /\ status'[n][m] = s
      /\ \A k, l \in Nodes : k # n \/ l # m => status'[k][l] = status[k][l]
  BY SetStatusTyped DEF PairingInv
<1>2. TypeOK'
  BY <1>1 DEF PairingInv, TypeOK
<1>3. CallersRun'
  BY DEF PairingInv, CallersRun
<1>4. StoppedListNobody'
  BY <1>1 DEF PairingInv, StoppedListNobody
<1>5. PairingsSurvive' /\ TrustIsAskedFor'
  BY DEF PairingInv, PairingsSurvive, TrustIsAskedFor
<1>6. TrustedPeerIsRecorded'
  BY <1>1 DEF PairingInv, TrustedPeerIsRecorded
<1> QED
  BY <1>2, <1>3, <1>4, <1>5, <1>6 DEF PairingInv

\* A beacon shows a peer as trusted only if TrustedPeers has it.
LEMMA BeaconKeeps ==
  ASSUME PairingInv, NEW n \in Nodes, NEW m \in Nodes, Beacon(n, m)
  PROVE  PairingInv'
<1> DEFINE s == IF m \in trusted[n] THEN "trusted" ELSE MetStatus(n, m)
<1>1. s \in Statuses /\ (s = "trusted" => m \in trusted[n])
  BY MetStatusKeepsTrust DEF Statuses
<1>2. SetStatus(n, m, s) /\ running[n] /\ UNCHANGED <<running, trusted, pending, disk, dial, user>>
  BY DEF Beacon, Heard
<1> HIDE DEF s
<1> QED
  BY <1>1, <1>2, EntryChanged DEF PairingInv, TypeOK

\* An approval enters the peer in the trust map before the map is saved, so
\* what the user is told is paired is on disk.
LEMMA TrustGranted ==
  ASSUME PairingInv, NEW n \in Nodes, NEW m \in Nodes, running[n],
         SetStatus(n, m, "trusted"),
         trusted' = [trusted EXCEPT ![n] = @ \cup {m}],
         Granted(n, m),
         \/ SaveOK(n, trusted'[n]) /\ acked' = [acked EXCEPT ![n] = @ \cup {m}]
         \/ SaveFails(n) /\ UNCHANGED acked,
         dial' \in [Nodes -> Calls \cup {None}],
         \A k \in Nodes : dial'[k] # None => dial[k] # None,
         UNCHANGED <<running, pending>>
  PROVE  PairingInv'
<1>1. /\ status' \in [Nodes -> [Nodes -> Statuses]]
      /\ status'[n][m] = "trusted"
      /\ \A k, l \in Nodes : k # n \/ l # m => status'[k][l] = status[k][l]
  BY SetStatusTyped DEF PairingInv, Statuses
<1>2. /\ trusted' \in [Nodes -> SUBSET Nodes]
      /\ trusted'[n] = trusted[n] \cup {m}
      /\ \A k \in Nodes : k # n => trusted'[k] = trusted[k]
  BY DEF PairingInv, TypeOK
<1>3. /\ asked' \in [Nodes -> SUBSET Nodes] /\ spurned' \in [Nodes -> SUBSET Nodes]
      /\ asked'[n] = asked[n] \cup {m}
      /\ \A k \in Nodes : k # n => asked'[k] = asked[k]
  BY DEF PairingInv, TypeOK, Granted
<1>4. /\ disk' \in [Nodes -> SUBSET Nodes] /\ acked' \in [Nodes -> SUBSET Nodes]
      /\ \A k \in Nodes : k # n => disk'[k] = disk[k] /\ acked'[k] = acked[k]
      /\ \/ disk'[n] = trusted'[n] /\ acked'[n] = acked[n] \cup {m}
         \/ disk'[n] = disk[n] /\ acked'[n] = acked[n]
  <2>1. CASE SaveOK(n, trusted'[n]) /\ acked' = [acked EXCEPT ![n] = @ \cup {m}]
    <3>1. disk' = [disk EXCEPT ![n] = trusted'[n]] /\ trusted'[n] \in SUBSET Nodes
      BY <1>2, <2>1 DEF SaveOK
    <3> QED
      BY <2>1, <3>1 DEF PairingInv, TypeOK
  <2>2. CASE SaveFails(n) /\ UNCHANGED acked
    BY <2>2 DEF SaveFails, PairingInv, TypeOK
  <2> QED
    BY <2>1, <2>2
<1>5. TypeOK'
  BY <1>1, <1>2, <1>3, <1>4 DEF PairingInv, TypeOK
<1>5a. CallersRun' /\ StoppedListNobody'
  BY <1>1 DEF PairingInv, CallersRun, StoppedListNobody
<1>6. PairingsSurvive'
  BY <1>2, <1>4 DEF PairingInv, TypeOK, PairingsSurvive
<1>7. TrustIsAskedFor'
  BY <1>2, <1>3, <1>4 DEF PairingInv, TypeOK, TrustIsAskedFor
<1>8. TrustedPeerIsRecorded'
  BY <1>1, <1>2 DEF PairingInv, TrustedPeerIsRecorded
<1> QED
  BY <1>5, <1>6, <1>7, <1>8, <1>5a DEF PairingInv

LEMMA ApprovePeerKeeps ==
  ASSUME PairingInv, NEW n \in Nodes, NEW m \in Nodes, ApprovePeer(n, m)
  PROVE  PairingInv'
<1>1. dial' \in [Nodes -> Calls \cup {None}] /\ \A k \in Nodes : dial'[k] # None => dial[k] # None
  BY DEF ApprovePeer, PairingInv, TypeOK
<1> QED
  BY <1>1, TrustGranted DEF ApprovePeer

LEMMA CodeMatchesKeeps ==
  ASSUME PairingInv, NEW n \in Nodes, CodeMatches(n)
  PROVE  PairingInv'
<1> DEFINE m == dial[n].to
<1>1. m \in Nodes /\ running[n]
  BY DEF CodeMatches, PairingInv, TypeOK, CallersRun, Calls
<1>2. dial' \in [Nodes -> Calls \cup {None}] /\ \A k \in Nodes : dial'[k] # None => dial[k] # None
  BY DEF CodeMatches, HangUp, PairingInv, TypeOK
<1>3. /\ SetStatus(n, m, "trusted")
      /\ trusted' = [trusted EXCEPT ![n] = @ \cup {m}]
      /\ Granted(n, m)
      /\ \/ SaveOK(n, trusted'[n]) /\ acked' = [acked EXCEPT ![n] = @ \cup {m}]
         \/ SaveFails(n) /\ UNCHANGED acked
      /\ UNCHANGED <<running, pending>>
  BY DEF CodeMatches
<1> HIDE DEF m
<1> QED
  BY <1>1, <1>2, <1>3, TrustGranted

LEMMA RejectPeerKeeps ==
  ASSUME PairingInv, NEW n \in Nodes, NEW m \in Nodes, RejectPeer(n, m)
  PROVE  PairingInv'
<1>1. SetStatus(n, m, "rejected") /\ running[n]
      /\ UNCHANGED <<running, trusted, pending, disk, dial, asked, acked>>
  BY DEF RejectPeer
<1>2. spurned' \in [Nodes -> SUBSET Nodes]
  BY DEF RejectPeer, PairingInv, TypeOK
<1> QED
  BY <1>1, <1>2, EntryChanged DEF PairingInv, TypeOK, Statuses

\* A hello adds a peer that is not trusted, and never makes one trusted.
LEMMA PairHelloKeeps ==
  ASSUME PairingInv, NEW n \in Nodes, PairHello(n)
  PROVE  PairingInv'
<1> DEFINE m == dial[n].to
<1>1. m \in Nodes /\ dial[n] # None
  BY DEF PairHello, PairingInv, TypeOK, Calls
<1>2. MetStatus(m, n) \in Statuses /\ (MetStatus(m, n) = "trusted" => n \in trusted[m])
  BY <1>1, MetStatusKeepsTrust
<1>3. /\ SetStatus(m, n, MetStatus(m, n)) /\ running[m]
      /\ pending' = [pending EXCEPT ![m] = n]
      /\ ToStep(n, "record")
      /\ UNCHANGED <<running, trusted, disk, user>>
  BY DEF PairHello
<1> HIDE DEF m
<1>4. /\ dial' \in [Nodes -> Calls \cup {None}]
      /\ \A k \in Nodes : dial'[k] # None => dial[k] # None
  BY <1>1, <1>3, ToStepTyped DEF PairingInv
<1>5. pending' \in [Nodes -> Nodes \cup {None}]
  BY <1>1, <1>3 DEF PairingInv, TypeOK
<1> QED
  BY <1>1, <1>2, <1>3, <1>4, <1>5, EntryChanged DEF PairingInv, TypeOK

LEMMA RecordKeeps ==
  ASSUME PairingInv, NEW n \in Nodes, Record(n)
  PROVE  PairingInv'
<1> DEFINE m == dial[n].to
<1>1. m \in Nodes /\ dial[n] # None /\ running[n]
  BY DEF Record, PairingInv, TypeOK, CallersRun, Calls
<1>2. MetStatus(n, m) \in Statuses /\ (MetStatus(n, m) = "trusted" => m \in trusted[n])
  BY <1>1, MetStatusKeepsTrust
<1>3. /\ SetStatus(n, m, MetStatus(n, m))
      /\ ToStep(n, "approve") \/ HangUp(n)
      /\ UNCHANGED <<running, trusted, pending, disk, user>>
  BY DEF Record
<1> HIDE DEF m
<1>4. /\ dial' \in [Nodes -> Calls \cup {None}]
      /\ \A k \in Nodes : dial'[k] # None => dial[k] # None
  <2>1. CASE ToStep(n, "approve")
    BY <1>1, <2>1, ToStepTyped DEF PairingInv
  <2>2. CASE HangUp(n)
    BY <1>1, <2>2 DEF HangUp, PairingInv, TypeOK
  <2> QED
    BY <1>3, <2>1, <2>2
<1> QED
  BY <1>1, <1>2, <1>3, <1>4, EntryChanged DEF PairingInv, TypeOK

\* Steps that set up or drop a call, write the trust map out, or stop or
\* restart a machine.
LEMMA OtherStepsKeep ==
  ASSUME PairingInv, NEW n \in Nodes,
         \/ \E m \in Nodes : ManualPair(n, m) \/ ConnectTrusted(n, m)
         \/ SaveLayout(n) \/ Refused(n) \/ CodeMismatch(n) \/ Crash(n) \/ Restart(n)
  PROVE  PairingInv'
<1> USE DEF PairingInv, TypeOK, CallersRun, StoppedListNobody, PairingsSurvive,
            TrustIsAskedFor, TrustedPeerIsRecorded
<1>1. ASSUME NEW m \in Nodes, ManualPair(n, m) PROVE PairingInv'
  <2>1. [to |-> m, kind |-> "manual", step |-> "connect"] \in Calls
    BY DEF Calls
  <2> QED
    BY <1>1, <2>1 DEF ManualPair
<1>2. ASSUME NEW m \in Nodes, ConnectTrusted(n, m) PROVE PairingInv'
  <2>1. [to |-> m, kind |-> "service", step |-> "connect"] \in Calls
    BY DEF Calls
  <2> QED
    BY <1>2, <2>1 DEF ConnectTrusted
<1>3. CASE SaveLayout(n)
  BY <1>3 DEF SaveLayout, SaveOK
<1>4. CASE Refused(n)
  BY <1>4 DEF Refused, HangUp
<1>5. CASE CodeMismatch(n)
  BY <1>5 DEF CodeMismatch, HangUp
<1>6. CASE Crash(n)
  BY <1>6 DEF Crash, HangUp, Statuses
<1>7. CASE Restart(n)
  BY <1>7 DEF Restart
<1> QED
  BY <1>1, <1>2, <1>3, <1>4, <1>5, <1>6, <1>7

LEMMA NextPairing == PairingInv /\ [Next]_vars => PairingInv'
<1> SUFFICES ASSUME PairingInv, [Next]_vars PROVE PairingInv'
  OBVIOUS
<1>1. CASE Next
  <2>1. PICK n \in Nodes :
          \/ \E m \in Others(n) :
               \/ Beacon(n, m) \/ ApprovePeer(n, m) \/ RejectPeer(n, m)
               \/ ManualPair(n, m) \/ ConnectTrusted(n, m)
          \/ SaveLayout(n) \/ Refused(n) \/ PairHello(n) \/ Record(n)
          \/ CodeMismatch(n) \/ CodeMatches(n) \/ Crash(n) \/ Restart(n)
    BY <1>1 DEF Next
  <2>2. Others(n) \subseteq Nodes
    BY DEF Others
  <2> QED
    BY <2>1, <2>2, BeaconKeeps, ApprovePeerKeeps, RejectPeerKeeps, PairHelloKeeps,
       RecordKeeps, CodeMatchesKeeps, OtherStepsKeep
<1>2. CASE UNCHANGED vars
  BY <1>2 DEF vars, PairingInv, TypeOK, CallersRun, StoppedListNobody,
     PairingsSurvive, TrustIsAskedFor, TrustedPeerIsRecorded
<1> QED
  BY <1>1, <1>2

-----------------------------------------------------------------------------
\* The inductive invariant holds in every reachable state.
THEOREM PairingInvariant == Spec => []PairingInv
BY InitPairing, NextPairing, PTL DEF Spec

\* Every variable of the pairing state keeps its Go type.
THEOREM PairingTypeCorrect == Spec => []TypeOK
<1>1. PairingInv => TypeOK
  BY DEF PairingInv
<1> QED
  BY <1>1, PairingInvariant, PTL

\* A pairing the user was told of survives failing saves, crashes and
\* restarts (ApprovePeer and ManualPair return what store.Save returns).
THEOREM ConfirmedPairingsSurvive == Spec => []PairingsSurvive
<1>1. PairingInv => PairingsSurvive
  BY DEF PairingInv
<1> QED
  BY <1>1, PairingInvariant, PTL

\* Trust, in memory or on disk, was granted by the machine's own user.
THEOREM TrustIsExplicit == Spec => []TrustIsAskedFor
<1>1. PairingInv => TrustIsAskedFor
  BY DEF PairingInv
<1> QED
  BY <1>1, PairingInvariant, PTL

\* A peer listed as trusted is one the TLS listener admits.
THEOREM ListedTrustIsRecorded == Spec => []TrustedPeerIsRecorded
<1>1. PairingInv => TrustedPeerIsRecorded
  BY DEF PairingInv
<1> QED
  BY <1>1, PairingInvariant, PTL
=============================================================================
