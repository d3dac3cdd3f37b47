------------------------------ MODULE Pairing ------------------------------
(***************************************************************************)
(* Who trusts whom (internal/app/service.go, internal/config/store.go):    *)
(* discovery beacons, the pair.hello handshake that opens every connection,*)
(* approval, rejection, pairing by address and code, and what of it is in  *)
(* config.json when a machine crashes and starts again.                    *)
(*                                                                         *)
(* A machine's id is derived from its certificate, so a machine stands for *)
(* its id and its fingerprint, and the pair code a user types either is    *)
(* the one the other machine displays or is not.                           *)
(***************************************************************************)
EXTENDS Naturals, FiniteSets

CONSTANTS
  Nodes,      \* the machines
  None,
  Discovery   \* whether beacons get through on this network

ASSUME PairingAssumption ==
  /\ None \notin Nodes
  /\ Discovery \in BOOLEAN

VARIABLES
  running,  \* running[n]: MouseShare runs on n
  status,   \* status[n][m]: s.peers[m].Status on n; "absent" if no entry
  trusted,  \* trusted[n]: keys of settings.TrustedPeers in memory
  pending,  \* pending[n]: s.pendingPair.PeerID
  disk,     \* disk[n]: TrustedPeers in config.json
  dial,     \* dial[n]: the connection n is setting up, or None
  asked,    \* asked[n]: machines n's user has approved or entered the code of
  acked,    \* acked[n]: machines n's user was told are paired
  spurned   \* spurned[n]: machines n's user rejected and has not let in since

memory == <<status, trusted, pending>>
user == <<asked, acked, spurned>>
vars == <<running, memory, disk, dial, user>>

Statuses == {"absent", "pending", "trusted", "rejected"}
Others(n) == Nodes \ {n}
Calls == [to : Nodes, kind : {"manual", "service"},
          step : {"connect", "record", "approve"}]

Init ==
  /\ running = [n \in Nodes |-> TRUE]
  /\ status = [n \in Nodes |-> [m \in Nodes |-> "absent"]]
  /\ trusted = [n \in Nodes |-> {}]
  /\ pending = [n \in Nodes |-> None]
  /\ disk = [n \in Nodes |-> {}]
  /\ dial = [n \in Nodes |-> None]
  /\ asked = [n \in Nodes |-> {}]
  /\ acked = [n \in Nodes |-> {}]
  /\ spurned = [n \in Nodes |-> {}]

SetStatus(n, m, s) == status' = [status EXCEPT ![n][m] = s]
Known(n, m) == status[n][m] # "absent"

\* An entry made for a peer met for the first time is pending; others stay.
MetStatus(n, m) == IF Known(n, m) THEN status[n][m] ELSE "pending"

\* store.Save of the settings with trust set T: written whole or, on an error,
\* not at all (a temporary file renamed over config.json).
SaveOK(n, T) == disk' = [disk EXCEPT ![n] = T]
SaveFails(n) == UNCHANGED disk

\* The user of n lets m in.
Granted(n, m) ==
  /\ asked' = [asked EXCEPT ![n] = @ \cup {m}]
  /\ spurned' = [spurned EXCEPT ![n] = @ \ {m}]

-----------------------------------------------------------------------------
(* Discovery                                                               *)

\* m broadcasts its beacon every two seconds and n receives it.
Heard(n, m) == Discovery /\ running[n] /\ running[m]

\* Bug: every peer that is heard of is trusted.
Beacon_Trusts(n, m) ==
  /\ Heard(n, m)
  /\ SetStatus(n, m, "trusted")
  /\ trusted' = [trusted EXCEPT ![n] = @ \cup {m}]
  /\ UNCHANGED <<running, pending, disk, dial, user>>

\* Bug: the status of a new entry is left empty.
Beacon_NoDefault(n, m) ==
  /\ Heard(n, m)
  /\ SetStatus(n, m, IF m \in trusted[n] THEN "trusted" ELSE IF Known(n, m) THEN status[n][m] ELSE "")
  /\ UNCHANGED <<running, trusted, pending, disk, dial, user>>

\* upsertPeer: n hears the beacon of m.
Beacon(n, m) ==
  /\ Heard(n, m)
  /\ SetStatus(n, m, IF m \in trusted[n] THEN "trusted" ELSE MetStatus(n, m))
  /\ UNCHANGED <<running, trusted, pending, disk, dial, user>>

-----------------------------------------------------------------------------
(* The user                                                                *)

\* Bug: the trust map is saved before the peer is entered in it.
ApprovePeer_SavesFirst(n, m) ==
  /\ running[n] /\ Known(n, m)
  /\ SetStatus(n, m, "trusted")
  /\ trusted' = [trusted EXCEPT ![n] = @ \cup {m}]
  /\ Granted(n, m)
  /\ SaveOK(n, trusted[n]) /\ acked' = [acked EXCEPT ![n] = @ \cup {m}]
  /\ UNCHANGED <<running, pending, dial>>

ApprovePeer(n, m) ==
  /\ running[n] /\ Known(n, m)
  /\ SetStatus(n, m, "trusted")
  /\ trusted' = [trusted EXCEPT ![n] = @ \cup {m}]
  /\ Granted(n, m)
  /\ \/ SaveOK(n, trusted'[n]) /\ acked' = [acked EXCEPT ![n] = @ \cup {m}]
     \/ SaveFails(n) /\ UNCHANGED acked
  /\ UNCHANGED <<running, pending, dial>>

\* Only the entry's status changes: TrustedPeers and config.json keep m.
RejectPeer(n, m) ==
  /\ running[n] /\ Known(n, m)
  /\ SetStatus(n, m, "rejected")
  /\ spurned' = [spurned EXCEPT ![n] = @ \cup {m}]
  /\ UNCHANGED <<running, trusted, pending, disk, dial, asked, acked>>

\* SaveLayout and handleLayoutUpdate write the trust map out as well.
SaveLayout(n) ==
  /\ running[n]
  /\ SaveOK(n, trusted[n])
  /\ UNCHANGED <<running, memory, dial, user>>

-----------------------------------------------------------------------------
(* connectPeer, and ManualPair around it                                   *)

\* POST /api/manual-pair with the address of m.
ManualPair(n, m) ==
  /\ running[n] /\ dial[n] = None
  /\ dial' = [dial EXCEPT ![n] = [to |-> m, kind |-> "manual", step |-> "connect"]]
  /\ UNCHANGED <<running, memory, disk, user>>

\* A control session, a transfer or a layout update for a trusted peer.
ConnectTrusted(n, m) ==
  /\ running[n] /\ dial[n] = None /\ status[n][m] = "trusted"
  /\ dial' = [dial EXCEPT ![n] = [to |-> m, kind |-> "service", step |-> "connect"]]
  /\ UNCHANGED <<running, memory, disk, user>>

\* VerifyConnection on m: a certificate in TrustedPeers, or any if a
\* pair.hello has been received before.
Admits(m, n) == n \in trusted[m] \/ pending[m] # None

HangUp(n) == dial' = [dial EXCEPT ![n] = None]
ToStep(n, s) == dial' = [dial EXCEPT ![n].step = s]

Refused(n) ==
  /\ dial[n] # None /\ dial[n].step = "connect"
  /\ ~running[dial[n].to] \/ ~Admits(dial[n].to, n)
  /\ HangUp(n)
  /\ UNCHANGED <<running, memory, disk, user>>

\* TLS, then pair.hello answered by handlePairHello on the other machine.
PairHello(n) ==
  /\ dial[n] # None /\ dial[n].step = "connect"
  /\ LET m == dial[n].to IN
       /\ running[m] /\ Admits(m, n)
       /\ SetStatus(m, n, MetStatus(m, n))
       /\ pending' = [pending EXCEPT ![m] = n]
  /\ ToStep(n, "record")
  /\ UNCHANGED <<running, trusted, disk, user>>

\* connectPeer enters the peer it met, and a service call is connected.
Record(n) ==
  /\ dial[n] # None /\ dial[n].step = "record"
  /\ SetStatus(n, dial[n].to, MetStatus(n, dial[n].to))
  /\ IF dial[n].kind = "manual" THEN ToStep(n, "approve") ELSE HangUp(n)
  /\ UNCHANGED <<running, trusted, pending, disk, user>>

CodeMismatch(n) ==
  /\ dial[n] # None /\ dial[n].step = "approve"
  /\ HangUp(n)
  /\ UNCHANGED <<running, memory, disk, user>>

\* Bug: the entry is trusted but TrustedPeers is not updated.
CodeMatches_EntryOnly(n) ==
  /\ dial[n] # None /\ dial[n].step = "approve"
  /\ SetStatus(n, dial[n].to, "trusted")
  /\ Granted(n, dial[n].to)
  /\ SaveOK(n, trusted[n]) /\ UNCHANGED acked
  /\ HangUp(n)
  /\ UNCHANGED <<running, trusted, pending>>

CodeMatches(n) ==
  /\ dial[n] # None /\ dial[n].step = "approve"
  /\ LET m == dial[n].to IN
       /\ SetStatus(n, m, "trusted")
       /\ trusted' = [trusted EXCEPT ![n] = @ \cup {m}]
       /\ Granted(n, m)
       /\ \/ SaveOK(n, trusted'[n]) /\ acked' = [acked EXCEPT ![n] = @ \cup {m}]
          \/ SaveFails(n) /\ UNCHANGED acked
  /\ HangUp(n)
  /\ UNCHANGED <<running, pending>>

-----------------------------------------------------------------------------
(* Crash and restart: New loads the settings, everything else starts empty *)

Crash(n) ==
  /\ running[n]
  /\ running' = [running EXCEPT ![n] = FALSE]
  /\ status' = [status EXCEPT ![n] = [m \in Nodes |-> "absent"]]
  /\ trusted' = [trusted EXCEPT ![n] = {}]
  /\ pending' = [pending EXCEPT ![n] = None]
  /\ HangUp(n)
  /\ UNCHANGED <<disk, user>>

Restart(n) ==
  /\ ~running[n]
  /\ running' = [running EXCEPT ![n] = TRUE]
  /\ trusted' = [trusted EXCEPT ![n] = disk[n]]
  /\ UNCHANGED <<status, pending, disk, dial, user>>

-----------------------------------------------------------------------------
Next ==
  \E n \in Nodes :
    \/ \E m \in Others(n) :
         \/ Beacon(n, m)
         \/ ApprovePeer(n, m) \/ RejectPeer(n, m)
         \/ ManualPair(n, m) \/ ConnectTrusted(n, m)
    \/ SaveLayout(n)
    \/ Refused(n) \/ PairHello(n) \/ Record(n)
    \/ CodeMismatch(n) \/ CodeMatches(n)
    \/ Crash(n) \/ Restart(n)

Spec == Init /\ [][Next]_vars

-----------------------------------------------------------------------------
(* Properties                                                              *)

\* Every variable holds values of the type it stands for.
TypeOK ==
  /\ running \in [Nodes -> BOOLEAN]
  /\ status \in [Nodes -> [Nodes -> Statuses]]
  /\ trusted \in [Nodes -> SUBSET Nodes]
  /\ pending \in [Nodes -> Nodes \cup {None}]
  /\ disk \in [Nodes -> SUBSET Nodes]
  /\ dial \in [Nodes -> Calls \cup {None}]
  /\ asked \in [Nodes -> SUBSET Nodes]
  /\ acked \in [Nodes -> SUBSET Nodes]
  /\ spurned \in [Nodes -> SUBSET Nodes]

\* "Trusted peer identities persist across restarts" (docs/PRD.md:33): a pairing
\* the user was told of is in config.json, however saves fail and machines
\* crash after it, and in memory whenever the machine runs.
PairingsSurvive ==
  \A n \in Nodes :
    /\ acked[n] \subseteq disk[n]
    /\ running[n] => acked[n] \subseteq trusted[n]

\* "Explicit trust approval" (docs/PRD.md:16): trust, in memory or on disk, comes
\* only from the user of the machine itself; no beacon, hello, restart or
\* layout update adds any.
TrustIsAskedFor ==
  \A n \in Nodes : trusted[n] \cup disk[n] \subseteq asked[n]

\* A peer shown as trusted is one the TLS listener admits: no interleaving of
\* handshakes, rejections, approvals and restarts leaves the list of peers
\* claiming a trust that settings.TrustedPeers does not record.
TrustedPeerIsRecorded ==
  \A n, m \in Nodes : status[n][m] = "trusted" => m \in trusted[n]

\* README.md:46: "If discovery fails, copy the IP:41091 address from one machine
\* and enter it on the other": a machine that runs answers a manual pairing.
ManualPairingReachesPeer ==
  [][\A n \in Nodes :
       dial[n] # None /\ dial[n].kind = "manual" /\ dial[n].step = "connect"
         /\ running[dial[n].to] /\ running'[n] => dial'[n] # None]_vars

\* "Explicit trust approval" (docs/PRD.md:16): a peer the user has rejected is
\* not shown and treated as trusted until the user lets it in again.
RejectionStands ==
  \A n \in Nodes : \A m \in spurned[n] : status[n][m] # "trusted"
=============================================================================
