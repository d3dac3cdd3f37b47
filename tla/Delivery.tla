------------------------------ MODULE Delivery ------------------------------
(***************************************************************************)
(* What sending files promises, seen from both machines: an upload begins, *)
(* its chunks reach the copy on the other machine in order, and it ends    *)
(* once, sent or failed.  The copy is announced as arrived only when it is *)
(* whole and the upload was sent; sent alone does not promise that it ever *)
(* arrives.                                                                *)
(***************************************************************************)
EXTENDS Naturals, Sequences

CONSTANTS
  Uploads,  \* calls of SendUpload
  Size      \* Size[u]: chunks in the archive of u

VARIABLES
  outcome,  \* outcome[u]: "none", "under way", "sent" or "failed"
  copy,     \* copy[u]: the chunks on the other machine
  arrived   \* arrived[u]: the other machine shows the copy as complete

deliveryVars == <<outcome, copy, arrived>>

Init ==
  /\ outcome = [u \in Uploads |-> "none"]
  /\ copy = [u \in Uploads |-> << >>]
  /\ arrived = [u \in Uploads |-> FALSE]

Begin(u) ==
  /\ outcome[u] = "none"
  /\ outcome' = [outcome EXCEPT ![u] = "under way"]
  /\ UNCHANGED <<copy, arrived>>

End(u) ==
  /\ outcome[u] = "under way"
  /\ \E o \in {"sent", "failed"} : outcome' = [outcome EXCEPT ![u] = o]
  /\ UNCHANGED <<copy, arrived>>

\* The next chunk is stored; what is on the way may be so after the upload ended.
Store(u) ==
  /\ outcome[u] # "none" /\ ~arrived[u] /\ Len(copy[u]) < Size[u]
  /\ copy' = [copy EXCEPT ![u] = Append(@, Len(@))]
  /\ UNCHANGED <<outcome, arrived>>

Arrive(u) ==
  /\ outcome[u] = "sent" /\ Len(copy[u]) = Size[u] /\ ~arrived[u]
  /\ arrived' = [arrived EXCEPT ![u] = TRUE]
  /\ UNCHANGED <<outcome, copy>>

Next == \E u \in Uploads : Begin(u) \/ End(u) \/ Store(u) \/ Arrive(u)

Spec == Init /\ [][Next]_deliveryVars
=============================================================================
