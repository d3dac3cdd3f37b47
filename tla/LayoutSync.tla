----------------------------- MODULE LayoutSync -----------------------------
(***************************************************************************)
(* Where each machine believes the screens are (settings.Layout of         *)
(* internal/app/service.go), and how a layout saved on one machine reaches *)
(* the others.                                                             *)
(*                                                                         *)
(* A layout is saved in the browser, received from a peer in a             *)
(* layout.update, or extended when a peer is approved.  A save starts a    *)
(* goroutine, broadcastLayout, that lists the trusted peers and dials them *)
(* one after another; each update travels on a connection of its own and   *)
(* is handled on a goroutine of its own, so updates of different saves     *)
(* arrive in any order.  Start serves connections before it knows the      *)
(* screen, and places the screen without the mutex.                        *)
(***************************************************************************)
EXTENDS Integers, Sequences, FiniteSets

CONSTANTS
  Machines,
  Screen,     \* Screen[n]: the size platform.Bounds reports on n, 0 by 0 if it fails
  Loaded,     \* Loaded[n]: the layout in n's config.json when it starts
  Paired,     \* Paired[n]: the peers that are trusted on n when it starts
  Drafts,     \* the layouts users may save
  Approvals,  \* pairs <<n, m>>: n's user may approve m
  MaxSaves    \* bounds the number of saves

Sizes == [w : Nat, h : Nat]
Nodes == [x : Int, y : Int, w : Int, h : Int]
IsLayout(L) == DOMAIN L \subseteq Machines /\ L \in [DOMAIN L -> Nodes]
Unknown == [w |-> 0, h |-> 0]

ASSUME LayoutSyncAssumption ==
  /\ Screen \in [Machines -> Sizes]
  /\ \A n \in Machines : IsLayout(Loaded[n])
  /\ Paired \in [Machines -> SUBSET Machines]
  /\ \A L \in Drafts : IsLayout(L)
  /\ Approvals \subseteq Machines \X Machines
  /\ MaxSaves \in Nat

VARIABLES
  started,  \* started[n]: Start has returned on n; before, n only serves connections
  layout,   \* layout[n]: s.settings.Layout on n
  approved, \* approved[n]: the peers whose status on n is trusted
  saves,    \* the saves so far and how far the broadcast of each has come
  mail      \* <<m, k>>: the update of save k is on its way to m

vars == <<started, layout, approved, saves, mail>>

\* stage: "failed" if the settings could not be written, else what
\* broadcastLayout is doing; listed: the peers it lists; todo: those it has not
\* dialled yet; missed: those it did not reach; ran, alone: whether, when the
\* layout was saved, every machine ran and no update was under way.
IsSave(s) ==
  /\ s = [by |-> s.by, layout |-> s.layout, stage |-> s.stage, listed |-> s.listed,
          todo |-> s.todo, missed |-> s.missed, ran |-> s.ran, alone |-> s.alone]
  /\ s.by \in Machines /\ IsLayout(s.layout) /\ s.stage \in {"failed", "begun", "sending"}
  /\ {s.listed, s.todo, s.missed} \subseteq SUBSET Machines /\ {s.ran, s.alone} \subseteq BOOLEAN

G == INSTANCE Geometry WITH EdgeMargin <- 2, Inset <- 2

AtLeastOne(a) == IF a > 1 THEN a ELSE 1
Placed(L) == DOMAIN L
Put(L, n, node) == [d \in Placed(L) \cup {n} |-> IF d = n THEN node ELSE L[d]]

-----------------------------------------------------------------------------
(* The layout of one machine                                               *)

\* ensureLocalLayout: a screen whose bounds are known has a node of its size.
EnsureLocal(n, L) ==
  IF G!Empty(Screen[n]) THEN L
  ELSE LET at == IF n \in Placed(L) THEN L[n] ELSE [x |-> 0, y |-> 0] IN
       Put(L, n, [x |-> at.x, y |-> at.y, w |-> Screen[n].w, h |-> Screen[n].h])

SelfNode(n, L) ==
  IF n \in Placed(L) THEN L[n]
  ELSE [x |-> 0, y |-> 0, w |-> AtLeastOne(Screen[n].w), h |-> AtLeastOne(Screen[n].h)]

RightEdges(n, L) == {G!MaxX(SelfNode(n, L))} \cup {G!MaxX(L[d]) : d \in Placed(L)}

NodeAt(x, n, L, size) ==
  [x |-> x, y |-> SelfNode(n, L).y, w |-> AtLeastOne(size.w), h |-> AtLeastOne(size.h)]

\* Bug: only this machine's own screen is looked at.
DefaultNodes_BesideSelf(n, L, size) == {NodeAt(G!MaxX(SelfNode(n, L)), n, L, size)}

\* defaultPeerLayoutLocked: right of everything placed, at the height of self.
DefaultNodes(n, L, size) ==
  {NodeAt(right, n, L, size) :
     right \in {r \in RightEdges(n, L) : \A edge \in RightEdges(n, L) : edge <= r}}

\* The node of a peer that has one takes the size the peer reports, if it does.
Resized(node, size) ==
  [node EXCEPT !.w = IF size.w > 0 THEN size.w ELSE @, !.h = IF size.h > 0 THEN size.h ELSE @]

\* ensurePeerLayoutLocked: what layout L of n becomes for peer m.
EnsurePeer(n, L, m, size) ==
  {Put(L, m, node) :
     node \in IF m \in Placed(L) THEN {Resized(L[m], size)} ELSE DefaultNodes(n, L, size)}

-----------------------------------------------------------------------------
Init ==
  /\ started = [n \in Machines |-> FALSE]
  /\ layout = [n \in Machines |-> Loaded[n]]
  /\ approved = Paired
  /\ saves = << >>
  /\ mail = {}

\* No update is under way.
Sending(s) == s.stage = "begun" \/ s.todo # {}
Quiet == mail = {} /\ \A k \in 1..Len(saves) : ~Sending(saves[k])

\* Start places the screen without s.mu: what a layout.update handled at the
\* same time has stored may be overwritten.
Start(n) ==
  /\ ~started[n]
  /\ started' = [started EXCEPT ![n] = TRUE]
  /\ \E L \in {layout[n], Loaded[n]} : layout' = [layout EXCEPT ![n] = EnsureLocal(n, L)]
  /\ UNCHANGED <<approved, saves, mail>>

\* ApprovePeer, or a manual pairing; size is what n last heard of m's screen,
\* unknown if it was told before m had measured it.
ApprovePeer(n, m, size) ==
  /\ started[n] /\ <<n, m>> \in Approvals
  /\ approved' = [approved EXCEPT ![n] = @ \cup {m}]
  /\ \E L \in EnsurePeer(n, layout[n], m, size) : layout' = [layout EXCEPT ![n] = L]
  /\ UNCHANGED <<started, saves, mail>>

RejectPeer(n, m) ==
  /\ started[n] /\ m \in approved[n] /\ <<n, m>> \in Approvals
  /\ approved' = [approved EXCEPT ![n] = @ \ {m}]
  /\ UNCHANGED <<started, layout, saves, mail>>

\* The layout is in memory whether or not it can be written; only one that is
\* written is broadcast.
SaveLayout(n, L) ==
  /\ started[n] /\ Len(saves) < MaxSaves
  /\ layout' = [layout EXCEPT ![n] = EnsureLocal(n, L)]
  /\ \E stage \in {"begun", "failed"} :
       saves' = Append(saves, [by |-> n, layout |-> EnsureLocal(n, L), stage |-> stage,
                               listed |-> {}, todo |-> {}, missed |-> {},
                               ran |-> \A m \in Machines : started[m], alone |-> Quiet])
  /\ UNCHANGED <<started, approved, mail>>

-----------------------------------------------------------------------------
(* broadcastLayout for save k                                              *)

ListPeers(k) ==
  /\ saves[k].stage = "begun"
  /\ LET peers == approved[saves[k].by] IN
       saves' = [saves EXCEPT ![k].stage = "sending", ![k].listed = peers, ![k].todo = peers]
  /\ UNCHANGED <<started, layout, approved, mail>>

\* Bug: the goroutine refers to the counter of saves and not to its own save.
SendUpdate_Counter(k, m) ==
  /\ m \in saves[k].todo
  /\ saves' = [saves EXCEPT ![k].todo = @ \ {m}]
  /\ mail' = mail \cup {<<m, Len(saves) + 1>>}
  /\ UNCHANGED <<started, layout, approved>>

SendUpdate(k, m) ==
  /\ m \in saves[k].todo
  /\ saves' = [saves EXCEPT ![k].todo = @ \ {m}]
  /\ mail' = mail \cup {<<m, k>>}
  /\ UNCHANGED <<started, layout, approved>>

\* Bug: the first peer that cannot be reached ends the broadcast.
SkipPeer_Returns(k, m) ==
  /\ m \in saves[k].todo
  /\ saves' = [saves EXCEPT ![k].todo = {}, ![k].missed = @ \cup {m}]
  /\ UNCHANGED <<started, layout, approved, mail>>

\* The dial or the write fails: the error is logged.
SkipPeer(k, m) ==
  /\ m \in saves[k].todo
  /\ saves' = [saves EXCEPT ![k].todo = @ \ {m}, ![k].missed = @ \cup {m}]
  /\ UNCHANGED <<started, layout, approved, mail>>

\* The connection breaks after the write.
LoseUpdate(m, k) ==
  /\ <<m, k>> \in mail
  /\ mail' = mail \ {<<m, k>>}
  /\ saves' = [saves EXCEPT ![k].missed = @ \cup {m}]
  /\ UNCHANGED <<started, layout, approved>>

\* Bug: the received layout is kept as it is.
HandleLayoutUpdate_AsReceived(m, k) ==
  /\ <<m, k>> \in mail
  /\ mail' = mail \ {<<m, k>>}
  /\ layout' = [layout EXCEPT ![m] = saves[k].layout]
  /\ UNCHANGED <<started, approved, saves>>

\* Bug: nodes the received layout does not have are kept.
HandleLayoutUpdate_Merges(m, k) ==
  /\ <<m, k>> \in mail
  /\ mail' = mail \ {<<m, k>>}
  /\ LET L == saves[k].layout
         M == [d \in Placed(L) \cup Placed(layout[m]) |->
                 IF d \in Placed(L) THEN L[d] ELSE layout[m][d]]
     IN layout' = [layout EXCEPT ![m] = EnsureLocal(m, M)]
  /\ UNCHANGED <<started, approved, saves>>

\* The whole layout is replaced; before Start has set localBounds the own node
\* may be left as it was sent.
HandleLayoutUpdate(m, k) ==
  /\ <<m, k>> \in mail
  /\ mail' = mail \ {<<m, k>>}
  /\ \/ layout' = [layout EXCEPT ![m] = EnsureLocal(m, saves[k].layout)]
     \/ ~started[m] /\ layout' = [layout EXCEPT ![m] = saves[k].layout]
  /\ UNCHANGED <<started, approved, saves>>

-----------------------------------------------------------------------------
User(n) ==
  \/ \E m \in Machines \ {n} :
       RejectPeer(n, m) \/ \E size \in {Screen[m], Unknown} : ApprovePeer(n, m, size)
  \/ \E L \in Drafts : SaveLayout(n, L)

Broadcast(k) == ListPeers(k) \/ \E m \in Machines : SendUpdate(k, m) \/ SkipPeer(k, m)

Next ==
  \/ \E n \in Machines : Start(n) \/ User(n)
  \/ \E k \in 1..Len(saves) :
       \/ Broadcast(k)
       \/ \E m \in Machines : LoseUpdate(m, k) \/ HandleLayoutUpdate(m, k)

Spec == Init /\ [][Next]_vars

-----------------------------------------------------------------------------
(* Properties                                                              *)

\* Every variable holds values of the Go type it stands for.
TypeOK ==
  /\ started \in [Machines -> BOOLEAN]
  /\ DOMAIN layout = Machines /\ \A n \in Machines : IsLayout(layout[n])
  /\ approved \in [Machines -> SUBSET Machines]
  /\ \A k \in 1..Len(saves) : IsSave(saves[k])
  /\ mail \subseteq Machines \X (1..Len(saves))

\* A machine that runs knows where its own screen is and how large it is,
\* whatever layouts peers that have never seen it send, and whatever was lost
\* in the race of Start with the connections it already serves: without its
\* node no edge of it leads anywhere (adjacentPeer).
OwnScreenPlaced ==
  \A n \in Machines :
    started[n] /\ ~G!Empty(Screen[n]) =>
      /\ n \in Placed(layout[n])
      /\ layout[n][n].w = Screen[n].w /\ layout[n][n].h = Screen[n].h

SamePlace(r, q) == r.x = q.x /\ r.y = q.y

\* "Saving on one machine now syncs the layout to trusted peers"
\* (index.html:80), as far as the code keeps it: the layout of a save that no
\* other save or update overlaps is, once it has been broadcast, the layout of
\* its machine and of every trusted peer that was reached, one failing
\* peer not keeping it from the others.
LoneSaveReachesPeers ==
  LET s == saves[Len(saves)] IN
  saves # << >> /\ s.ran /\ s.alone /\ s.stage = "sending" /\ Quiet =>
    \A m \in {s.by} \cup (s.listed \ s.missed) :
      \A d \in Placed(s.layout) : d \in Placed(layout[m]) /\ SamePlace(layout[m][d], s.layout[d])

\* Screens that n places or resizes itself: its own, and those of peers it approves.
OwnWork(n) == {n} \cup {m \in Machines : <<n, m>> \in Approvals}

\* K is what n has made of L: no screen of L moved or gone, and nothing else
\* changed or added but by n itself.
MadeFrom(n, K, L) ==
  /\ Placed(L) \subseteq Placed(K) /\ Placed(K) \subseteq Placed(L) \cup OwnWork(n)
  /\ \A d \in Placed(L) : SamePlace(K[d], L[d]) /\ (d \notin OwnWork(n) => K[d] = L[d])

\* A layout is never a blend: each machine has the one it started with or that
\* of one save, whole, however the updates of several saves cross and whatever
\* Start, approvals and lost updates come between; nothing a user did not place
\* in it is there, but for screens the machine places by itself.
OneSource ==
  \A n \in Machines :
    \E L \in {Loaded[n]} \cup {saves[k].layout : k \in 1..Len(saves)} :
      MadeFrom(n, layout[n], L)

Crossing(a, b) == G!OverlapX(a, b) /\ G!OverlapY(a, b)
Apart(L) == \A d, e \in Placed(L) : d # e => ~Crossing(L[d], L[e])

\* A peer approved for the first time gets a place of its own: screens that
\* do not overlap do not overlap afterwards, and nothing else is moved.
ApprovalKeepsApart ==
  [][\A n, m \in Machines :
       m \in approved'[n] \ approved[n] /\ m \notin Placed(layout[n]) /\ Apart(layout[n]) =>
         /\ Apart(layout'[n])
         /\ \A d \in Placed(layout[n]) : layout'[n][d] = layout[n][d]]_vars
=============================================================================
