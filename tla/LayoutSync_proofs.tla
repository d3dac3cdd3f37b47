------------------------- MODULE LayoutSync_proofs -------------------------
(***************************************************************************)
(* Proofs about LayoutSync for any machines, screens and layouts: a        *)
(* machine that runs has its own screen placed, a first approval keeps     *)
(* screens apart, and a save nothing overlaps reaches whom it reaches      *)
(* unchanged.                                                              *)
(***************************************************************************)
EXTENDS LayoutSync, TLAPS, SequenceTheorems

LayoutSet == UNION {[D -> Nodes] : D \in SUBSET Machines}

SaveSet == [by : Machines, layout : LayoutSet, stage : {"failed", "begun", "sending"},
            listed : SUBSET Machines, todo : SUBSET Machines, missed : SUBSET Machines,
            ran : BOOLEAN, alone : BOOLEAN]

TypeInv ==
  /\ started \in [Machines -> BOOLEAN]
  /\ layout \in [Machines -> LayoutSet]
  /\ approved \in [Machines -> SUBSET Machines]
  /\ saves \in Seq(SaveSet)
  /\ mail \subseteq Machines \X (1..Len(saves))

\* L has every screen of M, at the same place.
Agrees(L, M) == \A d \in Placed(M) : d \in Placed(L) /\ SamePlace(L[d], M[d])

-----------------------------------------------------------------------------
(* What the helpers return                                                 *)

LEMMA LayoutSetDef ==
  ASSUME NEW L PROVE L \in LayoutSet <=> IsLayout(L)
BY DEF LayoutSet, IsLayout

LEMMA PutLayout ==
  ASSUME NEW L \in LayoutSet, NEW n \in Machines, NEW node \in Nodes
  PROVE  /\ Put(L, n, node) \in LayoutSet
         /\ Placed(Put(L, n, node)) = Placed(L) \cup {n}
         /\ Put(L, n, node)[n] = node
         /\ \A d \in Placed(L) : d # n => Put(L, n, node)[d] = L[d]
<1>1. Placed(L) \subseteq Machines /\ \A d \in Placed(L) : L[d] \in Nodes
  BY DEF LayoutSet, Placed
<1> DEFINE D == Placed(L) \cup {n}
<1>2. Put(L, n, node) = [d \in D |-> IF d = n THEN node ELSE L[d]]
  BY DEF Put
<1>3. D \in SUBSET Machines /\ Put(L, n, node) \in [D -> Nodes]
  BY <1>1, <1>2
<1>4. Put(L, n, node) \in LayoutSet
  BY <1>3 DEF LayoutSet
<1>5. Placed(Put(L, n, node)) = D
  BY <1>2 DEF Placed
<1>6. Put(L, n, node)[n] = node /\ \A d \in Placed(L) : d # n => Put(L, n, node)[d] = L[d]
  BY <1>2
<1> QED BY <1>4, <1>5, <1>6

LEMMA NodeOf ==
  ASSUME NEW L \in LayoutSet, NEW d \in Placed(L)
  PROVE  L[d] \in Nodes /\ d \in Machines
BY DEF LayoutSet, Placed

\* ensureLocalLayout keeps every place and gives a measured screen its node.
LEMMA EnsureLocalKeeps ==
  ASSUME LayoutSyncAssumption, NEW n \in Machines, NEW L \in LayoutSet
  PROVE  /\ EnsureLocal(n, L) \in LayoutSet
         /\ Agrees(EnsureLocal(n, L), L)
         /\ ~G!Empty(Screen[n]) =>
              /\ n \in Placed(EnsureLocal(n, L))
              /\ EnsureLocal(n, L)[n].w = Screen[n].w
              /\ EnsureLocal(n, L)[n].h = Screen[n].h
<1>1. CASE G!Empty(Screen[n])
  BY <1>1 DEF EnsureLocal, Agrees, SamePlace
<1>2. CASE ~G!Empty(Screen[n])
  <2> DEFINE at == IF n \in Placed(L) THEN L[n] ELSE [x |-> 0, y |-> 0]
             node == [x |-> at.x, y |-> at.y, w |-> Screen[n].w, h |-> Screen[n].h]
  <2>1. EnsureLocal(n, L) = Put(L, n, node)
    BY <1>2 DEF EnsureLocal
  <2>2. at.x \in Int /\ at.y \in Int
    BY NodeOf DEF Nodes
  <2>3. Screen[n].w \in Int /\ Screen[n].h \in Int
    BY DEF LayoutSyncAssumption, Sizes
  <2>4. node \in Nodes
    BY <2>2, <2>3 DEF Nodes
  <2>5. n \in Placed(L) => node.x = L[n].x /\ node.y = L[n].y
    OBVIOUS
  <2>6. node.w = Screen[n].w /\ node.h = Screen[n].h
    OBVIOUS
  <2> HIDE DEF node
  <2>7. /\ EnsureLocal(n, L) \in LayoutSet /\ EnsureLocal(n, L)[n] = node
        /\ Placed(EnsureLocal(n, L)) = Placed(L) \cup {n}
        /\ \A d \in Placed(L) : d # n => EnsureLocal(n, L)[d] = L[d]
    BY <2>1, <2>4, PutLayout
  <2>8. Agrees(EnsureLocal(n, L), L)
    BY <2>5, <2>7 DEF Agrees, SamePlace
  <2> QED BY <2>6, <2>7, <2>8
<1> QED BY <1>1, <1>2

LEMMA SelfNodeType ==
  ASSUME LayoutSyncAssumption, NEW n \in Machines, NEW L \in LayoutSet
  PROVE  SelfNode(n, L) \in Nodes
<1>1. AtLeastOne(Screen[n].w) \in Int /\ AtLeastOne(Screen[n].h) \in Int
  BY DEF LayoutSyncAssumption, Sizes, AtLeastOne
<1> QED BY <1>1, NodeOf DEF SelfNode, Nodes

\* defaultPeerLayoutLocked returns a node to the right of everything placed.
LEMMA DefaultNodeFree ==
  ASSUME LayoutSyncAssumption, NEW n \in Machines, NEW L \in LayoutSet,
         NEW size \in Sizes, NEW node \in DefaultNodes(n, L, size)
  PROVE  /\ node \in Nodes
         /\ \A d \in Placed(L) : G!MaxX(L[d]) <= node.x
<1>1. PICK right \in RightEdges(n, L) :
        /\ \A edge \in RightEdges(n, L) : edge <= right
        /\ node = NodeAt(right, n, L, size)
  BY DEF DefaultNodes
<1>2. right \in Int
  BY <1>1, SelfNodeType, NodeOf DEF RightEdges, Nodes, G!MaxX
<1>3. AtLeastOne(size.w) \in Int /\ AtLeastOne(size.h) \in Int
  BY DEF Sizes, AtLeastOne
<1>4. node \in Nodes /\ node.x = right
  BY <1>1, <1>2, <1>3, SelfNodeType DEF NodeAt, Nodes
<1> QED BY <1>1, <1>4 DEF RightEdges

\* ensurePeerLayoutLocked moves nothing and changes the peer's node only.
LEMMA EnsurePeerKeeps ==
  ASSUME LayoutSyncAssumption, NEW n \in Machines, NEW L \in LayoutSet,
         NEW m \in Machines, NEW size \in Sizes, NEW M \in EnsurePeer(n, L, m, size)
  PROVE  /\ M \in LayoutSet
         /\ Placed(M) = Placed(L) \cup {m}
         /\ Agrees(M, L)
         /\ \A d \in Placed(L) : d # m => M[d] = L[d]
         /\ m \notin Placed(L) => \A d \in Placed(L) : G!MaxX(L[d]) <= M[m].x
<1>1. CASE m \in Placed(L)
  <2>1. M = Put(L, m, Resized(L[m], size))
    BY <1>1 DEF EnsurePeer
  <2>2. L[m] \in Nodes
    BY <1>1, NodeOf
  <2>3. /\ Resized(L[m], size) \in Nodes
        /\ SamePlace(Resized(L[m], size), L[m])
    <3> DEFINE w == IF size.w > 0 THEN size.w ELSE L[m].w
               h == IF size.h > 0 THEN size.h ELSE L[m].h
    <3>1. /\ DOMAIN L[m] = {"x", "y", "w", "h"}
          /\ Resized(L[m], size) = [[L[m] EXCEPT !.w = w] EXCEPT !.h = h]
      BY <2>2 DEF Nodes, Resized
    <3>2. Resized(L[m], size) = [x |-> L[m].x, y |-> L[m].y, w |-> w, h |-> h]
      BY <2>2, <3>1 DEF Nodes
    <3>3. w \in Int /\ h \in Int /\ L[m].x \in Int /\ L[m].y \in Int
      BY <2>2 DEF Nodes, Sizes
    <3> QED BY <3>2, <3>3 DEF Nodes, SamePlace
  <2>4. /\ M \in LayoutSet /\ M[m] = Resized(L[m], size)
        /\ Placed(M) = Placed(L) \cup {m}
        /\ \A d \in Placed(L) : d # m => M[d] = L[d]
    BY <2>1, <2>3, PutLayout
  <2> QED BY <1>1, <2>3, <2>4 DEF Agrees, SamePlace
<1>2. CASE m \notin Placed(L)
  <2>1. PICK node \in DefaultNodes(n, L, size) : M = Put(L, m, node)
    BY <1>2 DEF EnsurePeer
  <2>2. node \in Nodes /\ \A d \in Placed(L) : G!MaxX(L[d]) <= node.x
    BY DefaultNodeFree
  <2> QED BY <1>2, <2>1, <2>2, PutLayout DEF Agrees, SamePlace
<1> QED BY <1>1, <1>2

LEMMA AgreesTransitive ==
  ASSUME NEW L, NEW M, NEW N, Agrees(L, M), Agrees(M, N) PROVE Agrees(L, N)
BY DEF Agrees, SamePlace

LEMMA AgreesReflexive == ASSUME NEW L PROVE Agrees(L, L)
BY DEF Agrees, SamePlace

-----------------------------------------------------------------------------
(* The invariant                                                           *)

\* What is known of the last save if every machine ran and no update was under
\* way when it was made: no other is sent, and who is listed is still to be
\* dialled, has the update on its way, was missed, or has the layout.
LoneInv ==
  LET K == Len(saves)
      s == saves[K]
  IN K > 0 /\ s.ran /\ s.alone =>
       /\ \A n \in Machines : started[n]
       /\ \A k \in 1..K : k # K => ~Sending(saves[k])
       /\ \A m \in Machines, k \in 1..K : <<m, k>> \in mail => k = K /\ s.stage = "sending"
       /\ Agrees(layout[s.by], s.layout)
       /\ s.stage # "sending" => s.todo = {} /\ s.listed = {}
       /\ \A m \in s.listed : \/ m \in s.todo \/ <<m, K>> \in mail \/ m \in s.missed
                              \/ Agrees(layout[m], s.layout)

Inv == TypeInv /\ OwnScreenPlaced /\ LoneInv

LEMMA InitInv == ASSUME LayoutSyncAssumption, Init PROVE Inv
<1>1. layout \in [Machines -> LayoutSet]
  <2>1. \A n \in Machines : Loaded[n] \in LayoutSet
    BY LayoutSetDef DEF LayoutSyncAssumption
  <2> QED BY <2>1 DEF Init, LayoutSyncAssumption
<1>2. saves = << >> /\ Len(saves) = 0 /\ saves \in Seq(SaveSet)
  BY EmptySeq DEF Init
<1>3. TypeInv
  BY <1>1, <1>2 DEF TypeInv, Init, LayoutSyncAssumption
<1>4. OwnScreenPlaced
  BY DEF OwnScreenPlaced, Init
<1> QED BY <1>2, <1>3, <1>4 DEF Inv, LoneInv

\* A layout changed to one that agrees with it, or a save's own.
LEMMA StartStep ==
  ASSUME LayoutSyncAssumption, Inv, NEW n \in Machines, Start(n) PROVE Inv'
<1> USE DEF Inv
<1>1. PICK L \in {layout[n], Loaded[n]} : layout' = [layout EXCEPT ![n] = EnsureLocal(n, L)]
  BY DEF Start
<1>2. L \in LayoutSet
  BY <1>1, LayoutSetDef DEF TypeInv, LayoutSyncAssumption
<1>3. TypeInv'
  BY <1>1, <1>2, EnsureLocalKeeps DEF TypeInv, Start
<1>4. OwnScreenPlaced'
  BY <1>1, <1>2, EnsureLocalKeeps DEF TypeInv, OwnScreenPlaced, Start
<1>5. LoneInv'
  BY DEF LoneInv, Start
<1> QED BY <1>3, <1>4, <1>5

LEMMA ApproveStep ==
  ASSUME LayoutSyncAssumption, Inv, NEW n \in Machines, NEW m \in Machines \ {n},
         NEW size \in Sizes, ApprovePeer(n, m, size)
  PROVE  Inv'
<1> USE DEF Inv
<1>1. PICK L \in EnsurePeer(n, layout[n], m, size) : layout' = [layout EXCEPT ![n] = L]
  BY DEF ApprovePeer
<1>2. layout[n] \in LayoutSet
  BY DEF TypeInv
<1>3. /\ L \in LayoutSet
      /\ Agrees(L, layout[n])
      /\ Placed(L) = Placed(layout[n]) \cup {m}
      /\ \A d \in Placed(layout[n]) : d # m => L[d] = layout[n][d]
  BY <1>2, EnsurePeerKeeps
<1>4. TypeInv'
  BY <1>1, <1>3 DEF TypeInv, ApprovePeer
<1>5. OwnScreenPlaced'
  BY <1>1, <1>3 DEF TypeInv, OwnScreenPlaced, ApprovePeer
<1>6. \A d \in Machines : \A M : Agrees(layout[d], M) => Agrees(layout'[d], M)
  BY <1>1, <1>3, AgreesTransitive DEF TypeInv
<1>7. LoneInv'
  <2>1. \A k \in 1..Len(saves) : saves[k] \in SaveSet
    BY ElementOfSeq DEF TypeInv
  <2>2. /\ Len(saves) \in Nat
        /\ Len(saves) > 0 => /\ saves[Len(saves)].by \in Machines
                              /\ saves[Len(saves)].listed \subseteq Machines
    BY <2>1, LenProperties DEF TypeInv, SaveSet
  <2>3. started' = started /\ saves' = saves /\ mail' = mail
    BY DEF ApprovePeer
  <2> QED BY <1>6, <2>2, <2>3 DEF LoneInv
<1> QED BY <1>4, <1>5, <1>7

LEMMA RejectStep ==
  ASSUME Inv, NEW n \in Machines, NEW m \in Machines, RejectPeer(n, m) PROVE Inv'
<1>1. TypeInv'
  BY DEF Inv, TypeInv, RejectPeer
<1>2. OwnScreenPlaced' /\ LoneInv'
  BY DEF Inv, OwnScreenPlaced, LoneInv, RejectPeer
<1> QED BY <1>1, <1>2 DEF Inv

LEMMA NewSave ==
  ASSUME NEW n \in Machines, NEW M \in LayoutSet, NEW stage \in {"begun", "failed"},
         NEW ran \in BOOLEAN, NEW alone \in BOOLEAN
  PROVE  [by |-> n, layout |-> M, stage |-> stage, listed |-> {}, todo |-> {},
          missed |-> {}, ran |-> ran, alone |-> alone] \in SaveSet
BY DEF SaveSet

LEMMA SaveStep ==
  ASSUME LayoutSyncAssumption, Inv, NEW n \in Machines, NEW L \in Drafts, SaveLayout(n, L)
  PROVE  Inv'
<1> USE DEF Inv
<1> DEFINE M == EnsureLocal(n, L)
<1>1. L \in LayoutSet
  BY LayoutSetDef DEF LayoutSyncAssumption
<1>2. M \in LayoutSet /\ layout' = [layout EXCEPT ![n] = M]
  BY <1>1, EnsureLocalKeeps DEF SaveLayout
<1>3. PICK stage \in {"begun", "failed"} :
        saves' = Append(saves, [by |-> n, layout |-> M, stage |-> stage,
                                listed |-> {}, todo |-> {}, missed |-> {},
                                ran |-> \A m \in Machines : started[m], alone |-> Quiet])
  BY DEF SaveLayout
<1> DEFINE r == [by |-> n, layout |-> M, stage |-> stage,
                 listed |-> {}, todo |-> {}, missed |-> {},
                 ran |-> \A m \in Machines : started[m], alone |-> Quiet]
<1>4. Quiet \in BOOLEAN /\ (\A m \in Machines : started[m]) \in BOOLEAN
  BY DEF Quiet
<1>5. r \in SaveSet
  <2> HIDE DEF M
  <2> QED BY <1>2, <1>4, NewSave
<1>6. /\ r.by = n /\ r.layout = M /\ r.stage # "sending" /\ r.listed = {} /\ r.todo = {}
      /\ r.ran <=> \A m \in Machines : started[m]
      /\ r.alone <=> Quiet
  BY <1>4
<1> HIDE DEF M, r
<1>7. /\ saves' \in Seq(SaveSet) /\ Len(saves') = Len(saves) + 1
      /\ saves'[Len(saves')] = r
      /\ \A k \in 1..Len(saves) : saves'[k] = saves[k]
      /\ Len(saves) \in Nat
  BY <1>3, <1>5, AppendProperties, LenProperties DEF TypeInv, r
<1>8. TypeInv'
  BY <1>2, <1>7 DEF TypeInv, SaveLayout
<1>9. OwnScreenPlaced'
  BY <1>1, <1>2, EnsureLocalKeeps DEF TypeInv, OwnScreenPlaced, SaveLayout, M
<1>10. LoneInv'
  <2> SUFFICES ASSUME r.ran, r.alone PROVE LoneInv'
    BY <1>7 DEF LoneInv
  <2>1. mail' = {} /\ started' = started /\ layout'[n] = M /\ \A k \in 1..Len(saves) : ~Sending(saves[k])
    BY <1>2, <1>6 DEF Quiet, SaveLayout, TypeInv
  <2>2. Agrees(layout'[r.by], r.layout)
    BY <1>6, <2>1, AgreesReflexive
  <2>3. \A k \in 1..Len(saves') : k # Len(saves') => ~Sending(saves'[k])
    BY <1>7, <2>1
  <2> QED BY <1>6, <1>7, <2>1, <2>2, <2>3 DEF LoneInv
<1> QED BY <1>8, <1>9, <1>10

\* r is what save k has become; its machine, layout and circumstances stay.
Advanced(k, r) ==
  /\ saves' \in Seq(SaveSet) /\ Len(saves') = Len(saves) /\ Len(saves) \in Nat
  /\ saves'[k] = r
  /\ \A j \in 1..Len(saves) : j # k => saves'[j] = saves[j]
  /\ r.by = saves[k].by /\ r.layout = saves[k].layout
  /\ r.ran = saves[k].ran /\ r.alone = saves[k].alone

LEMMA AdvanceSave ==
  ASSUME TypeInv, NEW k \in 1..Len(saves), NEW stage \in {"failed", "begun", "sending"},
         NEW listed \in SUBSET Machines, NEW todo \in SUBSET Machines,
         NEW missed \in SUBSET Machines
  PROVE  LET s == saves[k]
             r == [by |-> s.by, layout |-> s.layout, stage |-> stage, listed |-> listed,
                   todo |-> todo, missed |-> missed, ran |-> s.ran, alone |-> s.alone]
         IN saves' = [saves EXCEPT ![k] = r] => Advanced(k, r)
<1> DEFINE s == saves[k]
           r == [by |-> s.by, layout |-> s.layout, stage |-> stage, listed |-> listed,
                 todo |-> todo, missed |-> missed, ran |-> s.ran, alone |-> s.alone]
<1>1. s \in SaveSet
  BY ElementOfSeq DEF TypeInv
<1>2. r \in SaveSet
  BY <1>1 DEF SaveSet
<1>3. r.by = s.by /\ r.layout = s.layout /\ r.ran = s.ran /\ r.alone = s.alone
  OBVIOUS
<1> HIDE DEF r, s
<1>4. /\ Len(saves) \in Nat /\ saves \in Seq(SaveSet)
      /\ [saves EXCEPT ![k] = r] \in Seq(SaveSet)
      /\ Len([saves EXCEPT ![k] = r]) = Len(saves)
      /\ \A j \in 1..Len(saves) : [saves EXCEPT ![k] = r][j] = IF j = k THEN r ELSE saves[j]
  BY <1>2, ExceptSeq, LenProperties DEF TypeInv
<1> QED BY <1>3, <1>4 DEF Advanced, r, s

LEMMA SaveFields ==
  ASSUME TypeInv, NEW k \in 1..Len(saves)
  PROVE  LET s == saves[k] IN
         /\ s = [by |-> s.by, layout |-> s.layout, stage |-> s.stage, listed |-> s.listed,
                 todo |-> s.todo, missed |-> s.missed, ran |-> s.ran, alone |-> s.alone]
         /\ s.by \in Machines /\ s.layout \in LayoutSet
         /\ s.stage \in {"failed", "begun", "sending"}
         /\ s.listed \in SUBSET Machines /\ s.todo \in SUBSET Machines
         /\ s.missed \in SUBSET Machines
<1>1. saves[k] \in SaveSet
  BY ElementOfSeq DEF TypeInv
<1> QED BY <1>1 DEF SaveSet

LEMMA FieldUpdate ==
  ASSUME NEW s \in SaveSet, NEW v
  PROVE  /\ [s EXCEPT !.stage = v] =
              [by |-> s.by, layout |-> s.layout, stage |-> v, listed |-> s.listed,
               todo |-> s.todo, missed |-> s.missed, ran |-> s.ran, alone |-> s.alone]
         /\ [s EXCEPT !.listed = v] =
              [by |-> s.by, layout |-> s.layout, stage |-> s.stage, listed |-> v,
               todo |-> s.todo, missed |-> s.missed, ran |-> s.ran, alone |-> s.alone]
         /\ [s EXCEPT !.todo = v] =
              [by |-> s.by, layout |-> s.layout, stage |-> s.stage, listed |-> s.listed,
               todo |-> v, missed |-> s.missed, ran |-> s.ran, alone |-> s.alone]
         /\ [s EXCEPT !.missed = v] =
              [by |-> s.by, layout |-> s.layout, stage |-> s.stage, listed |-> s.listed,
               todo |-> s.todo, missed |-> v, ran |-> s.ran, alone |-> s.alone]
<1>1. [s EXCEPT !.stage = v] =
        [by |-> s.by, layout |-> s.layout, stage |-> v, listed |-> s.listed,
         todo |-> s.todo, missed |-> s.missed, ran |-> s.ran, alone |-> s.alone]
  BY DEF SaveSet
<1>2. [s EXCEPT !.listed = v] =
        [by |-> s.by, layout |-> s.layout, stage |-> s.stage, listed |-> v,
         todo |-> s.todo, missed |-> s.missed, ran |-> s.ran, alone |-> s.alone]
  BY DEF SaveSet
<1>3. [s EXCEPT !.todo = v] =
        [by |-> s.by, layout |-> s.layout, stage |-> s.stage, listed |-> s.listed,
         todo |-> v, missed |-> s.missed, ran |-> s.ran, alone |-> s.alone]
  BY DEF SaveSet
<1>4. [s EXCEPT !.missed = v] =
        [by |-> s.by, layout |-> s.layout, stage |-> s.stage, listed |-> s.listed,
         todo |-> s.todo, missed |-> v, ran |-> s.ran, alone |-> s.alone]
  BY DEF SaveSet
<1> QED BY <1>1, <1>2, <1>3, <1>4

LEMMA ListStep ==
  ASSUME Inv, NEW k \in 1..Len(saves), ListPeers(k) PROVE Inv'
<1> USE DEF Inv
<1> DEFINE s == saves[k]
           peers == approved[s.by]
           r == [by |-> s.by, layout |-> s.layout, stage |-> "sending", listed |-> peers,
                 todo |-> peers, missed |-> s.missed, ran |-> s.ran, alone |-> s.alone]
<1>1. peers \in SUBSET Machines
  BY SaveFields DEF TypeInv
<1>2. saves' = [saves EXCEPT ![k] = r]
  <2> DEFINE s1 == [s EXCEPT !.stage = "sending"]
             s2 == [s1 EXCEPT !.listed = peers]
  <2>1. saves' = [saves EXCEPT ![k] = [s2 EXCEPT !.todo = peers]]
    BY DEF ListPeers
  <2>2. s \in SaveSet
    BY ElementOfSeq DEF TypeInv
  <2>3. /\ s1 = [by |-> s.by, layout |-> s.layout, stage |-> "sending", listed |-> s.listed,
                 todo |-> s.todo, missed |-> s.missed, ran |-> s.ran, alone |-> s.alone]
        /\ s1 \in SaveSet
    BY <2>2, FieldUpdate DEF SaveSet
  <2>a. s1 \in SaveSet
    BY <2>3
  <2> HIDE DEF s1, peers
  <2>4. s2 = [by |-> s1.by, layout |-> s1.layout, stage |-> s1.stage, listed |-> peers,
              todo |-> s1.todo, missed |-> s1.missed, ran |-> s1.ran, alone |-> s1.alone]
    BY <2>a, FieldUpdate, ZenonT(60)
  <2>5. s2 \in SaveSet
    BY <1>1, <2>3, <2>4 DEF SaveSet
  <2> HIDE DEF s2
  <2>6. [s2 EXCEPT !.todo = peers] =
          [by |-> s2.by, layout |-> s2.layout, stage |-> s2.stage, listed |-> s2.listed,
           todo |-> peers, missed |-> s2.missed, ran |-> s2.ran, alone |-> s2.alone]
    BY <2>5, FieldUpdate
  <2> QED BY <2>1, <2>3, <2>4, <2>6
<1>3. Advanced(k, r)
  BY <1>1, <1>2, SaveFields, AdvanceSave
<1>4. r.stage = "sending" /\ r.listed = peers /\ r.todo = peers
  OBVIOUS
<1> HIDE DEF r
<1>5. TypeInv'
  BY <1>3 DEF Advanced, TypeInv, ListPeers
<1>6. OwnScreenPlaced'
  BY DEF OwnScreenPlaced, ListPeers
<1>7. LoneInv'
  <2>1. started' = started /\ layout' = layout /\ mail' = mail /\ s.stage = "begun"
    BY DEF ListPeers
  <2> QED BY <1>3, <1>4, <2>1 DEF Advanced, LoneInv, Sending
<1> QED BY <1>5, <1>6, <1>7

LEMMA SendStep ==
  ASSUME Inv, NEW k \in 1..Len(saves), NEW m \in Machines, SendUpdate(k, m) PROVE Inv'
<1> USE DEF Inv
<1> DEFINE s == saves[k]
           r == [by |-> s.by, layout |-> s.layout, stage |-> s.stage, listed |-> s.listed,
                 todo |-> s.todo \ {m}, missed |-> s.missed, ran |-> s.ran, alone |-> s.alone]
<1>1. saves' = [saves EXCEPT ![k] = r]
  <2>1. saves' = [saves EXCEPT ![k] = [s EXCEPT !.todo = s.todo \ {m}]]
    BY DEF SendUpdate
  <2>2. [s EXCEPT !.todo = s.todo \ {m}] = r
    BY ElementOfSeq, FieldUpdate DEF TypeInv
  <2> QED BY <2>1, <2>2
<1>2. Advanced(k, r)
  BY <1>1, SaveFields, AdvanceSave
<1>3. /\ r.stage = s.stage /\ r.listed = s.listed /\ r.todo = s.todo \ {m}
      /\ r.missed = s.missed
  OBVIOUS
<1> HIDE DEF r
<1>4. TypeInv'
  BY <1>2 DEF Advanced, TypeInv, SendUpdate
<1>5. OwnScreenPlaced'
  BY DEF OwnScreenPlaced, SendUpdate
<1>6. LoneInv'
  <2>1. started' = started /\ layout' = layout /\ mail' = mail \cup {<<m, k>>} /\ m \in s.todo
    BY DEF SendUpdate
  <2> QED BY <1>2, <1>3, <2>1 DEF Advanced, LoneInv, Sending
<1> QED BY <1>4, <1>5, <1>6

LEMMA SkipStep ==
  ASSUME Inv, NEW k \in 1..Len(saves), NEW m \in Machines, SkipPeer(k, m) PROVE Inv'
<1> USE DEF Inv
<1> DEFINE s == saves[k]
           r == [by |-> s.by, layout |-> s.layout, stage |-> s.stage, listed |-> s.listed,
                 todo |-> s.todo \ {m}, missed |-> s.missed \cup {m},
                 ran |-> s.ran, alone |-> s.alone]
<1>1. saves' = [saves EXCEPT ![k] = r]
  <2> DEFINE s1 == [s EXCEPT !.todo = s.todo \ {m}]
  <2>1. saves' = [saves EXCEPT ![k] = [s1 EXCEPT !.missed = s.missed \cup {m}]]
    BY DEF SkipPeer
  <2>2. s \in SaveSet
    BY ElementOfSeq DEF TypeInv
  <2>3. s1 = [by |-> s.by, layout |-> s.layout, stage |-> s.stage, listed |-> s.listed,
              todo |-> s.todo \ {m}, missed |-> s.missed, ran |-> s.ran, alone |-> s.alone]
    BY <2>2, FieldUpdate
  <2>4. s1 \in SaveSet
    BY <2>2, <2>3 DEF SaveSet
  <2> HIDE DEF s1
  <2>5. [s1 EXCEPT !.missed = s.missed \cup {m}] =
          [by |-> s1.by, layout |-> s1.layout, stage |-> s1.stage, listed |-> s1.listed,
           todo |-> s1.todo, missed |-> s.missed \cup {m}, ran |-> s1.ran, alone |-> s1.alone]
    BY <2>4, FieldUpdate
  <2> QED BY <2>1, <2>3, <2>5
<1>2. Advanced(k, r)
  BY <1>1, SaveFields, AdvanceSave
<1>3. /\ r.stage = s.stage /\ r.listed = s.listed /\ r.todo = s.todo \ {m}
      /\ r.missed = s.missed \cup {m}
  OBVIOUS
<1> HIDE DEF r
<1>4. TypeInv'
  BY <1>2 DEF Advanced, TypeInv, SkipPeer
<1>5. OwnScreenPlaced'
  BY DEF OwnScreenPlaced, SkipPeer
<1>6. LoneInv'
  <2>1. started' = started /\ layout' = layout /\ mail' = mail /\ m \in s.todo
    BY DEF SkipPeer
  <2> QED BY <1>2, <1>3, <2>1 DEF Advanced, LoneInv, Sending
<1> QED BY <1>4, <1>5, <1>6

LEMMA LoseStep ==
  ASSUME Inv, NEW k \in 1..Len(saves), NEW m \in Machines, LoseUpdate(m, k) PROVE Inv'
<1> USE DEF Inv
<1> DEFINE s == saves[k]
           r == [by |-> s.by, layout |-> s.layout, stage |-> s.stage, listed |-> s.listed,
                 todo |-> s.todo, missed |-> s.missed \cup {m},
                 ran |-> s.ran, alone |-> s.alone]
<1>1. saves' = [saves EXCEPT ![k] = r]
  <2>1. saves' = [saves EXCEPT ![k] = [s EXCEPT !.missed = s.missed \cup {m}]]
    BY DEF LoseUpdate
  <2>2. [s EXCEPT !.missed = s.missed \cup {m}] = r
    BY ElementOfSeq, FieldUpdate DEF TypeInv
  <2> QED BY <2>1, <2>2
<1>2. Advanced(k, r)
  BY <1>1, SaveFields, AdvanceSave
<1>3. /\ r.stage = s.stage /\ r.listed = s.listed /\ r.todo = s.todo
      /\ r.missed = s.missed \cup {m}
  OBVIOUS
<1> HIDE DEF r
<1>4. TypeInv'
  BY <1>2 DEF Advanced, TypeInv, LoseUpdate
<1>5. OwnScreenPlaced'
  BY DEF OwnScreenPlaced, LoseUpdate
<1>6. LoneInv'
  <2>1. started' = started /\ layout' = layout /\ mail' = mail \ {<<m, k>>} /\ <<m, k>> \in mail
    BY DEF LoseUpdate
  <2> QED BY <1>2, <1>3, <2>1 DEF Advanced, LoneInv, Sending
<1> QED BY <1>4, <1>5, <1>6

LEMMA HandleStep ==
  ASSUME LayoutSyncAssumption, Inv, NEW k \in 1..Len(saves), NEW m \in Machines,
         HandleLayoutUpdate(m, k)
  PROVE  Inv'
<1> USE DEF Inv
<1> DEFINE L == saves[k].layout
<1>1. L \in LayoutSet
  BY SaveFields
<1>2. PICK M \in {L, EnsureLocal(m, L)} :
        layout' = [layout EXCEPT ![m] = M] /\ (started[m] => M = EnsureLocal(m, L))
  BY DEF HandleLayoutUpdate
<1>3. M \in LayoutSet /\ Agrees(M, L)
  BY <1>1, <1>2, EnsureLocalKeeps, AgreesReflexive
<1>4. TypeInv'
  BY <1>2, <1>3 DEF TypeInv, HandleLayoutUpdate
<1>5. OwnScreenPlaced'
  BY <1>1, <1>2, EnsureLocalKeeps DEF TypeInv, OwnScreenPlaced, HandleLayoutUpdate
<1>6. LoneInv'
  <2>1. /\ started' = started /\ saves' = saves /\ mail' = mail \ {<<m, k>>} /\ <<m, k>> \in mail
        /\ layout'[m] = M /\ \A d \in Machines : d # m => layout'[d] = layout[d]
    BY <1>2 DEF HandleLayoutUpdate, TypeInv
  <2>2. Len(saves) \in Nat /\ Len(saves) \in 1..Len(saves)
    BY LenProperties DEF TypeInv
  <2>3. saves[Len(saves)].by \in Machines /\ saves[Len(saves)].listed \subseteq Machines
    BY <2>2, SaveFields
  <2> QED BY <1>3, <2>1, <2>2, <2>3 DEF LoneInv
<1> QED BY <1>4, <1>5, <1>6

-----------------------------------------------------------------------------
(* The theorems                                                            *)

LEMMA StepInv == ASSUME LayoutSyncAssumption, Inv, [Next]_vars PROVE Inv'
<1>1. CASE UNCHANGED vars
  <2>1. TypeInv' /\ LoneInv' /\ OwnScreenPlaced'
    BY <1>1 DEF Inv, TypeInv, LoneInv, OwnScreenPlaced, vars, Sending, Agrees
  <2> QED BY <2>1 DEF Inv
<1>2. CASE Next
  <2>1. ASSUME NEW n \in Machines, User(n) PROVE Inv'
    <3>1. \A m \in Machines : \A size \in {Screen[m], Unknown} : size \in Sizes
      BY DEF LayoutSyncAssumption, Unknown, Sizes
    <3> QED BY <2>1, <3>1, RejectStep, ApproveStep, SaveStep DEF User
  <2>2. ASSUME NEW k \in 1..Len(saves), Broadcast(k) PROVE Inv'
    BY <2>2, ListStep, SendStep, SkipStep DEF Broadcast
  <2> QED BY <1>2, <2>1, <2>2, StartStep, LoseStep, HandleStep DEF Next
<1> QED BY <1>1, <1>2

\* The invariant holds in every state of LayoutSync.
THEOREM LayoutInvariant == Spec => []Inv
<1>1. Init => Inv
  BY LayoutSyncAssumption, InitInv
<1>2. Inv /\ [Next]_vars => Inv'
  BY LayoutSyncAssumption, StepInv
<1> QED BY <1>1, <1>2, PTL DEF Spec

\* Every variable of LayoutSync keeps its type.
THEOREM LayoutTypeCorrect == Spec => []TypeOK
<1>1. Inv => TypeOK
  <2> SUFFICES ASSUME TypeInv PROVE TypeOK
    BY DEF Inv
  <2>1. \A n \in Machines : IsLayout(layout[n])
    BY LayoutSetDef DEF TypeInv
  <2>2. ASSUME NEW k \in 1..Len(saves) PROVE IsSave(saves[k])
    <3>1. saves[k] \in SaveSet
      BY ElementOfSeq DEF TypeInv
    <3>2. IsLayout(saves[k].layout)
      BY <3>1, LayoutSetDef DEF SaveSet
    <3> QED BY <3>1, <3>2 DEF IsSave, SaveSet
  <2> QED BY <2>1, <2>2 DEF TypeInv, TypeOK
<1> QED BY <1>1, LayoutInvariant, PTL

\* A machine that runs has its own screen placed, at its size.
THEOREM OwnScreenStaysPlaced == Spec => []OwnScreenPlaced
<1>1. Inv => OwnScreenPlaced
  BY DEF Inv
<1> QED BY <1>1, LayoutInvariant, PTL

\* A save that nothing overlaps reaches every trusted peer that was reached.
THEOREM LoneSaveIsShared == Spec => []LoneSaveReachesPeers
<1>1. Inv => LoneSaveReachesPeers
  <2> DEFINE K == Len(saves)
             s == saves[K]
  <2> SUFFICES ASSUME Inv, saves # << >>, s.ran, s.alone, s.stage = "sending", Quiet,
                      NEW m \in {s.by} \cup (s.listed \ s.missed)
               PROVE  Agrees(layout[m], s.layout)
    BY DEF LoneSaveReachesPeers, Agrees
  <2>1. K \in Nat /\ K > 0
    BY EmptySeq DEF Inv, TypeInv
  <2>2. mail = {} /\ s.todo = {}
    BY <2>1 DEF Quiet, Sending
  <2> QED BY <2>1, <2>2 DEF Inv, LoneInv
<1> QED BY <1>1, LayoutInvariant, PTL

KeepsApart(n, m) ==
  m \in approved'[n] \ approved[n] /\ m \notin Placed(layout[n]) /\ Apart(layout[n]) =>
    /\ Apart(layout'[n])
    /\ \A d \in Placed(layout[n]) : layout'[n][d] = layout[n][d]

LEMMA ApproveKeepsApart ==
  ASSUME LayoutSyncAssumption, Inv, NEW n \in Machines, NEW m \in Machines, NEW size \in Sizes,
         ApprovePeer(n, m, size), m \notin Placed(layout[n]), Apart(layout[n])
  PROVE  /\ Apart(layout'[n])
         /\ \A d \in Placed(layout[n]) : layout'[n][d] = layout[n][d]
<1>1. PICK L \in EnsurePeer(n, layout[n], m, size) : layout' = [layout EXCEPT ![n] = L]
  BY DEF ApprovePeer
<1>2. layout[n] \in LayoutSet /\ layout'[n] = L
  BY <1>1 DEF Inv, TypeInv
<1>3. /\ L \in LayoutSet
      /\ Placed(L) = Placed(layout[n]) \cup {m}
      /\ \A d \in Placed(layout[n]) : L[d] = layout[n][d] /\ G!MaxX(L[d]) <= L[m].x
  BY <1>2, EnsurePeerKeeps
<1>4. ASSUME NEW d \in Placed(layout[n]) PROVE ~Crossing(L[d], L[m]) /\ ~Crossing(L[m], L[d])
  <2>1. L[d] \in Nodes /\ L[m] \in Nodes
    BY <1>3, NodeOf
  <2> QED BY <1>3, <2>1 DEF Crossing, G!OverlapX, G!Overlap, G!MaxX, Nodes
<1>5. Apart(L)
  <2> SUFFICES ASSUME NEW d \in Placed(L), NEW e \in Placed(L), d # e
               PROVE  ~Crossing(L[d], L[e])
    BY DEF Apart
  <2> QED BY <1>3, <1>4 DEF Apart
<1> QED BY <1>2, <1>3, <1>5

\* Only the approval of a peer makes it trusted, and the first one places it
\* beside everything that is placed.
THEOREM ApprovalsKeepApart == Spec => ApprovalKeepsApart
<1>1. ASSUME Inv, [Next]_vars, NEW n \in Machines, NEW m \in Machines PROVE KeepsApart(n, m)
  <2> SUFFICES ASSUME m \in approved'[n] \ approved[n] PROVE KeepsApart(n, m)
    BY DEF KeepsApart
  <2>1. \E size \in {Screen[m], Unknown} : ApprovePeer(n, m, size)
    <3>1. Next /\ approved' # approved
      BY <1>1 DEF vars
    <3>2. ASSUME NEW k \in Machines, Start(k) PROVE FALSE
      BY <3>1, <3>2 DEF Start
    <3>3. ASSUME NEW k \in 1..Len(saves), Broadcast(k) PROVE FALSE
      BY <3>1, <3>3 DEF Broadcast, ListPeers, SendUpdate, SkipPeer
    <3>4. ASSUME NEW k \in 1..Len(saves), NEW p \in Machines,
                 LoseUpdate(p, k) \/ HandleLayoutUpdate(p, k)
          PROVE FALSE
      BY <3>1, <3>4 DEF LoseUpdate, HandleLayoutUpdate
    <3>5. PICK p \in Machines : User(p)
      BY <3>1, <3>2, <3>3, <3>4 DEF Next
    <3>6. ASSUME NEW L \in Drafts, SaveLayout(p, L) PROVE FALSE
      BY <3>1, <3>6 DEF SaveLayout
    <3>7. ASSUME NEW q \in Machines, RejectPeer(p, q) PROVE FALSE
      BY <1>1, <3>7 DEF RejectPeer, Inv, TypeInv
    <3>8. PICK q \in Machines : \E size \in {Screen[q], Unknown} : ApprovePeer(p, q, size)
      BY <3>5, <3>6, <3>7 DEF User
    <3>9. PICK size \in {Screen[q], Unknown} : ApprovePeer(p, q, size)
      BY <3>8
    <3>10. p = n /\ q = m
      BY <1>1, <3>9 DEF ApprovePeer, Inv, TypeInv
    <3> QED BY <3>9, <3>10
  <2>2. Screen[m] \in Sizes /\ Unknown \in Sizes
    BY LayoutSyncAssumption DEF LayoutSyncAssumption, Unknown, Sizes
  <2> QED BY <1>1, <2>1, <2>2, LayoutSyncAssumption, ApproveKeepsApart DEF KeepsApart
<1>2. Inv /\ [Next]_vars =>
        [\A n, m \in Machines :
           m \in approved'[n] \ approved[n] /\ m \notin Placed(layout[n]) /\ Apart(layout[n]) =>
             /\ Apart(layout'[n])
             /\ \A d \in Placed(layout[n]) : layout'[n][d] = layout[n][d]]_vars
  BY <1>1 DEF KeepsApart
<1> QED BY <1>2, LayoutInvariant, PTL DEF Spec, ApprovalKeepsApart

-----------------------------------------------------------------------------
(* A layout has one source                                                 *)

Sources(n) == {Loaded[n]} \cup {saves[k].layout : k \in 1..Len(saves)}

SavesKept ==
  Len(saves) <= Len(saves') /\ \A k \in 1..Len(saves) : saves'[k].layout = saves[k].layout

LEMMA MadeFromSelf == ASSUME NEW n, NEW L PROVE MadeFrom(n, L, L)
BY DEF MadeFrom, SamePlace

LEMMA MadeFromTransitive ==
  ASSUME NEW n, NEW K, NEW L, NEW M, MadeFrom(n, K, L), MadeFrom(n, L, M)
  PROVE  MadeFrom(n, K, M)
BY DEF MadeFrom, SamePlace

\* ensureLocalLayout touches the own screen only.
LEMMA EnsureLocalMade ==
  ASSUME LayoutSyncAssumption, NEW n \in Machines, NEW L \in LayoutSet
  PROVE  MadeFrom(n, EnsureLocal(n, L), L)
<1>1. CASE G!Empty(Screen[n])
  BY <1>1, MadeFromSelf DEF EnsureLocal
<1>2. CASE ~G!Empty(Screen[n])
  <2> DEFINE at == IF n \in Placed(L) THEN L[n] ELSE [x |-> 0, y |-> 0]
             node == [x |-> at.x, y |-> at.y, w |-> Screen[n].w, h |-> Screen[n].h]
  <2>1. EnsureLocal(n, L) = Put(L, n, node)
    BY <1>2 DEF EnsureLocal
  <2>2. /\ Placed(EnsureLocal(n, L)) = Placed(L) \cup {n}
        /\ \A d \in Placed(L) : d # n => EnsureLocal(n, L)[d] = L[d]
    BY <2>1 DEF Put, Placed
  <2>3. Agrees(EnsureLocal(n, L), L)
    BY EnsureLocalKeeps
  <2> QED BY <2>2, <2>3 DEF MadeFrom, OwnWork, Agrees
<1> QED BY <1>1, <1>2

\* A layout made from another of the machine's own, or from a new source.
LEMMA SourceKept ==
  ASSUME OneSource, SavesKept, Len(saves) \in Nat, Len(saves') \in Nat, NEW n \in Machines,
         \E K \in {layout[n]} \cup Sources(n)' : MadeFrom(n, layout'[n], K)
  PROVE  \E L \in Sources(n)' : MadeFrom(n, layout'[n], L)
<1>1. Sources(n) \subseteq Sources(n)'
  BY DEF Sources, SavesKept
<1>2. PICK K \in {layout[n]} \cup Sources(n)' : MadeFrom(n, layout'[n], K)
  OBVIOUS
<1>3. CASE K = layout[n]
  <2>1. PICK L \in Sources(n) : MadeFrom(n, layout[n], L)
    BY DEF OneSource, Sources
  <2> QED BY <1>1, <1>2, <1>3, <2>1, MadeFromTransitive
<1> QED BY <1>2, <1>3

\* The step makes one machine's layout from K, or from what it had, and leaves
\* the others alone.
LEMMA SourceStep ==
  ASSUME OneSource, TypeInv, TypeInv', SavesKept, NEW n \in Machines,
         NEW K \in {layout[n]} \cup Sources(n)', MadeFrom(n, layout'[n], K),
         \A d \in Machines : d # n => layout'[d] = layout[d]
  PROVE  OneSource'
<1>1. Len(saves) \in Nat /\ Len(saves') \in Nat
  BY LenProperties DEF TypeInv
<1>2. ASSUME NEW d \in Machines
      PROVE  \E L \in {layout[d]} \cup Sources(d)' : MadeFrom(d, layout'[d], L)
  BY <1>2, MadeFromSelf
<1>3. \A d \in Machines : \E L \in Sources(d)' : MadeFrom(d, layout'[d], L)
  BY <1>1, <1>2, SourceKept
<1> QED BY <1>3 DEF OneSource, Sources

LEMMA BroadcastKeepsSources ==
  ASSUME TypeInv, NEW k \in 1..Len(saves), NEW m \in Machines,
         ListPeers(k) \/ SendUpdate(k, m) \/ SkipPeer(k, m) \/ LoseUpdate(m, k)
  PROVE  SavesKept /\ layout' = layout
<1>1. /\ saves \in Seq(SaveSet) /\ Len(saves) \in Nat
      /\ \A j \in 1..Len(saves) : saves[j] \in SaveSet
  BY ElementOfSeq, LenProperties DEF TypeInv
<1>2. PICK r : saves' = [saves EXCEPT ![k] = r] /\ r.layout = saves[k].layout
  <2>1. CASE ListPeers(k)
    <3> DEFINE r1 == [saves[k] EXCEPT !.stage = "sending"]
               r2 == [r1 EXCEPT !.listed = approved[saves[k].by]]
               r3 == [r2 EXCEPT !.todo = approved[saves[k].by]]
    <3>1. saves' = [saves EXCEPT ![k] = r3]
      BY <2>1 DEF ListPeers
    <3>2. r3.layout = saves[k].layout
      BY <1>1 DEF SaveSet
    <3> HIDE DEF r3
    <3> QED BY <3>1, <3>2
  <2>2. CASE SendUpdate(k, m)
    <3>1. saves' = [saves EXCEPT ![k] = [saves[k] EXCEPT !.todo = @ \ {m}]]
      BY <2>2 DEF SendUpdate
    <3>2. [saves[k] EXCEPT !.todo = @ \ {m}].layout = saves[k].layout
      BY <1>1 DEF SaveSet
    <3> QED BY <3>1, <3>2
  <2>3. CASE SkipPeer(k, m)
    <3> DEFINE r1 == [saves[k] EXCEPT !.todo = @ \ {m}]
               r2 == [r1 EXCEPT !.missed = @ \cup {m}]
    <3>1. saves' = [saves EXCEPT ![k] = r2]
      BY <2>3 DEF SkipPeer
    <3>2. r2.layout = saves[k].layout
      BY <1>1 DEF SaveSet
    <3> HIDE DEF r2
    <3> QED BY <3>1, <3>2
  <2>4. CASE LoseUpdate(m, k)
    <3>1. saves' = [saves EXCEPT ![k] = [saves[k] EXCEPT !.missed = @ \cup {m}]]
      BY <2>4 DEF LoseUpdate
    <3>2. [saves[k] EXCEPT !.missed = @ \cup {m}].layout = saves[k].layout
      BY <1>1 DEF SaveSet
    <3> QED BY <3>1, <3>2
  <2> QED BY <2>1, <2>2, <2>3, <2>4
<1>3. Len(saves') = Len(saves) /\ \A j \in 1..Len(saves) : saves'[j] = IF j = k THEN r ELSE saves[j]
  BY <1>1, <1>2
<1>4. layout' = layout
  BY DEF ListPeers, SendUpdate, SkipPeer, LoseUpdate
<1> QED BY <1>1, <1>2, <1>3, <1>4 DEF SavesKept

LEMMA SourceNext ==
  ASSUME LayoutSyncAssumption, Inv, Inv', OneSource, [Next]_vars
  PROVE  OneSource'
<1>1. TypeInv /\ TypeInv'
  BY DEF Inv
<1>2. \A n \in Machines : layout[n] \in LayoutSet
  BY <1>1 DEF TypeInv
<1>3. ASSUME UNCHANGED saves PROVE SavesKept
  BY <1>1, <1>3, LenProperties DEF SavesKept, TypeInv
<1>4. ASSUME SavesKept, layout' = layout PROVE OneSource'
  <2>1. ASSUME NEW n \in Machines PROVE OneSource'
    BY <1>1, <1>4, <2>1, SourceStep, MadeFromSelf
  <2> QED BY <2>1 DEF OneSource
<1>5. CASE UNCHANGED vars
  BY <1>3, <1>4, <1>5 DEF vars
<1>6. ASSUME NEW n \in Machines, Start(n) PROVE OneSource'
  <2>1. PICK L \in {layout[n], Loaded[n]} : layout' = [layout EXCEPT ![n] = EnsureLocal(n, L)]
    BY <1>6 DEF Start
  <2>2. L \in LayoutSet
    BY <1>2, <2>1, LayoutSetDef DEF LayoutSyncAssumption
  <2>3. /\ MadeFrom(n, layout'[n], L)
        /\ \A d \in Machines : d # n => layout'[d] = layout[d]
    BY <1>1, <2>1, <2>2, EnsureLocalMade DEF TypeInv
  <2>4. L \in {layout[n]} \cup Sources(n)' /\ SavesKept
    BY <1>3, <1>6, <2>1 DEF Sources, Start
  <2> QED BY <1>1, <2>3, <2>4, SourceStep
<1>7. ASSUME NEW n \in Machines, NEW m \in Machines, NEW size \in Sizes,
             ApprovePeer(n, m, size)
      PROVE  OneSource'
  <2>1. PICK L \in EnsurePeer(n, layout[n], m, size) : layout' = [layout EXCEPT ![n] = L]
    BY <1>7 DEF ApprovePeer
  <2>2. /\ Placed(L) = Placed(layout[n]) \cup {m} /\ Agrees(L, layout[n])
        /\ \A d \in Placed(layout[n]) : d # m => L[d] = layout[n][d]
    BY <1>2, <1>7, <2>1, EnsurePeerKeeps
  <2>3. m \in OwnWork(n)
    BY <1>7 DEF ApprovePeer, OwnWork
  <2>4. MadeFrom(n, L, layout[n])
    BY <2>2, <2>3 DEF MadeFrom, Agrees
  <2>5. layout'[n] = L /\ \A d \in Machines : d # n => layout'[d] = layout[d]
    BY <1>1, <2>1 DEF TypeInv
  <2>6. SavesKept
    BY <1>3, <1>7 DEF ApprovePeer
  <2> QED BY <1>1, <2>4, <2>5, <2>6, SourceStep
<1>8. ASSUME NEW n \in Machines, NEW m \in Machines, RejectPeer(n, m) PROVE OneSource'
  BY <1>3, <1>4, <1>8 DEF RejectPeer
<1>9. ASSUME NEW n \in Machines, NEW L \in Drafts, SaveLayout(n, L) PROVE OneSource'
  <2> DEFINE M == EnsureLocal(n, L)
  <2>1. layout'[n] = M /\ \A d \in Machines : d # n => layout'[d] = layout[d]
    BY <1>1, <1>9 DEF SaveLayout, TypeInv
  <2> HIDE DEF M
  <2>2. PICK r : saves' = Append(saves, r) /\ r.layout = M
    <3>1. PICK stage \in {"begun", "failed"} :
            saves' = Append(saves, [by |-> n, layout |-> M, stage |-> stage,
                                    listed |-> {}, todo |-> {}, missed |-> {},
                                    ran |-> \A m \in Machines : started[m], alone |-> Quiet])
      BY <1>9 DEF SaveLayout, M
    <3> QED BY <3>1
  <2>3. saves \in Seq(SaveSet) /\ Len(saves) \in Nat /\ saves' \in Seq(SaveSet)
    BY <1>1, LenProperties DEF TypeInv
  <2>4. /\ Len(saves') = Len(saves) + 1 /\ saves'[Len(saves')] = r
        /\ \A k \in 1..Len(saves) : saves'[k] = saves[k]
    BY <2>2, <2>3
  <2>5. SavesKept /\ M \in Sources(n)'
    BY <2>2, <2>3, <2>4 DEF SavesKept, Sources
  <2> QED BY <1>1, <2>1, <2>5, SourceStep, MadeFromSelf
<1>10. ASSUME NEW k \in 1..Len(saves), NEW m \in Machines, HandleLayoutUpdate(m, k)
       PROVE  OneSource'
  <2> DEFINE L == saves[k].layout
  <2>1. L \in LayoutSet
    BY <1>1, SaveFields
  <2>2. MadeFrom(m, layout'[m], L) /\ \A d \in Machines : d # m => layout'[d] = layout[d]
    BY <1>1, <1>10, <2>1, EnsureLocalMade, MadeFromSelf DEF HandleLayoutUpdate, TypeInv
  <2>3. SavesKept /\ L \in Sources(m)'
    BY <1>3, <1>10 DEF HandleLayoutUpdate, Sources
  <2> QED BY <1>1, <2>2, <2>3, SourceStep
<1>11. ASSUME NEW k \in 1..Len(saves), NEW m \in Machines,
              ListPeers(k) \/ SendUpdate(k, m) \/ SkipPeer(k, m) \/ LoseUpdate(m, k)
       PROVE  OneSource'
  BY <1>1, <1>4, <1>11, BroadcastKeepsSources
<1>12. CASE Next
  <2>1. \A m \in Machines : \A size \in {Screen[m], Unknown} : size \in Sizes
    BY DEF LayoutSyncAssumption, Unknown, Sizes
  <2>2. ASSUME NEW n \in Machines, User(n) PROVE OneSource'
    BY <1>7, <1>8, <1>9, <2>1, <2>2 DEF User
  <2>3. ASSUME NEW k \in 1..Len(saves), Broadcast(k) PROVE OneSource'
    <3>1. CASE ListPeers(k)
      <4>1. saves[k].by \in Machines
        BY <1>1, SaveFields
      <4> QED BY <1>11, <3>1, <4>1
    <3> QED BY <1>11, <2>3, <3>1 DEF Broadcast
  <2> QED BY <1>6, <1>10, <1>11, <1>12, <2>2, <2>3 DEF Next
<1> QED BY <1>5, <1>12

\* Every machine's layout is one save's, or the one it started with, whole:
\* updates that cross may leave machines with different layouts, never with one
\* that nobody has drawn.
THEOREM LayoutsHaveOneSource == Spec => []OneSource
<1>1. Init => OneSource
  BY MadeFromSelf DEF Init, OneSource
<1>2. Inv /\ Inv' /\ OneSource /\ [Next]_vars => OneSource'
  BY LayoutSyncAssumption, SourceNext
<1> QED BY <1>1, <1>2, LayoutInvariant, PTL DEF Spec
=============================================================================
