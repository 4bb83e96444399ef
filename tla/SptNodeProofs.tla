--------------------------- MODULE SptNodeProofs ---------------------------
(***************************************************************************)
(* Proofs about SptNode: what holds of one device among arbitrary peers,   *)
(* for every choice of the constants. Init, then one step per action, on   *)
(* top of the handler lemmas of SptProofs.                                 *)
(***************************************************************************)
EXTENDS SptNode, SptProofs

(* The inductive invariant: types, and the tables sound. *)
IInv == TypeOK /\ Sound(spt)

(* A device starts with empty tables. *)
LEMMA InitIInv == Init => IInv
<1> SUFFICES ASSUME Init PROVE IInv
  OBVIOUS
<1>1. InitSpt(Self) \in SptState
  BY NodeAssumption, TimeAssumption, SizeAssumption DEF InitSpt, SptState, Age, Cost
<1>2. spt = InitSpt(Self)
  BY DEF Init
<1> QED BY <1>1, <1>2 DEF Init, IInv, TypeOK, Sound, InitSpt, LinksUnique,
                          NeighborsUnique, FlagsAgree

(* What a peer may send is a beacon. *)
LEMMA PeerBeaconType ==
  ASSUME NEW p \in Peers, NEW m \in PeerBeacon(p)
  PROVE  m \in Beacon
<1>1. p \in Ids /\ 0 .. MaxCost \subseteq Cost
  BY NodeAssumption, SizeAssumption DEF Cost
<1>2. PeerLinks \subseteq SUBSET LinkReport
  <2>1. \A q \in Reports : [id |-> Self, quality |-> q] \in LinkReport
    BY NodeAssumption DEF LinkReport
  <2>2. \A x \in PeerLinks :
          x = {} \/ \E q \in Reports : x = {[id |-> Self, quality |-> q]}
    BY DEF PeerLinks
  <2> QED BY <2>1, <2>2
<1> QED BY <1>1, <1>2 DEF PeerBeacon, Beacon

(* Every step keeps the tables sound. *)
LEMMA NextIInv == IInv /\ [Next]_vars => IInv'
<1> SUFFICES ASSUME IInv, [Next]_vars PROVE IInv'
  OBVIOUS
<1> USE DEF IInv
<1>1. CASE Tick
  <2>1. PICK late \in BOOLEAN :
          spt' = [Elapse(spt, 1) EXCEPT !.clockReal = spt.clockReal \/ late]
    BY <1>1 DEF Tick
  <2> DEFINE t == Elapse(spt, 1)
  <2>2. Sound(t) /\ t.id = spt.id
    BY ElapseSound
  <2>3. (spt.clockReal \/ late) \in BOOLEAN
    OBVIOUS
  <2> HIDE DEF t
  <2>4. spt' = [t EXCEPT !.clockReal = spt.clockReal \/ late]
    BY <2>1 DEF t
  <2>5. Sound(spt') /\ spt'.id = spt.id
    BY <2>2, <2>3, <2>4 DEF Sound, SptState, LinksUnique, FlagsAgree
  <2> QED BY <1>1, <2>5 DEF Tick, TypeOK, Sound
<1>2. CASE Maintenance
  <2>1. Sound(spt') /\ spt'.id = spt.id
    BY <1>2, MaintainSound DEF Maintenance
  <2> QED BY <1>2, <2>1 DEF Maintenance, TypeOK, Sound
<1>3. CASE Idle
  BY <1>3 DEF Idle, TypeOK, Sound
<1>4. CASE Receive
  <2>0. PICK p \in talking :
          \E m \in PeerBeacon(p), d \in Jumps, g \in Pings :
             spt' = HandleBeacon(spt, m, d, g)
    BY <1>4 DEF Receive
  <2>1. PICK m \in PeerBeacon(p), d \in Jumps, g \in Pings :
          spt' = HandleBeacon(spt, m, d, g)
    BY <2>0
  <2>2. m \in Beacon
    BY <2>1, PeerBeaconType DEF TypeOK
  <2>3. d \in Nat
    BY NodeAssumption
  <2>4. Sound(spt') /\ spt'.id = spt.id
    BY <2>1, <2>2, <2>3, HandleBeaconSound
  <2> QED BY <1>4, <2>4 DEF Receive, TypeOK, Sound
<1>5. CASE FallSilent
  BY <1>5 DEF FallSilent, TypeOK, Sound
<1>6. CASE UNCHANGED vars
  BY <1>6 DEF vars, TypeOK, Sound
<1> QED BY <1>1, <1>2, <1>3, <1>4, <1>5, <1>6 DEF Next, Engine

(* The inductive invariant holds in every reachable state. *)
THEOREM Invariance == Spec => []IInv
<1>1. Init => IInv
  BY InitIInv
<1>2. IInv /\ [Next]_vars => IInv'
  BY NextIInv
<1> QED BY <1>1, <1>2, PTL DEF Spec

(* Type correctness of the node, for every choice of the constants. *)
THEOREM TypeCorrect == Spec => []TypeOK
<1>1. IInv => TypeOK
  BY DEF IInv
<1> QED BY <1>1, Invariance, PTL

(* No beacon sequence gives a device two entries for one sender, twins and *)
(* full tables included.                                                   *)
THEOREM EntriesAreUnique == Spec => []EntriesUnique
<1>1. IInv => EntriesUnique
  BY DEF IInv, Sound, LinksUnique, NeighborsUnique, EntriesUnique
<1> QED BY <1>1, Invariance, PTL

(* The isAncestor flag and ancestorId agree whenever there is a parent.    *)
THEOREM AncestorFlagAgrees == Spec => []AncestorFlag
<1>1. IInv => AncestorFlag
  BY DEF IInv, TypeOK, Sound, FlagsAgree, AncestorFlag
<1> QED BY <1>1, Invariance, PTL

-----------------------------------------------------------------------------
(* The strengthening for a table with room for every peer. *)
RoomInv == IInv /\ Roomy(spt, Peers)

(* Every step keeps the parent in a table with that room. *)
LEMMA NextRoomInv ==
  ASSUME IsFiniteSet(Peers), Cardinality(Peers) <= NeighborhoodMax
  PROVE  RoomInv /\ [Next]_vars => RoomInv'
<1> SUFFICES ASSUME RoomInv, [Next]_vars PROVE RoomInv'
  OBVIOUS
<1>1. IInv'
  BY NextIInv DEF RoomInv
<1>2. Roomy(spt, Peers) /\ Sound(spt) /\ talking \subseteq Peers
  BY DEF RoomInv, IInv, TypeOK
<1>3. CASE Tick
  <2>1. PICK late \in BOOLEAN :
          spt' = [Elapse(spt, 1) EXCEPT !.clockReal = spt.clockReal \/ late]
    BY <1>3 DEF Tick
  <2>2. Elapse(spt, 1) \in SptState /\ SameTree(spt, Elapse(spt, 1))
    BY <1>2, ElapseSound, ElapseSameTree DEF Sound
  <2>3. SameTree(spt, spt')
    BY <2>1, <2>2 DEF SameTree, SptState
  <2> QED BY <1>1, <1>2, <2>3 DEF RoomInv, SameTree, Roomy
<1>4. CASE Maintenance
  BY <1>1, <1>2, <1>4, MaintainRoomy DEF Maintenance, RoomInv
<1>5. CASE Receive
  <2>1. PICK p \in talking :
          \E m \in PeerBeacon(p), d \in Jumps, g \in Pings :
             spt' = HandleBeacon(spt, m, d, g)
    BY <1>5 DEF Receive
  <2>2. PICK m \in PeerBeacon(p), d \in Jumps, g \in Pings :
          spt' = HandleBeacon(spt, m, d, g)
    BY <2>1
  <2>3. m \in Beacon /\ m.sender = p /\ p \in Peers /\ d \in Nat
    BY <1>2, <2>2, PeerBeaconType, NodeAssumption DEF PeerBeacon
  <2> QED BY <1>1, <1>2, <2>2, <2>3, HandleBeaconRoomy DEF RoomInv
<1>6. CASE Idle \/ FallSilent \/ UNCHANGED vars
  BY <1>1, <1>2, <1>6 DEF Idle, FallSilent, vars, RoomInv
<1> QED BY <1>3, <1>4, <1>5, <1>6 DEF Next, Engine

(* A table with room for every peer always holds the parent's entry, so    *)
(* the parent's silence is noticed.                                        *)
THEOREM ParentIsRecorded ==
  ASSUME IsFiniteSet(Peers), Cardinality(Peers) <= NeighborhoodMax
  PROVE  Spec => []ParentRecorded
<1>1. Init => RoomInv
  BY InitIInv DEF Init, RoomInv, Roomy, InitSpt
<1>2. RoomInv /\ [Next]_vars => RoomInv'
  BY NextRoomInv
<1>3. RoomInv => ParentRecorded
  BY DEF RoomInv, IInv, TypeOK, Roomy, ParentRecorded
<1> QED BY <1>1, <1>2, <1>3, PTL DEF Spec

-----------------------------------------------------------------------------
(* The parent's entry names a root that is not beyond the device: what the *)
(* swap policy compares a beacon's root with. Only a beacon of the parent  *)
(* itself can then make the device a root.                                 *)
ParentBelow(s) ==
    s.ancestorId # s.id => \A e \in Recorded(s, s.ancestorId) : e.rootId <= s.id

(* Any beacon leaves a link of age 0 to its sender. *)
LEMMA HandleBeaconLink ==
  ASSUME NEW s, Sound(s), NEW m \in Beacon, NEW d \in Nat, NEW g \in Pings
  PROVE  \E l \in HandleBeacon(s, m, d, g).adjacency : l.id = m.sender /\ l.age = 0
<1> DEFINE synced == SyncClock(s, m, d)
           heard == UpdateLink(synced, m, g)
           checked == CheckAncestor(heard, m)
           t == HandleBeacon(s, m, d, g)
<1>1. Sound(synced) /\ Sound(heard) /\ Sound(checked)
  BY SyncClockSound, UpdateLinkSound, CheckAncestorSound
<1> HIDE DEF synced
<1>2. \E l \in heard.adjacency : l.id = m.sender /\ l.age = 0
  <2> DEFINE pings == RecordPing(LinkTo(synced, m.sender, g))
             new == [id |-> m.sender, quality |-> LinkQuality(synced, m, pings),
                     age |-> 0, pings |-> pings]
  <2>1. heard.adjacency = {l \in synced.adjacency : l.id # m.sender} \cup {new}
    BY <1>1 DEF UpdateLink, Sound, SptState
  <2>2. new.id = m.sender /\ new.age = 0
    OBVIOUS
  <2> QED BY <2>1, <2>2
<1> HIDE DEF heard
<1>3. checked.adjacency = heard.adjacency
  BY <1>1 DEF CheckAncestor, Sound, SptState
<1> HIDE DEF checked
<1>4. t \in {heard, FollowParent(checked, m), RecordDescendant(checked, m),
             ForgetDescendant(checked, m)}
  BY DEF HandleBeacon, heard, checked, synced
<1>5. t.adjacency = heard.adjacency
  BY <1>1, <1>3, <1>4 DEF FollowParent, RecordDescendant, ForgetDescendant, Sound, SptState
<1> QED BY <1>2, <1>5 DEF t

(* What becomes of the parent when a beacon is handled. *)
LEMMA HandleBeaconParent ==
  ASSUME NEW P, NEW s, Sound(s), Roomy(s, P), ParentBelow(s),
         NEW m \in Beacon, m.sender # s.id, NEW d \in Nat, NEW g \in Pings
  PROVE  /\ ParentBelow(HandleBeacon(s, m, d, g))
         /\ s.ancestorId # s.id /\ HandleBeacon(s, m, d, g).ancestorId = s.id
               => s.ancestorId = m.sender
<1> DEFINE heard == UpdateLink(SyncClock(s, m, d), m, g)
           checked == CheckAncestor(heard, m)
           t == HandleBeacon(s, m, d, g)
<1>1. Sound(heard) /\ SameTree(s, heard)
  BY SyncClockSound, UpdateLinkSound, HeardSameTree
<1>2. Roomy(heard, P) /\ ParentBelow(heard)
  BY <1>1 DEF SameTree, Roomy, ParentBelow, Recorded
<1>3. heard.id = s.id /\ heard.ancestorId = s.ancestorId
  BY <1>1 DEF SameTree
<1> HIDE DEF heard
<1>4. checked = heard
  <2>1. heard.ancestorId # heard.id => Recorded(heard, heard.ancestorId) # {}
    BY <1>2 DEF Roomy, Recorded
  <2>2. heard.ancestorId = heard.id => [heard EXCEPT !.ancestorId = heard.id] = heard
    BY <1>1 DEF Sound, SptState
  <2> QED BY <2>1, <2>2 DEF CheckAncestor
<1>5. \/ t = heard
      \/ /\ t = FollowParent(heard, m)
         /\ ShouldBeParent(heard, m) \/ heard.ancestorId = m.sender
      \/ t = RecordDescendant(heard, m) /\ heard.ancestorId # m.sender
      \/ t = ForgetDescendant(heard, m) /\ heard.ancestorId # m.sender
  BY <1>4 DEF HandleBeacon, heard
<1>6. CASE t = heard
  BY <1>2, <1>3, <1>6
<1>7. CASE /\ t = FollowParent(heard, m)
           /\ ShouldBeParent(heard, m) \/ heard.ancestorId = m.sender
  <2> DEFINE table == IF heard.ancestorId = m.sender THEN heard.neighborhood
                      ELSE ReplaceParent(heard.neighborhood, m)
  <2>1. /\ t.id = heard.id
        /\ t.ancestorId = IF m.root > heard.id THEN heard.id ELSE m.sender
        /\ t.neighborhood = Refresh(table, m.sender)
    BY <1>1, <1>7 DEF FollowParent, Sound, SptState
  <2>2. /\ heard.id \in Nat /\ m.root \in Nat
        /\ heard.neighborhood \in SUBSET Neighbor
    BY <1>1, IdsAssumption DEF Sound, SptState, Beacon
  <2>3. heard.ancestorId # heard.id /\ heard.ancestorId # m.sender => ~(m.root > heard.id)
    <3> SUFFICES ASSUME heard.ancestorId # heard.id, heard.ancestorId # m.sender
                 PROVE  m.root <= heard.id
      BY <2>2
    <3>1. Recorded(heard, heard.ancestorId) # {} /\ ShouldBeParent(heard, m)
      BY <1>2, <1>7 DEF Roomy, Recorded
    <3>2. PICK a \in Recorded(heard, heard.ancestorId) : m.root = a.rootId
      BY <3>1 DEF ShouldBeParent, SwapWarranted
    <3> QED BY <1>2, <3>2 DEF ParentBelow
  <2>4. \A e \in t.neighborhood : \E f \in table :
          e.neighborId = f.neighborId /\ e.rootId = f.rootId
    <3>1. table \subseteq Neighbor
      BY <1>1, <2>2, ReplaceParentSound DEF Sound, FlagsAgree
    <3> HIDE DEF table
    <3>2. \A f \in table : LET e == IF f.neighborId = m.sender
                                    THEN [f EXCEPT !.age = 0] ELSE f
                           IN  e.neighborId = f.neighborId /\ e.rootId = f.rootId
      BY <3>1 DEF Neighbor
    <3> QED BY <2>1, <3>2 DEF Refresh
  <2>5. t.ancestorId # t.id =>
           \A f \in table : f.neighborId = m.sender => f.rootId <= heard.id
    <3> SUFFICES ASSUME ~(m.root > heard.id), NEW f \in table, f.neighborId = m.sender
                 PROVE  f.rootId <= heard.id
      BY <2>1
    <3>1. CASE heard.ancestorId = m.sender
      BY <1>2, <1>3, <3>1 DEF ParentBelow, Recorded
    <3>2. CASE heard.ancestorId # m.sender
      <4>1. table \subseteq WithoutNeighbor(heard.neighborhood, m.sender)
                              \cup {NeighborFrom(m, TRUE)}
        BY <3>2 DEF ReplaceParent, WithoutNeighbor, WithNeighbor
      <4>2. f = NeighborFrom(m, TRUE)
        BY <4>1 DEF WithoutNeighbor
      <4>3. f.rootId = m.root
        BY <4>2 DEF NeighborFrom
      <4> QED BY <2>2, <4>3
    <3> QED BY <3>1, <3>2
  <2> HIDE DEF table
  <2>6. ParentBelow(t)
    <3> SUFFICES ASSUME t.ancestorId # t.id, NEW e \in t.neighborhood,
                        e.neighborId = t.ancestorId
                 PROVE  e.rootId <= t.id
      BY DEF ParentBelow, Recorded
    <3>1. e.neighborId = m.sender
      BY <2>1
    <3> QED BY <2>1, <2>4, <2>5, <3>1
  <2> QED BY <1>3, <2>1, <2>3, <2>6
<1>8. CASE t = RecordDescendant(heard, m) /\ heard.ancestorId # m.sender
  <2>1. t.id = heard.id /\ t.ancestorId = heard.ancestorId
    BY <1>1, <1>8 DEF RecordDescendant, Sound, SptState
  <2>2. \A e \in t.neighborhood : e \in heard.neighborhood \/ e.neighborId = m.sender
    <3>1. \A b : NeighborFrom(m, b).neighborId = m.sender
      BY DEF NeighborFrom
    <3>2. CASE Recorded(heard, m.sender) = {}
      <4>1. t.neighborhood \subseteq heard.neighborhood \cup {NeighborFrom(m, FALSE)}
        BY <1>1, <1>8, <3>2 DEF RecordDescendant, WithNeighbor, Sound, SptState
      <4> QED BY <3>1, <4>1
    <3>3. CASE Recorded(heard, m.sender) # {}
      <4>1. t.neighborhood =
              {IF e.neighborId = m.sender THEN NeighborFrom(m, e.isAncestor) ELSE e
                 : e \in heard.neighborhood}
        BY <1>1, <1>8, <3>3 DEF RecordDescendant, Sound, SptState
      <4> QED BY <3>1, <4>1
    <3> QED BY <3>2, <3>3
  <2> QED BY <1>2, <1>3, <1>8, <2>1, <2>2 DEF ParentBelow, Recorded
<1>9. CASE t = ForgetDescendant(heard, m) /\ heard.ancestorId # m.sender
  <2>1. /\ t.id = heard.id /\ t.ancestorId = heard.ancestorId
        /\ t.neighborhood \subseteq heard.neighborhood
    BY <1>1, <1>9 DEF ForgetDescendant, WithoutNeighbor, Sound, SptState
  <2> QED BY <1>2, <1>3, <2>1 DEF ParentBelow, Recorded
<1> QED BY <1>3, <1>5, <1>6, <1>7, <1>8, <1>9

(* Nor do time and timeouts touch the roots of entries. *)
LEMMA ElapseParent ==
  ASSUME NEW s, Sound(s), ParentBelow(s), NEW b \in BOOLEAN
  PROVE  LET t == [Elapse(s, 1) EXCEPT !.clockReal = b]
         IN  ParentBelow(t) /\ SameTree(s, t)
<1> DEFINE u == Elapse(s, 1)
           t == [u EXCEPT !.clockReal = b]
<1>1. u \in SptState /\ SameTree(s, u)
  BY ElapseSound, ElapseSameTree DEF Sound
<1> HIDE DEF u
<1>2. SameTree(s, t)
  BY <1>1 DEF SameTree, SptState
<1> HIDE DEF t
<1>3. ParentBelow(t) /\ SameTree(s, t)
  BY <1>2 DEF SameTree, ParentBelow, Recorded
<1> QED BY <1>3 DEF t, u

LEMMA MaintainParent ==
  ASSUME NEW s, Sound(s), ParentBelow(s)
  PROVE  /\ ParentBelow(Maintain(s))
         /\ s.ancestorId # s.id /\ Maintain(s).ancestorId = s.id =>
               \E e \in Recorded(s, s.ancestorId) : e.age > NeighborTimeout
<1> DEFINE t == Maintain(s)
           lost == ParentTimedOut(s)
<1>1. /\ t.id = s.id
      /\ t.ancestorId = IF lost THEN s.id ELSE s.ancestorId
      /\ t.neighborhood \subseteq s.neighborhood
  BY DEF Maintain, Sound, SptState
<1>2. s.ancestorId # s.id /\ lost =>
         \E e \in Recorded(s, s.ancestorId) : e.age > NeighborTimeout
  BY DEF ParentTimedOut, Recorded, Sound, FlagsAgree
<1> HIDE DEF lost
<1> QED BY <1>1, <1>2 DEF ParentBelow, Recorded

KeptInv == RoomInv /\ ParentBelow(spt)

(* With room for every peer, and no peer under the device's own address, a *)
(* parent is given up for nobody only when it has itself been silent for   *)
(* longer than the neighbor timeout or has itself just spoken.             *)
THEOREM ParentIsKept ==
  ASSUME IsFiniteSet(Peers), Cardinality(Peers) <= NeighborhoodMax, Self \notin Peers
  PROVE  Spec => ParentKept
<1> DEFINE Kept == spt.ancestorId # Self /\ spt'.ancestorId = Self =>
              \/ \E e \in Recorded(spt, spt.ancestorId) : e.age > NeighborTimeout
              \/ \E l \in spt'.adjacency : l.id = spt.ancestorId /\ l.age = 0
<1>1. Init => KeptInv
  BY InitIInv DEF Init, KeptInv, RoomInv, Roomy, ParentBelow, InitSpt
<1>2. KeptInv /\ [Next]_vars => KeptInv' /\ Kept
  <2> SUFFICES ASSUME KeptInv, [Next]_vars PROVE ParentBelow(spt') /\ Kept
    BY NextRoomInv DEF KeptInv
  <2>1. /\ Sound(spt) /\ spt.id = Self /\ Roomy(spt, Peers) /\ ParentBelow(spt)
        /\ talking \subseteq Peers
    BY DEF KeptInv, RoomInv, IInv, TypeOK
  <2>2. CASE Tick
    <3>1. PICK late \in BOOLEAN :
            spt' = [Elapse(spt, 1) EXCEPT !.clockReal = spt.clockReal \/ late]
      BY <2>2 DEF Tick
    <3> DEFINE b == spt.clockReal \/ late
    <3>2. b \in BOOLEAN
      BY <2>1 DEF Sound, SptState
    <3>3. spt' = [Elapse(spt, 1) EXCEPT !.clockReal = b]
      BY <3>1
    <3> HIDE DEF b
    <3>4. ParentBelow(spt') /\ SameTree(spt, spt')
      BY <2>1, <3>2, <3>3, ElapseParent
    <3> QED BY <3>4 DEF SameTree
  <2>3. CASE Maintenance
    BY <2>1, <2>3, MaintainParent DEF Maintenance
  <2>4. CASE Receive
    <3>1. PICK p \in talking :
            \E m \in PeerBeacon(p), d \in Jumps, g \in Pings :
               spt' = HandleBeacon(spt, m, d, g)
      BY <2>4 DEF Receive
    <3>2. PICK m \in PeerBeacon(p), d \in Jumps, g \in Pings :
            spt' = HandleBeacon(spt, m, d, g)
      BY <3>1
    <3>3. m \in Beacon /\ m.sender = p /\ p # Self /\ d \in Nat
      BY <2>1, <3>2, PeerBeaconType, NodeAssumption DEF PeerBeacon
    <3>4. ParentBelow(spt')
      BY <2>1, <3>2, <3>3, HandleBeaconParent
    <3>5. spt.ancestorId # Self /\ spt'.ancestorId = Self => spt.ancestorId = m.sender
      BY <2>1, <3>2, <3>3, HandleBeaconParent
    <3>6. \E l \in spt'.adjacency : l.id = m.sender /\ l.age = 0
      BY <2>1, <3>2, <3>3, HandleBeaconLink
    <3> QED BY <3>4, <3>5, <3>6
  <2>5. CASE Idle \/ FallSilent \/ UNCHANGED vars
    BY <2>1, <2>5 DEF Idle, FallSilent, vars
  <2> QED BY <2>2, <2>3, <2>4, <2>5 DEF Next, Engine
<1>3. KeptInv /\ [Next]_vars => [Kept]_vars
  BY <1>2
<1> QED BY <1>1, <1>2, <1>3, PTL DEF Spec, ParentKept
=============================================================================
