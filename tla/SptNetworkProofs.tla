------------------------- MODULE SptNetworkProofs -------------------------
(***************************************************************************)
(* Proofs about SptNetwork, for any set of devices, any timeouts, table    *)
(* and inbox bounds, with loss, reordering, crashes and clock jumps. The   *)
(* invariant says of every device and of every beacon under way that       *)
(* parents descend and costs are bounded by addresses.                     *)
(***************************************************************************)
EXTENDS SptNetwork, SptProofs

(* Of one device: its parent and its cost are bounded by its address, and  *)
(* every neighbor it knows advertised itself as root.                      *)
Descends(s) ==
    /\ s.ancestorId <= s.id
    /\ s.cost <= s.id
    /\ \A e \in s.neighborhood : e.rootId = e.neighborId /\ e.neighborId # s.id

(* Of one beacon: it was written by spt_encode of a device as above. *)
Honest(m) ==
    /\ m \in Beacon
    /\ m.root = m.sender
    /\ m.cost <= m.sender

(* Tree info tells one story: a root, or a child of its parent's tree. *)
Consistent(s) ==
    IF s.ancestorId = s.id
    THEN s.rootId = s.id /\ s.cost = 0
    ELSE s.rootId = s.ancestorId /\ s.cost > 0

-----------------------------------------------------------------------------
(* A cost within a word is not reduced. *)
LEMMA SmallCost == ASSUME NEW c \in Cost PROVE c % Word = c
  BY SizeAssumption DEF Cost

(* A sender chosen as parent has a smaller address; with room in the table *)
(* it is the parent the device already had, unless it had none.            *)
LEMMA ChosenParent ==
  ASSUME NEW s \in SptState, Descends(s), NEW m, Honest(m), m.sender # s.id,
         ShouldBeParent(s, m) \/ CheckAncestor(s, m).ancestorId = m.sender
  PROVE  /\ m.sender < s.id
         /\ \A P : Roomy(s, P) => s.ancestorId \in {s.id, m.sender}
<1>1. /\ m.sender \in Nat /\ s.id \in Nat /\ s.ancestorId \in Nat
  BY IdsAssumption DEF Honest, Beacon, SptState
<1>2. CASE CheckAncestor(s, m).ancestorId = m.sender
  <2>1. s.ancestorId = m.sender
    BY <1>2 DEF CheckAncestor, SptState
  <2> QED BY <1>1, <2>1 DEF Descends
<1>3. CASE ShouldBeParent(s, m)
  <2>1. CASE Recorded(s, s.ancestorId) = {}
    <3>1. m.sender < s.id
      BY <1>3, <2>1 DEF ShouldBeParent, Honest
    <3>2. \A P : Roomy(s, P) => s.ancestorId = s.id
      BY <2>1 DEF Recorded, Roomy
    <3> QED BY <3>1, <3>2
  <2>2. CASE Recorded(s, s.ancestorId) # {}
    <3>1. PICK a \in s.neighborhood : a.neighborId = s.ancestorId /\ m.root = a.rootId
      BY <1>3, <2>2 DEF ShouldBeParent, SwapWarranted, Recorded
    <3>2. s.ancestorId = m.sender
      BY <3>1 DEF Descends, Honest
    <3> QED BY <1>1, <3>2 DEF Descends
  <2> QED BY <2>1, <2>2
<1> QED BY <1>2, <1>3, <1>1

(* The device's bounds survive a beacon from another device, and a device  *)
(* with room in its table stays consistent and keeps its parent or itself. *)
LEMMA HandleHonestBeacon ==
  ASSUME NEW s, Sound(s), Descends(s), NEW m, Honest(m), m.sender # s.id,
         NEW d \in Nat, NEW g \in Pings
  PROVE  /\ Descends(HandleBeacon(s, m, d, g))
         /\ \A P : Roomy(s, P) =>
              /\ Consistent(s) => Consistent(HandleBeacon(s, m, d, g))
              /\ s.ancestorId # s.id =>
                   HandleBeacon(s, m, d, g).ancestorId \in {s.id, s.ancestorId}
<1> DEFINE heard == UpdateLink(SyncClock(s, m, d), m, g)
           checked == CheckAncestor(heard, m)
           t == HandleBeacon(s, m, d, g)
<1>1. Sound(heard) /\ SameTree(s, heard)
  BY SyncClockSound, UpdateLinkSound, HeardSameTree DEF Honest
<1>2. Descends(heard)
  BY <1>1 DEF SameTree, Descends
<1>3. \A P : Roomy(s, P) => Roomy(heard, P)
  BY <1>1 DEF SameTree, Roomy
<1>4. heard \in SptState /\ heard.id = s.id
  BY <1>1 DEF Sound, SameTree
<1>5. \/ t = heard
      \/ /\ t = FollowParent(checked, m)
         /\ ShouldBeParent(heard, m) \/ checked.ancestorId = m.sender
      \/ t = RecordDescendant(checked, m)
      \/ t = ForgetDescendant(checked, m)
  BY DEF HandleBeacon
<1> HIDE DEF heard
<1>6. /\ m.sender \in Nat /\ heard.id \in Nat /\ heard.cost \in Nat /\ m.cost \in Nat
      /\ heard.id < Word /\ m.sender \in Ids
  <2>1. m.sender \in Ids /\ m.cost \in Cost
    BY DEF Honest, Beacon
  <2>2. heard.id \in Ids /\ heard.cost \in Cost
    BY <1>4 DEF SptState
  <2>3. Cost \subseteq Nat
    BY SizeAssumption DEF Cost
  <2> QED BY <2>1, <2>2, <2>3, IdsAssumption, IdsFitAssumption
<1>7. /\ checked \in SptState
      /\ checked = [heard EXCEPT !.ancestorId = checked.ancestorId]
      /\ checked.ancestorId \in {heard.id, heard.ancestorId}
      /\ \A P : Roomy(heard, P) => checked.ancestorId = heard.ancestorId
  BY <1>4 DEF CheckAncestor, SptState, Recorded, Roomy
<1>8. /\ checked.id = heard.id /\ checked.cost = heard.cost
      /\ checked.rootId = heard.rootId
      /\ checked.neighborhood = heard.neighborhood
      /\ Descends(checked)
  BY <1>2, <1>4, <1>6, <1>7 DEF Descends, SptState
<1> DEFINE Kept ==
      /\ Descends(t)
      /\ \A P : Roomy(heard, P) =>
           /\ Consistent(heard) => Consistent(t)
           /\ heard.ancestorId # heard.id => t.ancestorId \in {heard.id, heard.ancestorId}
<1> SUFFICES Kept
  <2>1. heard.ancestorId = s.ancestorId /\ (Consistent(s) => Consistent(heard))
    BY <1>1 DEF SameTree, Consistent
  <2> QED BY <1>3, <1>4, <2>1
<1>9. CASE t = heard
  BY <1>2, <1>9
<1>10. CASE /\ t = FollowParent(checked, m)
            /\ ShouldBeParent(heard, m) \/ checked.ancestorId = m.sender
  <2>1. /\ m.sender < heard.id
        /\ \A P : Roomy(heard, P) => heard.ancestorId \in {heard.id, m.sender}
    BY <1>2, <1>4, <1>10, ChosenParent
  <2>2. (m.cost + 1) % Word = m.cost + 1 /\ m.cost + 1 <= heard.id
    <3>1. m.cost + 1 <= heard.id
      BY <1>6, <2>1 DEF Honest
    <3>2. m.cost + 1 \in Cost
      BY <1>6, <3>1, SizeAssumption DEF Cost
    <3> QED BY <3>1, <3>2, SmallCost
  <2> DEFINE table == IF checked.ancestorId = m.sender THEN checked.neighborhood
                      ELSE ReplaceParent(checked.neighborhood, m)
  <2>3. ~(m.root > heard.id)
    BY <1>6, <2>1 DEF Honest
  <2>4. /\ t.id = heard.id /\ t.ancestorId = m.sender /\ t.rootId = m.sender
        /\ t.cost = m.cost + 1
        /\ t.neighborhood = Refresh(table, m.sender)
    BY <1>7, <1>8, <1>10, <2>2, <2>3 DEF FollowParent, SptState, Honest
  <2>5. \A e \in table : /\ e \in Neighbor
                         /\ e.rootId = e.neighborId /\ e.neighborId # heard.id
    <3>1. /\ ReplaceParent(checked.neighborhood, m)
               \subseteq checked.neighborhood \cup {NeighborFrom(m, TRUE)}
      BY DEF ReplaceParent, WithoutNeighbor, WithNeighbor
    <3>2. /\ NeighborFrom(m, TRUE) \in Neighbor
          /\ NeighborFrom(m, TRUE).rootId = m.sender
          /\ NeighborFrom(m, TRUE).neighborId = m.sender
      BY NeighborFromType DEF NeighborFrom, Honest
    <3>3. \A e \in checked.neighborhood : e \in Neighbor
      BY <1>7 DEF SptState
    <3> QED BY <1>4, <1>8, <3>1, <3>2, <3>3 DEF Descends
  <2> HIDE DEF table
  <2>6. \A e \in Refresh(table, m.sender) :
          e.rootId = e.neighborId /\ e.neighborId # heard.id
    <3>1. \A f \in table :
            LET e == IF f.neighborId = m.sender THEN [f EXCEPT !.age = 0] ELSE f
            IN  e.rootId = e.neighborId /\ e.neighborId # heard.id
      BY <2>5 DEF Neighbor
    <3> QED BY <3>1 DEF Refresh
  <2>7. Descends(t)
    BY <1>6, <2>1, <2>2, <2>4, <2>6 DEF Descends
  <2>8. Consistent(t)
    BY <1>6, <2>1, <2>4 DEF Consistent
  <2> QED BY <2>1, <2>4, <2>7, <2>8
<1>11. CASE t = RecordDescendant(checked, m)
  <2>1. /\ t.id = checked.id /\ t.ancestorId = checked.ancestorId
        /\ t.rootId = checked.rootId /\ t.cost = checked.cost
    BY <1>7, <1>11 DEF RecordDescendant, SptState
  <2>2. \A b : /\ NeighborFrom(m, b).rootId = m.sender
               /\ NeighborFrom(m, b).neighborId = m.sender
    BY DEF NeighborFrom, Honest
  <2>3. \A e \in t.neighborhood :
          e \in checked.neighborhood \/ \E b : e = NeighborFrom(m, b)
    <3>1. CASE Recorded(checked, m.sender) = {}
      <4>1. t.neighborhood \subseteq checked.neighborhood \cup {NeighborFrom(m, FALSE)}
        BY <1>7, <1>11, <3>1 DEF RecordDescendant, WithNeighbor, SptState
      <4> QED BY <4>1
    <3>2. CASE Recorded(checked, m.sender) # {}
      <4>1. t.neighborhood =
              {IF e.neighborId = m.sender THEN NeighborFrom(m, e.isAncestor) ELSE e
                 : e \in checked.neighborhood}
        BY <1>7, <1>11, <3>2 DEF RecordDescendant, SptState
      <4> QED BY <4>1
    <3> QED BY <3>1, <3>2
  <2>4. Descends(t)
    BY <1>4, <1>8, <2>1, <2>2, <2>3 DEF Descends
  <2> QED BY <1>7, <1>8, <2>1, <2>4 DEF Consistent
<1>12. CASE t = ForgetDescendant(checked, m)
  <2>1. /\ t.id = checked.id /\ t.ancestorId = checked.ancestorId
        /\ t.rootId = checked.rootId /\ t.cost = checked.cost
        /\ t.neighborhood \subseteq checked.neighborhood
    BY <1>7, <1>12 DEF ForgetDescendant, WithoutNeighbor, SptState
  <2>2. Descends(t)
    BY <1>8, <2>1 DEF Descends
  <2> QED BY <1>7, <1>8, <2>1, <2>2 DEF Consistent
<1> QED BY <1>5, <1>9, <1>10, <1>11, <1>12

-----------------------------------------------------------------------------
(* A neighborhood table with room for every other device. *)
Room == IsFiniteSet(Ids) /\ Cardinality(Ids) <= NeighborhoodMax + 1

(* The part of the inductive invariant that speaks of one device. *)
DeviceOK(s) ==
    /\ Sound(s)
    /\ Descends(s)
    /\ Room => Roomy(s, Ids \ {s.id}) /\ Consistent(s)

(* A device starts in good order. *)
LEMMA InitDevice ==
  ASSUME NEW n \in Ids PROVE DeviceOK(InitSpt(n)) /\ InitSpt(n).id = n
<1>1. InitSpt(n) \in SptState
  BY TimeAssumption, SizeAssumption DEF InitSpt, SptState, Age, Cost
<1>2. n \in Nat
  BY IdsAssumption
<1> QED BY <1>1, <1>2 DEF InitSpt, DeviceOK, Sound, LinksUnique, NeighborsUnique,
                         FlagsAgree, Descends, Roomy, Consistent

(* Time passing leaves the tree alone. *)
LEMMA TickDevice ==
  ASSUME NEW s, DeviceOK(s), NEW b \in BOOLEAN
  PROVE  LET t == [Elapse(s, 1) EXCEPT !.clockReal = b]
         IN  DeviceOK(t) /\ t.id = s.id /\ t.ancestorId = s.ancestorId
<1> DEFINE u == Elapse(s, 1)
           t == [u EXCEPT !.clockReal = b]
<1>1. Sound(u) /\ SameTree(s, u)
  BY ElapseSound, ElapseSameTree DEF DeviceOK, Sound
<1> HIDE DEF u
<1>2. Sound(t) /\ SameTree(s, t)
  BY <1>1 DEF Sound, SptState, LinksUnique, FlagsAgree, SameTree
<1> HIDE DEF t
<1>3. DeviceOK(t) /\ t.id = s.id /\ t.ancestorId = s.ancestorId
  BY <1>2 DEF DeviceOK, SameTree, Descends, Roomy, Consistent
<1> QED BY <1>3 DEF t, u

(* Timeouts either keep the tree or reset it whole. *)
LEMMA MaintainDevice ==
  ASSUME NEW s, DeviceOK(s)
  PROVE  /\ DeviceOK(Maintain(s))
         /\ Maintain(s).id = s.id
         /\ Maintain(s).ancestorId \in {s.id, s.ancestorId}
<1> DEFINE t == Maintain(s)
           lost == ParentTimedOut(s)
<1>1. Sound(t) /\ t.id = s.id
  BY MaintainSound DEF DeviceOK
<1>2. /\ t.ancestorId = IF lost THEN s.id ELSE s.ancestorId
      /\ t.rootId = IF lost THEN s.id ELSE s.rootId
      /\ t.cost = IF lost THEN 0 ELSE s.cost
      /\ t.neighborhood \subseteq s.neighborhood
  BY DEF DeviceOK, Sound, SptState, Maintain
<1>3. s.id \in Nat
  BY IdsAssumption DEF DeviceOK, Sound, SptState
<1>4. \A P : Roomy(s, P) => Roomy(t, P)
  BY MaintainRoomy DEF DeviceOK
<1> HIDE DEF lost, t
<1>5. Descends(t) /\ (Consistent(s) => Consistent(t))
  BY <1>1, <1>2, <1>3 DEF DeviceOK, Descends, Consistent
<1> QED BY <1>1, <1>2, <1>4, <1>5 DEF DeviceOK, t

(* The beacon handler, on a beacon of another device. *)
LEMMA ReceiveDevice ==
  ASSUME NEW s, DeviceOK(s), NEW m, Honest(m), m.sender # s.id,
         NEW d \in Nat, NEW g \in Pings
  PROVE  LET t == HandleBeacon(s, m, d, g)
         IN  /\ DeviceOK(t)
             /\ t.id = s.id
             /\ Room /\ s.ancestorId # s.id => t.ancestorId \in {s.id, s.ancestorId}
<1> DEFINE t == HandleBeacon(s, m, d, g)
           P == Ids \ {s.id}
<1>1. Sound(t) /\ t.id = s.id
  BY HandleBeaconSound DEF DeviceOK, Honest
<1>2. /\ Descends(t)
      /\ Roomy(s, P) =>
           /\ Consistent(s) => Consistent(t)
           /\ s.ancestorId # s.id => t.ancestorId \in {s.id, s.ancestorId}
  BY HandleHonestBeacon DEF DeviceOK
<1>3. Room => Roomy(t, P)
  <2>1. Room => IsFiniteSet(P) /\ Cardinality(P) <= NeighborhoodMax
    <3>1. s.id \in Ids
      BY DEF DeviceOK, Sound, SptState
    <3>2. Room => IsFiniteSet(P) /\ Cardinality(P) = Cardinality(Ids) - 1
      BY <3>1, FS_RemoveElement DEF Room
    <3>3. Room => Cardinality(Ids) \in Nat
      BY FS_CardinalityType DEF Room
    <3> QED BY <3>2, <3>3, SizeAssumption DEF Room
  <2>2. m \in Beacon /\ m.sender \in P
    BY DEF Honest, Beacon
  <2> HIDE DEF P
  <2> QED BY <2>1, <2>2, HandleBeaconRoomy DEF DeviceOK, P
<1> HIDE DEF t
<1>4. DeviceOK(t) /\ t.id = s.id
      /\ (Room /\ s.ancestorId # s.id => t.ancestorId \in {s.id, s.ancestorId})
  BY <1>1, <1>2, <1>3 DEF DeviceOK
<1> QED BY <1>4 DEF t

(* What a device broadcasts is honest. *)
LEMMA EncodeHonest ==
  ASSUME NEW s, DeviceOK(s) PROVE Honest(Encode(s)) /\ Encode(s).sender = s.id
<1>1. s \in SptState /\ s.cost <= s.id
  BY DEF DeviceOK, Sound, Descends
<1>2. \A l \in s.adjacency : l.id \in Ids /\ l.quality \in Nat
  BY <1>1, SizeAssumption DEF SptState, Link, Quality
<1>3. Encode(s).links \in SUBSET LinkReport
  BY <1>2 DEF Encode, LinkReport
<1> QED BY <1>1, <1>3 DEF Encode, Honest, Beacon, SptState

-----------------------------------------------------------------------------
(* The inductive invariant. *)
NInv ==
    /\ TypeOK
    /\ \A n \in Ids : DeviceOK(spt[n])
    /\ \A n \in Ids : \A m \in inbox[n] : Honest(m)

(* What a step may do to one device's tree. *)
StepKeeps ==
    \A n \in Ids : Room /\ spt[n].ancestorId # n =>
        spt'[n].ancestorId \in {n, spt[n].ancestorId}

(* So does the network. *)
LEMMA InitNInv == Init => NInv
<1> SUFFICES ASSUME Init PROVE NInv
  OBVIOUS
<1>1. \A n \in Ids : /\ spt[n] = InitSpt(n) /\ DeviceOK(InitSpt(n))
                     /\ InitSpt(n).id = n /\ InitSpt(n) \in SptState
  BY InitDevice DEF Init, DeviceOK, Sound
<1> QED BY <1>1, NetworkAssumption DEF Init, NInv, TypeOK

(* Every step keeps the invariant and, given room, changes parents only   *)
(* by way of none.                                                         *)
LEMMA NextNInv == NInv /\ [Next]_vars => NInv' /\ StepKeeps
<1> SUFFICES ASSUME NInv, [Next]_vars PROVE NInv' /\ StepKeeps
  OBVIOUS
<1>1. /\ spt \in [Ids -> SptState] /\ inbox \in [Ids -> SUBSET Beacon]
      /\ \A n \in Ids : spt[n].id = n /\ DeviceOK(spt[n]) /\ spt[n] \in SptState
      /\ \A n \in Ids : \A m \in inbox[n] : Honest(m) /\ m.sender # n
      /\ up \subseteq Ids /\ crashes \in 0 .. MaxCrashes
  BY DEF NInv, TypeOK
<1> DEFINE Devices ==
      /\ spt' \in [Ids -> SptState]
      /\ \A n \in Ids : spt'[n].id = n /\ DeviceOK(spt'[n])
           Mail ==
      /\ inbox' \in [Ids -> SUBSET Beacon]
      /\ \A n \in Ids : \A m \in inbox'[n] : Honest(m) /\ m.sender # n
           Rest == up' \subseteq Ids /\ crashes' \in 0 .. MaxCrashes
<1> SUFFICES Devices /\ Mail /\ Rest /\ StepKeeps
  BY DEF NInv, TypeOK
<1>2. ASSUME NEW n \in Ids, NEW t, spt' = [spt EXCEPT ![n] = t],
             DeviceOK(t), t.id = n,
             Room /\ spt[n].ancestorId # n => t.ancestorId \in {n, spt[n].ancestorId}
      PROVE  Devices /\ StepKeeps
  BY <1>1, <1>2 DEF DeviceOK, Sound, StepKeeps
<1>3. ASSUME UNCHANGED spt PROVE Devices /\ StepKeeps
  BY <1>1, <1>3 DEF StepKeeps
<1>4. ASSUME UNCHANGED inbox PROVE Mail
  BY <1>1, <1>4
<1>5. CASE Tick
  <2>1. PICK L \in IF Late THEN SUBSET up ELSE {{}} :
          spt' = [n \in Ids |->
                    IF n \in up
                    THEN [Elapse(spt[n], 1) EXCEPT
                            !.clockReal = spt[n].clockReal \/ n \in L]
                    ELSE spt[n]]
    BY <1>5 DEF Tick
  <2>2. \A n \in Ids : /\ DeviceOK(spt'[n]) /\ spt'[n].id = n
                       /\ spt'[n].ancestorId = spt[n].ancestorId
    <3> SUFFICES ASSUME NEW n \in Ids
                 PROVE  /\ DeviceOK(spt'[n]) /\ spt'[n].id = n
                        /\ spt'[n].ancestorId = spt[n].ancestorId
      OBVIOUS
    <3>1. CASE n \in up
      <4> DEFINE b == spt[n].clockReal \/ n \in L
      <4>1. spt'[n] = [Elapse(spt[n], 1) EXCEPT !.clockReal = b]
        BY <2>1, <3>1
      <4>2. b \in BOOLEAN
        OBVIOUS
      <4> HIDE DEF b
      <4> QED BY <1>1, <4>1, <4>2, TickDevice
    <3>2. CASE n \notin up
      BY <1>1, <2>1, <3>2
    <3> QED BY <3>1, <3>2
  <2>3. Devices /\ StepKeeps
    BY <2>1, <2>2 DEF DeviceOK, Sound, StepKeeps
  <2> QED BY <1>1, <1>4, <1>5, <2>3 DEF Tick
<1>6. ASSUME NEW n \in Ids, Maintenance(n)
      PROVE  Devices /\ Mail /\ Rest /\ StepKeeps
  <2> DEFINE t == Maintain(spt[n])
  <2>0. /\ spt' = [spt EXCEPT ![n] = t]
        /\ DeviceOK(t) /\ t.id = n /\ t.ancestorId \in {n, spt[n].ancestorId}
    BY <1>1, <1>6, MaintainDevice DEF Maintenance
  <2> HIDE DEF t
  <2>1. Devices /\ StepKeeps
    BY <1>2, <2>0
  <2>2. PICK R \in Reached : inbox' = Delivered(Encode(spt[n]), R)
    BY <1>6 DEF Maintenance
  <2>3. Honest(Encode(spt[n])) /\ Encode(spt[n]).sender = n
    BY <1>1, EncodeHonest
  <2> DEFINE b == Encode(spt[n])
  <2>4. inbox' = [k \in Ids |-> IF k \in R /\ k # b.sender /\ Cardinality(inbox[k]) < InboxMax
                               THEN inbox[k] \cup {b} ELSE inbox[k]]
    BY <2>2 DEF Delivered
  <2>5. b \in Beacon /\ Honest(b) /\ b.sender = n
    BY <2>3 DEF Honest
  <2> HIDE DEF b
  <2>6. Mail
    BY <1>1, <2>4, <2>5
  <2> QED BY <1>1, <1>6, <2>1, <2>6 DEF Maintenance
<1>7. ASSUME NEW n \in Ids, Receive(n)
      PROVE  Devices /\ Mail /\ Rest /\ StepKeeps
  <2>1. PICK m \in inbox[n], d \in Jumps, g \in Pings :
          /\ spt' = [spt EXCEPT ![n] = HandleBeacon(spt[n], m, d, g)]
          /\ inbox' = [inbox EXCEPT ![n] = inbox[n] \ {m}]
    BY <1>7 DEF Receive
  <2>2. d \in Nat /\ Honest(m) /\ m.sender # n
    BY <1>1, NetworkAssumption
  <2>3. Devices /\ StepKeeps
    <3> DEFINE t == HandleBeacon(spt[n], m, d, g)
    <3>1. /\ DeviceOK(t) /\ t.id = n
          /\ Room /\ spt[n].ancestorId # n => t.ancestorId \in {n, spt[n].ancestorId}
      BY <1>1, <2>2, ReceiveDevice
    <3>2. spt' = [spt EXCEPT ![n] = t]
      BY <2>1
    <3> HIDE DEF t
    <3> QED BY <1>2, <3>1, <3>2
  <2>4. Mail
    BY <1>1, <2>1
  <2> QED BY <1>1, <1>7, <2>3, <2>4 DEF Receive
<1>8. ASSUME NEW n \in Ids, Boot(n)
      PROVE  Devices /\ Mail /\ Rest /\ StepKeeps
  BY <1>1, <1>3, <1>4, <1>8 DEF Boot
<1>9. ASSUME NEW n \in Ids, Crash(n)
      PROVE  Devices /\ Mail /\ Rest /\ StepKeeps
  <2>1. spt' = [spt EXCEPT ![n] = InitSpt(n)]
    BY <1>9 DEF Crash
  <2>2. DeviceOK(InitSpt(n)) /\ InitSpt(n).id = n /\ InitSpt(n).ancestorId = n
    BY InitDevice DEF InitSpt
  <2>3. Devices /\ StepKeeps
    BY <1>2, <2>1, <2>2
  <2>4. Mail
    BY <1>1, <1>9 DEF Crash
  <2>5. Rest
    BY <1>1, <1>9, NetworkAssumption DEF Crash
  <2> QED BY <2>3, <2>4, <2>5
<1>10. CASE UNCHANGED vars
  BY <1>1, <1>3, <1>4, <1>10 DEF vars
<1> QED BY <1>5, <1>6, <1>7, <1>8, <1>9, <1>10 DEF Next

(* The invariant holds in every reachable state of the network. *)
THEOREM NetworkInvariance == Spec => []NInv
<1>1. Init => NInv
  BY InitNInv
<1>2. NInv /\ [Next]_vars => NInv'
  BY NextNInv
<1> QED BY <1>1, <1>2, PTL DEF Spec

(* Type correctness of the network. *)
THEOREM NetworkTypeCorrect == Spec => []TypeOK
<1>1. NInv => TypeOK
  BY DEF NInv
<1> QED BY <1>1, NetworkInvariance, PTL

(* A parent always has a smaller address than its child: whatever is lost, *)
(* delayed or restarted, parents never form a cycle.                       *)
THEOREM NoParentCycle == Spec => []ParentsDescend
<1>1. NInv => ParentsDescend
  BY DEF NInv, TypeOK, DeviceOK, Descends, ParentsDescend
<1> QED BY <1>1, NetworkInvariance, PTL

(* A cost never exceeds the address of the device: no counting to          *)
(* infinity.                                                               *)
THEOREM CostsAreBounded == Spec => []CostBounded
<1>1. NInv => CostBounded
  BY DEF NInv, TypeOK, DeviceOK, Descends, CostBounded
<1> QED BY <1>1, NetworkInvariance, PTL

(* With tables for every other device, tree info is a clean root's or a    *)
(* child's, never a mixture.                                               *)
THEOREM TreeInfoIsConsistent ==
  ASSUME IsFiniteSet(Ids), Cardinality(Ids) <= NeighborhoodMax + 1
  PROVE  Spec => []TreeInfoConsistent
<1>1. NInv => TreeInfoConsistent
  BY DEF NInv, TypeOK, DeviceOK, Room, Consistent, TreeInfoConsistent
<1> QED BY <1>1, NetworkInvariance, PTL

(* With such tables a device never exchanges one parent for another in a   *)
(* single step.                                                            *)
THEOREM ParentIsSticky ==
  ASSUME IsFiniteSet(Ids), Cardinality(Ids) <= NeighborhoodMax + 1
  PROVE  Spec => ParentSticky
<1>1. NInv /\ [Next]_vars =>
        [\A n \in Ids : spt[n].ancestorId # n =>
             spt'[n].ancestorId \in {n, spt[n].ancestorId}]_vars
  BY NextNInv DEF StepKeeps, Room
<1> QED BY <1>1, NetworkInvariance, PTL DEF Spec, ParentSticky

-----------------------------------------------------------------------------
(* Link quality: every link a device keeps and every quality it reports is *)
(* positive, however old the pings and whatever a new ring was filled with.*)
LinksGood(s) == \A l \in s.adjacency : l.quality > 0
ReportsGood(m) == \A r \in m.links : r.quality > 0

(* The ping just recorded counts. *)
LEMMA PingHeard ==
  ASSUME NEW link PROVE PingCount(RecordPing(link)) \in Nat \ {0}
<1> DEFINE all == 1 .. PingBuffSize
           pings == RecordPing(link)
           set == {i \in all : pings[i]}
<1>1. IsFiniteSet(all) /\ 1 \in all
  <2>1. PingBuffSize \in Nat /\ PingBuffSize >= 1
    BY SizeAssumption
  <2>2. 1 \in Int /\ PingBuffSize \in Int
    BY <2>1
  <2>3. IsFiniteSet(1 .. PingBuffSize)
    BY <2>2, FS_Interval
  <2> QED BY <2>1, <2>3
<1>2. pings[1]
  <2>1. pings[1] = IF Interval(link.age) < 1
                   THEN link.pings[1] \/ \A j \in 1 .. 1 - 1 : link.pings[j]
                   ELSE \/ 1 = 1
                        \/ 1 > Interval(link.age) /\ link.pings[1 - Interval(link.age)]
    BY <1>1 DEF RecordPing
  <2>2. \A j \in 1 .. 1 - 1 : link.pings[j]
    OBVIOUS
  <2> QED BY <2>1, <2>2, Zenon
<1> HIDE DEF pings
<1>3. set \subseteq all /\ 1 \in set
  BY <1>1, <1>2
<1>4. IsFiniteSet(set)
  BY <1>1, <1>3, FS_Subset
<1>5. Cardinality(set) \in Nat /\ Cardinality(set) # 0
  BY <1>3, <1>4, FS_CardinalityType, FS_EmptySet
<1> QED BY <1>5 DEF PingCount, pings

(* A heard beacon leaves the link good if what it reports is. *)
LEMMA UpdateLinkGood ==
  ASSUME NEW s, Sound(s), LinksGood(s), NEW m, ReportsGood(m), NEW g
  PROVE  LinksGood(UpdateLink(s, m, g))
<1> DEFINE pings == RecordPing(LinkTo(s, m.sender, g))
           mine == {r \in m.links : r.id = s.id}
           t == UpdateLink(s, m, g)
<1>1. PingCount(pings) > 0
  BY PingHeard
<1> HIDE DEF pings
<1>2. mine # {} => (CHOOSE r \in mine : TRUE) \in mine
  OBVIOUS
<1>3. LinkQuality(s, m, pings) > 0
  BY <1>1, <1>2 DEF LinkQuality, ReportsGood
<1>4. t.adjacency = {l \in s.adjacency : l.id # m.sender}
          \cup {[id |-> m.sender, quality |-> LinkQuality(s, m, pings),
                 age |-> 0, pings |-> pings]}
  BY DEF UpdateLink, Sound, SptState, pings
<1> QED BY <1>3, <1>4 DEF LinksGood

(* Neither do time and the clock change a quality. *)
LEMMA ElapseGood ==
  ASSUME NEW s, Sound(s), LinksGood(s), NEW d
  PROVE  LinksGood(Elapse(s, d))
<1>1. Elapse(s, d).adjacency = {[l EXCEPT !.age = Aged(l.age, d)] : l \in s.adjacency}
  BY DEF Elapse, Sound, SptState
<1>2. \A l \in s.adjacency : [l EXCEPT !.age = Aged(l.age, d)].quality = l.quality
  BY DEF Sound, SptState, Link
<1> QED BY <1>1, <1>2 DEF LinksGood

(* The beacon handler keeps links good. *)
LEMMA HandleBeaconGood ==
  ASSUME NEW s, Sound(s), LinksGood(s), NEW m \in Beacon, ReportsGood(m),
         NEW d \in Nat, NEW g \in Pings
  PROVE  LinksGood(HandleBeacon(s, m, d, g))
<1> DEFINE synced == SyncClock(s, m, d)
           heard == UpdateLink(synced, m, g)
           checked == CheckAncestor(heard, m)
           t == HandleBeacon(s, m, d, g)
<1>1. Sound(synced)
  BY SyncClockSound
<1>2. LinksGood(synced)
  <2>1. LinksGood(Elapse(s, d)) /\ Sound(Elapse(s, d))
    BY ElapseGood, ElapseSound
  <2>2. LinksGood([Elapse(s, d) EXCEPT !.clockReal = TRUE])
    BY <2>1 DEF LinksGood, Sound, SptState
  <2> QED BY <2>2 DEF SyncClock
<1> HIDE DEF synced
<1>3. Sound(heard) /\ LinksGood(heard)
  BY <1>1, <1>2, UpdateLinkSound, UpdateLinkGood
<1> HIDE DEF heard
<1>4. Sound(checked) /\ checked.adjacency = heard.adjacency
  BY <1>3, CheckAncestorSound DEF CheckAncestor, Sound, SptState
<1> HIDE DEF checked
<1>5. t \in {heard, FollowParent(checked, m), RecordDescendant(checked, m),
             ForgetDescendant(checked, m)}
  BY DEF HandleBeacon, synced, heard, checked
<1>6. /\ FollowParent(checked, m).adjacency = heard.adjacency
      /\ RecordDescendant(checked, m).adjacency = heard.adjacency
      /\ ForgetDescendant(checked, m).adjacency = heard.adjacency
  BY <1>4 DEF FollowParent, RecordDescendant, ForgetDescendant, Sound, SptState
<1>7. t.adjacency = heard.adjacency
  BY <1>5, <1>6
<1> QED BY <1>3, <1>7 DEF LinksGood

(* The invariant of link quality. *)
QInv ==
    /\ \A n \in Ids : LinksGood(spt[n])
    /\ \A n \in Ids : \A m \in inbox[n] : ReportsGood(m)

(* Every step keeps it. *)
LEMMA NextQInv == NInv /\ QInv /\ [Next]_vars => QInv'
<1> SUFFICES ASSUME NInv, QInv, [Next]_vars PROVE QInv'
  OBVIOUS
<1>1. /\ spt \in [Ids -> SptState] /\ inbox \in [Ids -> SUBSET Beacon]
      /\ \A n \in Ids : Sound(spt[n]) /\ spt[n].id = n
  BY DEF NInv, TypeOK, DeviceOK
<1>2. ASSUME NEW n \in Ids, NEW t, spt' = [spt EXCEPT ![n] = t], LinksGood(t)
      PROVE  \A k \in Ids : LinksGood(spt'[k])
  BY <1>1, <1>2 DEF QInv
<1>3. CASE Tick
  <2>1. PICK L \in IF Late THEN SUBSET up ELSE {{}} :
          spt' = [n \in Ids |->
                    IF n \in up
                    THEN [Elapse(spt[n], 1) EXCEPT
                            !.clockReal = spt[n].clockReal \/ n \in L]
                    ELSE spt[n]]
    BY <1>3 DEF Tick
  <2>2. \A n \in Ids : \A b \in BOOLEAN :
           LinksGood([Elapse(spt[n], 1) EXCEPT !.clockReal = b])
    <3> SUFFICES ASSUME NEW n \in Ids, NEW b \in BOOLEAN
                 PROVE  LinksGood([Elapse(spt[n], 1) EXCEPT !.clockReal = b])
      OBVIOUS
    <3>1. LinksGood(Elapse(spt[n], 1)) /\ Sound(Elapse(spt[n], 1))
      BY <1>1, ElapseGood, ElapseSound DEF QInv
    <3> QED BY <3>1 DEF LinksGood, Sound, SptState
  <2>3. ASSUME NEW n \in Ids PROVE LinksGood(spt'[n])
    <3>1. spt[n].clockReal \in BOOLEAN
      BY <1>1 DEF Sound, SptState
    <3>2. (spt[n].clockReal \/ n \in L) \in BOOLEAN
      BY <3>1
    <3>3. CASE n \in up
      BY <2>1, <2>2, <3>2, <3>3
    <3>4. CASE n \notin up
      BY <2>1, <3>4 DEF QInv
    <3> QED BY <3>3, <3>4
  <2> QED BY <1>3, <2>3 DEF Tick, QInv
<1>4. ASSUME NEW n \in Ids, Maintenance(n) PROVE QInv'
  <2> DEFINE t == Maintain(spt[n])
             b == Encode(spt[n])
  <2>1. t.adjacency \subseteq spt[n].adjacency
    BY <1>1 DEF Maintain, Sound, SptState
  <2>2. LinksGood(t) /\ spt' = [spt EXCEPT ![n] = t]
    BY <1>4, <2>1 DEF LinksGood, QInv, Maintenance
  <2>3. ReportsGood(b)
    BY DEF Encode, ReportsGood, QInv, LinksGood
  <2>4. PICK R \in Reached : inbox' = Delivered(b, R)
    BY <1>4 DEF Maintenance
  <2> HIDE DEF t, b
  <2>5. \A k \in Ids : \A m \in inbox'[k] : ReportsGood(m)
    BY <2>3, <2>4 DEF Delivered, QInv
  <2> QED BY <1>2, <2>2, <2>5 DEF QInv
<1>5. ASSUME NEW n \in Ids, Receive(n) PROVE QInv'
  <2>1. PICK m \in inbox[n], d \in Jumps, g \in Pings :
          /\ spt' = [spt EXCEPT ![n] = HandleBeacon(spt[n], m, d, g)]
          /\ inbox' = [inbox EXCEPT ![n] = inbox[n] \ {m}]
    BY <1>5 DEF Receive
  <2>2. LinksGood(HandleBeacon(spt[n], m, d, g))
    BY <1>1, HandleBeaconGood, NetworkAssumption DEF QInv
  <2>3. \A k \in Ids : LinksGood(spt'[k])
    BY <1>2, <2>1, <2>2
  <2>4. \A k \in Ids : \A r \in inbox'[k] : ReportsGood(r)
    BY <1>1, <2>1 DEF QInv
  <2> QED BY <2>3, <2>4 DEF QInv
<1>6. ASSUME NEW n \in Ids, Boot(n) PROVE QInv'
  BY <1>6 DEF Boot, QInv
<1>7. ASSUME NEW n \in Ids, Crash(n) PROVE QInv'
  <2>1. LinksGood(InitSpt(n))
    BY DEF LinksGood, InitSpt
  <2>2. \A k \in Ids : LinksGood(spt'[k])
    BY <1>2, <1>7, <2>1 DEF Crash
  <2> QED BY <1>1, <1>7, <2>2 DEF Crash, QInv
<1>8. CASE UNCHANGED vars
  BY <1>8 DEF vars, QInv
<1> QED BY <1>3, <1>4, <1>5, <1>6, <1>7, <1>8 DEF Next

(* No link between devices of this code ever becomes unusable, whatever is *)
(* lost or late and whatever a new ring of pings holds: the ping just      *)
(* recorded counts, so each side's minimum of its own count and the other  *)
(* side's report stays positive (spt.c:474-500).                           *)
THEOREM LinksStayUsable == Spec => []LinksUsable
<1>1. Init => QInv
  <2>1. \A n \in Ids : LinksGood(InitSpt(n))
    BY DEF LinksGood, InitSpt
  <2> QED BY <2>1 DEF Init, QInv
<1>2. QInv => LinksUsable
  BY DEF QInv, LinksGood, LinksUsable
<1> QED BY <1>1, <1>2, NextQInv, NetworkInvariance, PTL DEF Spec

-----------------------------------------------------------------------------
(* A network that loses nothing and keeps its time: engines do what is due *)
(* before the next second, no clock is set, the neighbor timeout is no     *)
(* shorter than the heartbeat, and there is room for everybody in tables   *)
(* and buffers.                                                            *)
Steady ==
    /\ Room
    /\ ~Lossy /\ ~Late /\ Prompt
    /\ HeartbeatTime >= 1
    /\ HeartbeatTime <= NeighborTimeout
    /\ Cardinality(Ids) <= InboxMax + 1

(* The parent's entry is no older than a heartbeat; nor, unless a beacon   *)
(* of the parent is waiting, than the parent's last beacon.                *)
ParentFresh(n) ==
    spt[n].ancestorId # n =>
       \A e \in Recorded(spt[n], spt[n].ancestorId) :
          /\ e.age <= HeartbeatTime
          /\ \/ \E m \in inbox[n] : m.sender = spt[n].ancestorId
             \/ e.age <= spt[spt[n].ancestorId].sinceBeacon

(* Before the first crash: every waiting beacon was sent this second, at   *)
(* most one by each device.                                                *)
Calm ==
    /\ up = Ids
    /\ \A n \in Ids : ~spt[n].clockReal /\ ParentFresh(n)
    /\ \A n \in Ids : \A m \in inbox[n] : ~m.real /\ spt[m.sender].sinceBeacon = 0
    /\ \A n \in Ids : \A m, k \in inbox[n] : m.sender = k.sender => m = k

CalmInv == crashes = 0 => Calm

(* A beacon that cannot set the clock leaves a device its parent, and      *)
(* renews the parent's entry exactly if it is the parent's.                *)
LEMMA HandleBeaconFresh ==
  ASSUME Room,
         NEW s, DeviceOK(s), LinksGood(s),
         NEW m, Honest(m), ReportsGood(m), m.sender # s.id, ~m.real,
         NEW d \in Nat, NEW g \in Pings
  PROVE  LET t == HandleBeacon(s, m, d, g)
         IN  /\ t.clockReal = s.clockReal /\ t.sinceBeacon = s.sinceBeacon
             /\ s.ancestorId # s.id => t.ancestorId = s.ancestorId
             /\ t.ancestorId = m.sender => \A e \in Recorded(t, m.sender) : e.age = 0
             /\ t.ancestorId # m.sender =>
                  /\ t.ancestorId = s.ancestorId
                  /\ \A e \in Recorded(t, t.ancestorId) : e \in s.neighborhood
<1> DEFINE heard == UpdateLink(s, m, g)
           t == HandleBeacon(s, m, d, g)
           P == Ids \ {s.id}
<1>1. /\ Sound(s) /\ s \in SptState /\ Descends(s) /\ Roomy(s, P) /\ m \in Beacon
  BY DEF DeviceOK, Sound, Honest
<1>2. SyncClock(s, m, d) = s
  BY DEF SyncClock
<1>3. /\ Sound(heard) /\ heard \in SptState /\ SameTree(s, heard)
  <2>1. SameTree(s, UpdateLink(SyncClock(s, m, d), m, g))
    BY <1>1, HeardSameTree
  <2> QED BY <1>1, <1>2, <2>1, UpdateLinkSound DEF Sound
<1>4. /\ heard.neighborhood = s.neighborhood
      /\ heard.clockReal = s.clockReal /\ heard.sinceBeacon = s.sinceBeacon
  BY <1>1 DEF UpdateLink, SptState
<1>5. Reliable(heard, m.sender)
  <2>1. LinksGood(heard)
    BY <1>1, UpdateLinkGood
  <2> DEFINE pings == RecordPing(LinkTo(s, m.sender, g))
             new == [id |-> m.sender, quality |-> LinkQuality(s, m, pings),
                     age |-> 0, pings |-> pings]
  <2>2. heard.adjacency = {l \in s.adjacency : l.id # m.sender} \cup {new}
    BY <1>1 DEF UpdateLink, SptState
  <2>3. new.id = m.sender
    OBVIOUS
  <2> QED BY <2>1, <2>2, <2>3 DEF Reliable, LinksGood
<1> HIDE DEF heard
<1>6. Roomy(heard, P) /\ Descends(heard) /\ heard.id = s.id /\ heard.ancestorId = s.ancestorId
  BY <1>1, <1>3 DEF SameTree, Roomy, Descends
<1>7. CheckAncestor(heard, m) = heard
  <2>1. heard.ancestorId # heard.id => Recorded(heard, heard.ancestorId) # {}
    BY <1>6 DEF Roomy, Recorded
  <2>2. heard.ancestorId = heard.id => [heard EXCEPT !.ancestorId = heard.id] = heard
    BY <1>3 DEF SptState
  <2> QED BY <2>1, <2>2 DEF CheckAncestor
<1>8. \/ /\ t = FollowParent(heard, m)
         /\ ShouldBeParent(heard, m) \/ heard.ancestorId = m.sender
      \/ t = RecordDescendant(heard, m) /\ heard.ancestorId # m.sender
      \/ t = ForgetDescendant(heard, m) /\ heard.ancestorId # m.sender
  BY <1>2, <1>5, <1>7 DEF HandleBeacon, heard
<1> HIDE DEF t
<1>9. CASE /\ t = FollowParent(heard, m)
           /\ ShouldBeParent(heard, m) \/ heard.ancestorId = m.sender
  <2>1. m.sender < heard.id /\ heard.ancestorId \in {heard.id, m.sender}
    BY <1>3, <1>6, <1>7, <1>9, ChosenParent
  <2>2. ~(m.root > heard.id)
    <3>1. m.sender \in Nat /\ heard.id \in Nat
      BY <1>3, IdsAssumption DEF Honest, Beacon, SptState
    <3> QED BY <2>1, <3>1 DEF Honest
  <2> DEFINE table == IF heard.ancestorId = m.sender THEN heard.neighborhood
                      ELSE ReplaceParent(heard.neighborhood, m)
  <2>3. /\ t.clockReal = heard.clockReal /\ t.sinceBeacon = heard.sinceBeacon
        /\ t.ancestorId = m.sender
        /\ t.neighborhood = Refresh(table, m.sender)
    BY <1>3, <1>9, <2>2 DEF FollowParent, SptState
  <2>4. table \subseteq Neighbor
    <3>1. heard.neighborhood \in SUBSET Neighbor
      BY <1>3 DEF SptState
    <3> QED BY <1>1, <1>3, <3>1, ReplaceParentSound DEF Sound, FlagsAgree
  <2> HIDE DEF table
  <2>5. \A e \in Recorded(t, m.sender) : e.age = 0
    <3>1. \A f \in table : LET e == IF f.neighborId = m.sender
                                    THEN [f EXCEPT !.age = 0] ELSE f
                           IN  e.neighborId = m.sender => e.age = 0
      BY <2>4 DEF Neighbor
    <3> QED BY <2>3, <3>1 DEF Refresh, Recorded
  <2> QED BY <1>4, <1>6, <2>1, <2>3, <2>5 DEF t
<1>10. CASE /\ t = RecordDescendant(heard, m) \/ t = ForgetDescendant(heard, m)
            /\ heard.ancestorId # m.sender
  <2>1. /\ t.clockReal = heard.clockReal /\ t.sinceBeacon = heard.sinceBeacon
        /\ t.ancestorId = heard.ancestorId
    BY <1>3, <1>10 DEF RecordDescendant, ForgetDescendant, SptState
  <2>2. \A e \in t.neighborhood : e \in heard.neighborhood \/ e.neighborId = m.sender
    <3>1. \A b : NeighborFrom(m, b).neighborId = m.sender
      BY DEF NeighborFrom
    <3>2. CASE t = ForgetDescendant(heard, m)
      BY <1>3, <3>2 DEF ForgetDescendant, WithoutNeighbor, SptState
    <3>3. CASE t = RecordDescendant(heard, m) /\ Recorded(heard, m.sender) = {}
      <4>1. t.neighborhood \subseteq heard.neighborhood \cup {NeighborFrom(m, FALSE)}
        BY <1>3, <3>3 DEF RecordDescendant, WithNeighbor, SptState
      <4> QED BY <3>1, <4>1
    <3>4. CASE t = RecordDescendant(heard, m) /\ Recorded(heard, m.sender) # {}
      <4>1. t.neighborhood =
              {IF e.neighborId = m.sender THEN NeighborFrom(m, e.isAncestor) ELSE e
                 : e \in heard.neighborhood}
        BY <1>3, <3>4 DEF RecordDescendant, SptState
      <4> QED BY <3>1, <4>1
    <3> QED BY <1>10, <3>2, <3>3, <3>4
  <2> QED BY <1>4, <1>6, <1>10, <2>1, <2>2 DEF Recorded, t
<1> QED BY <1>8, <1>9, <1>10

(* A parent whose entry has not timed out stays. *)
LEMMA MaintainFresh ==
  ASSUME NEW s, DeviceOK(s),
         s.ancestorId # s.id =>
            \A e \in Recorded(s, s.ancestorId) : e.age <= NeighborTimeout
  PROVE  /\ Maintain(s).ancestorId = s.ancestorId
         /\ Maintain(s).neighborhood \subseteq s.neighborhood
         /\ Maintain(s).clockReal = s.clockReal
         /\ Maintain(s).sinceBeacon = 0
<1> DEFINE t == Maintain(s)
           lost == ParentTimedOut(s)
<1>1. /\ t.ancestorId = IF lost THEN s.id ELSE s.ancestorId
      /\ t.neighborhood \subseteq s.neighborhood
      /\ t.clockReal = s.clockReal /\ t.sinceBeacon = 0
  BY DEF Maintain, DeviceOK, Sound, SptState
<1>2. s.ancestorId # s.id => ~lost
  <2> SUFFICES ASSUME s.ancestorId # s.id, lost PROVE FALSE
    OBVIOUS
  <2>1. PICK e \in s.neighborhood : e.age > NeighborTimeout /\ e.isAncestor
    BY DEF ParentTimedOut
  <2>2. e \in Recorded(s, s.ancestorId)
    BY <2>1 DEF DeviceOK, Sound, FlagsAgree, Recorded
  <2>3. e.age \in Nat /\ NeighborTimeout \in Nat
    BY <2>1, TimeAssumption DEF DeviceOK, Sound, SptState, Neighbor, Age
  <2> QED BY <2>1, <2>2, <2>3
<1> HIDE DEF lost, t
<1> QED BY <1>1, <1>2 DEF t

(* A second makes an entry and the last beacon older alike. *)
LEMMA ElapseFresh ==
  ASSUME NEW s, DeviceOK(s), NEW b
  PROVE  LET t == [Elapse(s, 1) EXCEPT !.clockReal = b]
         IN  /\ t.id = s.id /\ t.ancestorId = s.ancestorId /\ t.clockReal = b
             /\ t.sinceBeacon = Aged(s.sinceBeacon, 1)
             /\ \A e \in t.neighborhood : \E f \in s.neighborhood :
                   e.neighborId = f.neighborId /\ e.age = Aged(f.age, 1)
<1> DEFINE older(e) == [e EXCEPT !.age = Aged(e.age, 1)]
           t == [Elapse(s, 1) EXCEPT !.clockReal = b]
<1>1. s \in SptState
  BY DEF DeviceOK, Sound
<1>2. /\ t.neighborhood = {older(e) : e \in s.neighborhood}
      /\ t.id = s.id /\ t.ancestorId = s.ancestorId /\ t.clockReal = b
      /\ t.sinceBeacon = Aged(s.sinceBeacon, 1)
  BY <1>1 DEF Elapse, SptState
<1>3. \A e \in s.neighborhood : /\ older(e).neighborId = e.neighborId
                                /\ older(e).age = Aged(e.age, 1)
  BY <1>1 DEF SptState, Neighbor
<1> HIDE DEF older, t
<1>4. /\ t.id = s.id /\ t.ancestorId = s.ancestorId /\ t.clockReal = b
      /\ t.sinceBeacon = Aged(s.sinceBeacon, 1)
      /\ \A e \in t.neighborhood : \E f \in s.neighborhood :
                   e.neighborId = f.neighborId /\ e.age = Aged(f.age, 1)
  BY <1>2, <1>3
<1> QED BY <1>4 DEF t

(* Where no beacon of p waits there is room for it. *)
LEMMA InboxRoom ==
  ASSUME Steady, NEW n \in Ids, NEW p \in Ids \ {n}, NEW I,
         \A m \in I : m.sender \in Ids /\ m.sender # n /\ m.sender # p,
         \A m, k \in I : m.sender = k.sender => m = k
  PROVE  Cardinality(I) < InboxMax
<1> DEFINE f == [m \in I |-> m.sender]
           Q == Ids \ {n}
           S == Q \ {p}
<1>1. f \in Injection(I, S)
  BY DEF Injection, IsInjective
<1>2. IsFiniteSet(Ids) /\ Cardinality(Ids) <= InboxMax + 1
  BY DEF Steady, Room
<1>3. IsFiniteSet(Q) /\ Cardinality(Q) = Cardinality(Ids) - 1
  BY <1>2, FS_RemoveElement
<1>4. p \in Q
  OBVIOUS
<1> HIDE DEF Q
<1>5. IsFiniteSet(S) /\ Cardinality(S) = Cardinality(Q) - 1
  BY <1>3, <1>4, FS_RemoveElement
<1> HIDE DEF S, f
<1>6. IsFiniteSet(I) /\ Cardinality(I) <= Cardinality(S)
  BY <1>1, <1>5, FS_Injection
<1>7. Cardinality(I) \in Nat /\ Cardinality(Ids) \in Nat
  BY <1>2, <1>6, FS_CardinalityType
<1> QED BY <1>2, <1>3, <1>5, <1>6, <1>7, NetworkAssumption

(* Ages in step stay in step. *)
LEMMA AgedTogether ==
  ASSUME NEW a \in Age, NEW b \in Age, a <= b, b < HeartbeatTime
  PROVE  Aged(a, 1) <= Aged(b, 1) /\ Aged(a, 1) <= HeartbeatTime
<1>1. MaxAge \in Nat /\ HeartbeatTime \in Nat /\ HeartbeatTime <= MaxAge
  BY TimeAssumption
<1>2. a \in Nat /\ b \in Nat /\ a <= MaxAge /\ b <= MaxAge
  BY <1>1 DEF Age
<1>3. a + 1 <= b + 1 /\ a + 1 <= HeartbeatTime
  BY <1>1, <1>2
<1> QED BY <1>1, <1>2, <1>3 DEF Aged

(* Every device keeps its parent. *)
ParentsSame ==
    \A n \in Ids : spt[n].ancestorId # n => spt'[n].ancestorId = spt[n].ancestorId

(* The second that passes finds every buffer empty and no beacon overdue,  *)
(* a device that sends has no beacon under way, and one that reads hears   *)
(* its parent.                                                             *)
LEMMA NextCalm ==
  ASSUME Steady, NInv, QInv, CalmInv, [Next]_vars, crashes' = 0
  PROVE  Calm' /\ ParentsSame
<1>1. /\ spt \in [Ids -> SptState] /\ inbox \in [Ids -> SUBSET Beacon]
      /\ \A n \in Ids : DeviceOK(spt[n]) /\ spt[n].id = n /\ LinksGood(spt[n])
      /\ \A n \in Ids : \A m \in inbox[n] :
            Honest(m) /\ ReportsGood(m) /\ m.sender \in Ids \ {n}
      /\ crashes \in Nat
  BY NetworkAssumption DEF NInv, QInv, TypeOK, Beacon
<1>2. /\ \A n \in Ids : spt[n].sinceBeacon \in Age /\ spt[n].ancestorId \in Ids
      /\ \A n \in Ids : \A e \in spt[n].neighborhood : e.age \in Age
      /\ Age \subseteq Nat
  BY <1>1, TimeAssumption DEF SptState, Neighbor, Age
<1>3. HeartbeatTime \in Nat /\ HeartbeatTime >= 1 /\ HeartbeatTime <= NeighborTimeout
      /\ NeighborTimeout \in Nat
  BY TimeAssumption DEF Steady
<1>4. \A n \in Ids : ~Crash(n)
  BY <1>1 DEF Crash
<1>5. crashes = 0
  BY <1>4 DEF Next, Tick, Maintenance, Receive, Boot, vars
<1>6. Calm
  BY <1>5 DEF CalmInv
<1>7. CASE Tick
  <2>1. PICK L \in IF Late THEN SUBSET up ELSE {{}} :
          spt' = [n \in Ids |->
                    IF n \in up
                    THEN [Elapse(spt[n], 1) EXCEPT
                            !.clockReal = spt[n].clockReal \/ n \in L]
                    ELSE spt[n]]
    BY <1>7 DEF Tick
  <2>2. L = {} /\ up' = Ids /\ inbox' = inbox /\ Quiet
    BY <1>6, <1>7, <2>1 DEF Tick, Steady, Calm
  <2>3. \A n \in Ids : inbox[n] = {} /\ spt[n].sinceBeacon < HeartbeatTime
    <3> SUFFICES ASSUME NEW n \in Ids
                 PROVE  inbox[n] = {} /\ spt[n].sinceBeacon < HeartbeatTime
      OBVIOUS
    <3>1. inbox[n] = {} /\ ~(spt[n].sinceBeacon >= HeartbeatTime)
      BY <1>6, <2>2 DEF Quiet, Calm, BeaconDue
    <3>2. spt[n].sinceBeacon \in Nat /\ HeartbeatTime \in Nat
      BY <1>2, <1>3
    <3> QED BY <3>1, <3>2
  <2>4. ASSUME NEW n \in Ids
        PROVE  /\ spt'[n].ancestorId = spt[n].ancestorId /\ ~spt'[n].clockReal
               /\ spt'[n].sinceBeacon = Aged(spt[n].sinceBeacon, 1)
               /\ \A e \in spt'[n].neighborhood : \E f \in spt[n].neighborhood :
                     e.neighborId = f.neighborId /\ e.age = Aged(f.age, 1)
    <3> DEFINE b == spt[n].clockReal \/ n \in L
    <3>1. spt'[n] = [Elapse(spt[n], 1) EXCEPT !.clockReal = b]
      BY <1>6, <2>1 DEF Calm
    <3>2. ~b
      BY <1>6, <2>2 DEF Calm
    <3> HIDE DEF b
    <3> QED BY <1>1, <3>1, <3>2, ElapseFresh
  <2>5. ASSUME NEW n \in Ids PROVE ParentFresh(n)'
    <3> SUFFICES ASSUME spt'[n].ancestorId # n,
                        NEW e \in Recorded(spt'[n], spt'[n].ancestorId)
                 PROVE  /\ e.age <= HeartbeatTime
                        /\ e.age <= spt'[spt'[n].ancestorId].sinceBeacon
      BY DEF ParentFresh
    <3> DEFINE p == spt[n].ancestorId
    <3>1. spt'[n].ancestorId = p /\ p # n /\ p \in Ids
      BY <1>2, <2>4
    <3>2. PICK f \in spt[n].neighborhood :
             e.neighborId = f.neighborId /\ e.age = Aged(f.age, 1)
      BY <2>4 DEF Recorded
    <3>3. f \in Recorded(spt[n], p)
      BY <3>1, <3>2 DEF Recorded
    <3>4. f.age <= spt[p].sinceBeacon
      BY <1>6, <2>3, <3>1, <3>3 DEF Calm, ParentFresh
    <3>5. spt'[p].sinceBeacon = Aged(spt[p].sinceBeacon, 1)
      BY <2>4, <3>1
    <3> HIDE DEF p
    <3> QED BY <1>2, <2>3, <3>1, <3>2, <3>4, <3>5, AgedTogether
  <2>6. Calm'
    BY <2>2, <2>3, <2>4, <2>5 DEF Calm
  <2> QED BY <2>4, <2>6 DEF ParentsSame
<1>8. ASSUME NEW n \in Ids, Maintenance(n) PROVE Calm' /\ ParentsSame
  <2> DEFINE t == Maintain(spt[n])
             b == Encode(spt[n])
  <2>1. /\ spt' = [spt EXCEPT ![n] = t] /\ up' = up
        /\ spt[n].sinceBeacon >= HeartbeatTime
    BY <1>8 DEF Maintenance, BeaconDue
  <2>2. inbox' = Delivered(b, Ids)
    <3>1. Reached = {Ids}
      BY <1>6 DEF Reached, Steady, Calm
    <3> QED BY <1>8, <3>1 DEF Maintenance
  <2>3. b.sender = n /\ ~b.real
    BY <1>1, <1>6 DEF Encode, Calm
  <2>4. /\ t.ancestorId = spt[n].ancestorId
        /\ t.neighborhood \subseteq spt[n].neighborhood
        /\ t.clockReal = spt[n].clockReal
        /\ t.sinceBeacon = 0
    <3>1. spt[n].ancestorId # spt[n].id =>
             \A e \in Recorded(spt[n], spt[n].ancestorId) : e.age <= NeighborTimeout
      <4> SUFFICES ASSUME spt[n].ancestorId # n,
                          NEW e \in Recorded(spt[n], spt[n].ancestorId)
                   PROVE  e.age <= NeighborTimeout
        BY <1>1
      <4>1. e.age <= HeartbeatTime
        BY <1>6 DEF Calm, ParentFresh
      <4>2. e.age \in Nat
        BY <1>2 DEF Recorded
      <4> QED BY <1>3, <4>1, <4>2
    <3> QED BY <1>1, <3>1, MaintainFresh
  <2>5. \A k \in Ids : \A m \in inbox[k] : m.sender # n
    <3> SUFFICES ASSUME NEW k \in Ids, NEW m \in inbox[k], m.sender = n PROVE FALSE
      OBVIOUS
    <3>1. spt[n].sinceBeacon = 0
      BY <1>6 DEF Calm
    <3> QED BY <1>3, <2>1, <3>1
  <2> HIDE DEF t, b
  <2>6. \A k \in Ids : inbox'[k] = IF k = n THEN inbox[k] ELSE inbox[k] \cup {b}
    <3> SUFFICES ASSUME NEW k \in Ids
                 PROVE  inbox'[k] = IF k = n THEN inbox[k] ELSE inbox[k] \cup {b}
      OBVIOUS
    <3>1. inbox'[k] = IF k # n /\ Cardinality(inbox[k]) < InboxMax
                      THEN inbox[k] \cup {b} ELSE inbox[k]
      BY <2>2, <2>3 DEF Delivered
    <3>2. k # n => Cardinality(inbox[k]) < InboxMax
      <4>1. \A m \in inbox[k] : m.sender \in Ids /\ m.sender # k /\ m.sender # n
        BY <1>1, <2>5
      <4>2. \A m, j \in inbox[k] : m.sender = j.sender => m = j
        BY <1>6 DEF Calm
      <4> QED BY <4>1, <4>2, InboxRoom
    <3> QED BY <3>1, <3>2
  <2>7. \A k \in Ids : spt'[k] = IF k = n THEN t ELSE spt[k]
    BY <1>1, <2>1
  <2>8. ASSUME NEW k \in Ids PROVE ParentFresh(k)'
    <3> SUFFICES ASSUME spt'[k].ancestorId # k,
                        NEW e \in Recorded(spt'[k], spt'[k].ancestorId)
                 PROVE  /\ e.age <= HeartbeatTime
                        /\ \/ \E m \in inbox'[k] : m.sender = spt'[k].ancestorId
                           \/ e.age <= spt'[spt'[k].ancestorId].sinceBeacon
      BY DEF ParentFresh
    <3> DEFINE p == spt[k].ancestorId
    <3>1. spt'[k].ancestorId = p /\ p \in Ids /\ p # k
      BY <1>2, <2>4, <2>7
    <3>2. e \in Recorded(spt[k], p)
      BY <2>4, <2>7, <3>1 DEF Recorded
    <3>3. /\ e.age <= HeartbeatTime
          /\ \/ \E m \in inbox[k] : m.sender = p
             \/ e.age <= spt[p].sinceBeacon
      BY <1>6, <3>1, <3>2 DEF Calm, ParentFresh
    <3> HIDE DEF p
    <3>4. CASE p = n
      BY <2>3, <2>6, <3>1, <3>3, <3>4
    <3>5. CASE p # n
      BY <2>6, <2>7, <3>1, <3>3, <3>5
    <3> QED BY <3>4, <3>5
  <2>9. \A k \in Ids : ~spt'[k].clockReal
    BY <1>6, <2>4, <2>7 DEF Calm
  <2>10. \A k \in Ids : \A m \in inbox'[k] : ~m.real /\ spt'[m.sender].sinceBeacon = 0
    <3> SUFFICES ASSUME NEW k \in Ids, NEW m \in inbox'[k]
                 PROVE  ~m.real /\ spt'[m.sender].sinceBeacon = 0
      OBVIOUS
    <3>1. CASE m = b
      BY <2>3, <2>4, <2>7, <3>1
    <3>2. CASE m # b
      <4>1. m \in inbox[k]
        BY <2>6, <3>2
      <4> QED BY <1>1, <1>6, <2>5, <2>7, <4>1 DEF Calm
    <3> QED BY <3>1, <3>2
  <2>11. \A k \in Ids : \A m, j \in inbox'[k] : m.sender = j.sender => m = j
    <3> SUFFICES ASSUME NEW k \in Ids, NEW m \in inbox'[k], NEW j \in inbox'[k],
                        m.sender = j.sender
                 PROVE  m = j
      OBVIOUS
    <3>1. /\ m \in inbox[k] \/ m = b
          /\ j \in inbox[k] \/ j = b
      BY <2>6
    <3>2. CASE m \in inbox[k] /\ j \in inbox[k]
      BY <1>6, <3>2 DEF Calm
    <3> QED BY <2>3, <2>5, <3>1, <3>2
  <2>12. Calm'
    BY <1>6, <2>1, <2>8, <2>9, <2>10, <2>11 DEF Calm
  <2> QED BY <2>4, <2>7, <2>12 DEF ParentsSame
<1>9. ASSUME NEW n \in Ids, Receive(n) PROVE Calm' /\ ParentsSame
  <2>1. PICK m \in inbox[n], d \in Jumps, g \in Pings :
          /\ spt' = [spt EXCEPT ![n] = HandleBeacon(spt[n], m, d, g)]
          /\ inbox' = [inbox EXCEPT ![n] = inbox[n] \ {m}]
    BY <1>9 DEF Receive
  <2> DEFINE t == HandleBeacon(spt[n], m, d, g)
  <2>2. /\ t.clockReal = spt[n].clockReal /\ t.sinceBeacon = spt[n].sinceBeacon
        /\ spt[n].ancestorId # n => t.ancestorId = spt[n].ancestorId
        /\ t.ancestorId = m.sender => \A e \in Recorded(t, m.sender) : e.age = 0
        /\ t.ancestorId # m.sender =>
             /\ t.ancestorId = spt[n].ancestorId
             /\ \A e \in Recorded(t, t.ancestorId) : e \in spt[n].neighborhood
    <3>1. /\ Room /\ ~m.real /\ d \in Nat
          /\ Honest(m) /\ ReportsGood(m) /\ m.sender # spt[n].id
      BY <1>1, <1>6, NetworkAssumption DEF Steady, Calm
    <3> QED BY <1>1, <3>1, HandleBeaconFresh
  <2> HIDE DEF t
  <2>3. \A k \in Ids : /\ spt'[k] = IF k = n THEN t ELSE spt[k]
                       /\ spt'[k].sinceBeacon = spt[k].sinceBeacon
                       /\ inbox'[k] = IF k = n THEN inbox[k] \ {m} ELSE inbox[k]
    BY <1>1, <2>1, <2>2 DEF t
  <2>4. up' = up /\ m.sender \in Ids
    BY <1>1, <1>9 DEF Receive
  <2>5. ASSUME NEW k \in Ids PROVE ParentFresh(k)'
    <3> SUFFICES ASSUME spt'[k].ancestorId # k,
                        NEW e \in Recorded(spt'[k], spt'[k].ancestorId)
                 PROVE  /\ e.age <= HeartbeatTime
                        /\ \/ \E j \in inbox'[k] : j.sender = spt'[k].ancestorId
                           \/ e.age <= spt'[spt'[k].ancestorId].sinceBeacon
      BY DEF ParentFresh
    <3> DEFINE p == spt'[k].ancestorId
    <3>1. CASE k = n /\ p = m.sender
      <4>1. e.age = 0
        BY <2>2, <2>3, <3>1
      <4>2. spt'[p].sinceBeacon \in Nat
        BY <1>2, <2>3, <2>4, <3>1
      <4> QED BY <1>3, <4>1, <4>2
    <3>2. CASE ~(k = n /\ p = m.sender)
      <4>1. p = spt[k].ancestorId /\ e \in spt[k].neighborhood /\ e.neighborId = p
        BY <2>2, <2>3, <3>2 DEF Recorded
      <4>2. /\ e.age <= HeartbeatTime
            /\ \/ \E j \in inbox[k] : j.sender = p
               \/ e.age <= spt[p].sinceBeacon
        BY <1>6, <4>1 DEF Calm, ParentFresh, Recorded
      <4>3. p \in Ids
        BY <1>2, <4>1
      <4>4. \A j \in inbox[k] : j.sender = p => j \in inbox'[k]
        BY <2>3, <3>2
      <4> QED BY <2>3, <4>2, <4>3, <4>4
    <3> QED BY <3>1, <3>2
  <2>6. \A k \in Ids : ~spt'[k].clockReal
    BY <1>6, <2>2, <2>3 DEF Calm
  <2>7. \A k \in Ids : \A j \in inbox'[k] : ~j.real /\ spt'[j.sender].sinceBeacon = 0
    <3> SUFFICES ASSUME NEW k \in Ids, NEW j \in inbox'[k]
                 PROVE  ~j.real /\ spt'[j.sender].sinceBeacon = 0
      OBVIOUS
    <3>1. j \in inbox[k]
      BY <2>3
    <3>2. j.sender \in Ids
      BY <1>1, <3>1
    <3>3. ~j.real /\ spt[j.sender].sinceBeacon = 0
      BY <1>6, <3>1 DEF Calm
    <3> QED BY <2>3, <3>2, <3>3
  <2>8. \A k \in Ids : \A j, i \in inbox'[k] : j.sender = i.sender => j = i
    <3> SUFFICES ASSUME NEW k \in Ids, NEW j \in inbox'[k], NEW i \in inbox'[k],
                        j.sender = i.sender
                 PROVE  j = i
      OBVIOUS
    <3>1. j \in inbox[k] /\ i \in inbox[k]
      BY <2>3
    <3> QED BY <1>6, <3>1 DEF Calm
  <2>9. Calm'
    BY <1>6, <2>4, <2>5, <2>6, <2>7, <2>8 DEF Calm
  <2> QED BY <2>2, <2>3, <2>9 DEF ParentsSame
<1>10. ASSUME NEW n \in Ids, Boot(n) PROVE FALSE
  BY <1>6, <1>10 DEF Boot, Calm
<1>11. CASE UNCHANGED vars
  BY <1>6, <1>11 DEF vars, Calm, ParentFresh, ParentsSame
<1> QED BY <1>4, <1>7, <1>8, <1>9, <1>10, <1>11 DEF Next

(* In a steady network no device loses its parent before the first crash:  *)
(* a beacon is sent before any entry times out, it finds room, and it is   *)
(* read before the next second.                                            *)
THEOREM ParentIsStable == ASSUME Steady PROVE Spec => ParentStable
<1> DEFINE Stable == \A n \in Ids :
              crashes' = 0 /\ spt[n].ancestorId # n =>
                  spt'[n].ancestorId = spt[n].ancestorId
<1>1. Init => QInv /\ CalmInv
  <2> SUFFICES ASSUME Init PROVE QInv /\ Calm
    BY DEF CalmInv
  <2>1. \A n \in Ids : LinksGood(InitSpt(n))
    BY DEF LinksGood, InitSpt
  <2>2. QInv
    BY <2>1 DEF Init, QInv
  <2>3. Calm
    BY DEF Init, Calm, ParentFresh, InitSpt
  <2> QED BY <2>2, <2>3
<1>2. NInv /\ QInv /\ CalmInv /\ [Next]_vars => CalmInv' /\ [Stable]_vars
  <2> SUFFICES ASSUME NInv, QInv, CalmInv, [Next]_vars, crashes' = 0
               PROVE  Calm' /\ Stable
    BY DEF CalmInv
  <2> QED BY NextCalm DEF ParentsSame
<1> QED BY <1>1, <1>2, NextQInv, NetworkInvariance, PTL DEF Spec, ParentStable
=============================================================================
