----------------------------- MODULE SptProofs -----------------------------
(***************************************************************************)
(* Lemmas about the handlers of Spt, for every set of addresses, every     *)
(* timeout and every table size: what each keeps of the state's soundness. *)
(* SptNodeProofs and SptNetworkProofs build their theorems on them.        *)
(***************************************************************************)
EXTENDS Spt, FiniteSetTheorems, TLAPS

(* The parts of the inductive invariant, over one state of the protocol.   *)
LinksUnique(s) == \A l, k \in s.adjacency : l.id = k.id => l = k

NeighborsUnique(table) ==
    \A e, f \in table : e.neighborId = f.neighborId => e = f

FlagsAgree(s) ==
    /\ \A e, f \in s.neighborhood : e.isAncestor /\ f.isAncestor => e = f
    /\ s.ancestorId # s.id =>
          \A e \in s.neighborhood :
             e.isAncestor <=> e.neighborId = s.ancestorId

Sound(s) ==
    /\ s \in SptState
    /\ LinksUnique(s)
    /\ NeighborsUnique(s.neighborhood)
    /\ FlagsAgree(s)

-----------------------------------------------------------------------------
(* Saturating addition stays within the ages. *)
LEMMA AgedType == ASSUME NEW t \in Age, NEW d \in Nat PROVE Aged(t, d) \in Age
  BY TimeAssumption DEF Aged, Age

(* A path metric or cost reduced to a word is a word. *)
LEMMA WordType == ASSUME NEW c \in Int PROVE c % Word \in Cost
  BY SizeAssumption DEF Cost

(* spt_ping_buffer_get_count never exceeds the buffer. *)
LEMMA PingCountType == ASSUME NEW pings PROVE PingCount(pings) \in Quality
<1> DEFINE all == 1 .. PingBuffSize
           set == {i \in all : pings[i]}
<1>1. IsFiniteSet(all) /\ Cardinality(all) = PingBuffSize
  <2>1. PingBuffSize \in Nat /\ PingBuffSize >= 1
    BY SizeAssumption
  <2>2. 1 \in Int /\ PingBuffSize \in Int
    BY <2>1
  <2>3. /\ IsFiniteSet(1 .. PingBuffSize)
        /\ Cardinality(1 .. PingBuffSize) =
              IF 1 > PingBuffSize THEN 0 ELSE PingBuffSize - 1 + 1
    BY <2>2, FS_Interval
  <2> QED BY <2>1, <2>3
<1>2. IsFiniteSet(set) /\ Cardinality(set) <= Cardinality(all)
  BY <1>1, FS_Subset
<1>3. Cardinality(set) \in Nat
  BY <1>2, FS_CardinalityType
<1> QED BY <1>1, <1>2, <1>3, SizeAssumption DEF PingCount, Quality

(* The clock moving forward ages entries and changes nothing else. *)
LEMMA ElapseSound ==
  ASSUME NEW s, Sound(s), NEW d \in Nat
  PROVE  Sound(Elapse(s, d)) /\ Elapse(s, d).id = s.id
<1> DEFINE t == Elapse(s, d)
<1>1. \A e \in s.neighborhood : [e EXCEPT !.age = Aged(e.age, d)] \in Neighbor
  BY AgedType DEF Sound, SptState, Neighbor
<1>2. \A l \in s.adjacency : [l EXCEPT !.age = Aged(l.age, d)] \in Link
  BY AgedType DEF Sound, SptState, Link
<1>3. t \in SptState /\ t.id = s.id /\ t.ancestorId = s.ancestorId
  BY <1>1, <1>2, AgedType DEF Sound, SptState, Elapse
<1>4. /\ t.neighborhood = {[e EXCEPT !.age = Aged(e.age, d)] : e \in s.neighborhood}
      /\ t.adjacency = {[l EXCEPT !.age = Aged(l.age, d)] : l \in s.adjacency}
  BY DEF Sound, SptState, Elapse
<1>5. LinksUnique(t)
  BY <1>4 DEF Sound, SptState, Link, LinksUnique
<1>6. NeighborsUnique(t.neighborhood)
  BY <1>4 DEF Sound, SptState, Neighbor, NeighborsUnique
<1>7. FlagsAgree(t)
  BY <1>3, <1>4 DEF Sound, SptState, Neighbor, FlagsAgree
<1> QED BY <1>3, <1>5, <1>6, <1>7 DEF Sound

(* Setting the clock from a beacon. *)
LEMMA SyncClockSound ==
  ASSUME NEW s, Sound(s), NEW m, NEW d \in Nat
  PROVE  Sound(SyncClock(s, m, d)) /\ SyncClock(s, m, d).id = s.id
<1> DEFINE t == Elapse(s, d)
           u == [t EXCEPT !.clockReal = TRUE]
<1>1. Sound(t) /\ t.id = s.id
  BY ElapseSound
<1>2. Sound(u) /\ u.id = s.id
  BY <1>1 DEF Sound, SptState, LinksUnique, FlagsAgree
<1> QED BY <1>2 DEF SyncClock

(* The adjacency table keeps one entry per sender, its quality counted.    *)
LEMMA UpdateLinkSound ==
  ASSUME NEW s, Sound(s), NEW m \in Beacon, NEW g \in Pings
  PROVE  /\ Sound(UpdateLink(s, m, g))
         /\ UpdateLink(s, m, g).id = s.id
<1> DEFINE old == LinkTo(s, m.sender, g)
           pings == RecordPing(old)
           new == [id |-> m.sender, quality |-> LinkQuality(s, m, pings),
                   age |-> 0, pings |-> pings]
           t == UpdateLink(s, m, g)
<1>1. pings \in Pings
  BY DEF RecordPing, Pings
<1>2. LinkQuality(s, m, pings) \in Quality
  <2>1. PingCount(pings) \in Quality
    BY PingCountType
  <2>2. \A r \in m.links : r.quality \in Nat
    BY DEF Beacon, LinkReport
  <2> HIDE DEF pings
  <2> QED BY <2>1, <2>2, SizeAssumption DEF LinkQuality, Quality
<1>3. new \in Link
  BY <1>1, <1>2, TimeAssumption DEF Link, Beacon, Age
<1>4. t = [s EXCEPT !.adjacency = {l \in s.adjacency : l.id # m.sender} \cup {new}]
  BY DEF UpdateLink
<1>5. t \in SptState
  BY <1>3, <1>4 DEF Sound, SptState
<1>6. LinksUnique(t)
  BY <1>4 DEF Sound, SptState, LinksUnique
<1>7. NeighborsUnique(t.neighborhood) /\ FlagsAgree(t) /\ t.id = s.id
  BY <1>4 DEF Sound, SptState, FlagsAgree
<1> QED BY <1>5, <1>6, <1>7 DEF Sound

-----------------------------------------------------------------------------
(* A parent choice that finds no ancestor entry falls back to itself.      *)
LEMMA CheckAncestorSound ==
  ASSUME NEW s, Sound(s), NEW m
  PROVE  Sound(CheckAncestor(s, m)) /\ CheckAncestor(s, m).id = s.id
  BY DEF Sound, SptState, LinksUnique, FlagsAgree, CheckAncestor

(* An entry built from a beacon is well typed. *)
LEMMA NeighborFromType ==
  ASSUME NEW m \in Beacon, NEW b \in BOOLEAN
  PROVE  NeighborFrom(m, b) \in Neighbor
  BY TimeAssumption DEF NeighborFrom, Neighbor, Beacon, Age

(* After the new parent's old entry and the flagged entry are removed, the *)
(* only flagged entry is the one added, if it was.                         *)
LEMMA ReplaceParentSound ==
  ASSUME NEW T \in SUBSET Neighbor, NEW m \in Beacon,
         NeighborsUnique(T),
         \A e, f \in T : e.isAncestor /\ f.isAncestor => e = f
  PROVE  /\ ReplaceParent(T, m) \subseteq Neighbor
         /\ NeighborsUnique(ReplaceParent(T, m))
         /\ \A e \in ReplaceParent(T, m) :
               e.isAncestor <=> e.neighborId = m.sender
<1> DEFINE others == WithoutNeighbor(T, m.sender)
           flagged == {e \in others : e.isAncestor}
           kept == IF flagged = {} THEN others
                   ELSE WithoutNeighbor(others, (CHOOSE e \in flagged : TRUE).neighborId)
           new == NeighborFrom(m, TRUE)
<1>1. /\ others \subseteq T
      /\ \A e \in others : e.neighborId # m.sender
  BY DEF WithoutNeighbor
<1>2. kept \subseteq others /\ \A e \in kept : ~e.isAncestor
  <2>1. CASE flagged = {}
    BY <2>1
  <2>2. CASE flagged # {}
    <3>1. PICK a \in flagged : a = CHOOSE e \in flagged : TRUE
      BY <2>2
    <3>2. \A e \in flagged : e = a
      BY <1>1, <3>1
    <3>3. kept = WithoutNeighbor(others, a.neighborId)
      BY <2>2, <3>1
    <3> QED BY <3>2, <3>3 DEF WithoutNeighbor
  <2> QED BY <2>1, <2>2
<1>3. new \in Neighbor /\ new.neighborId = m.sender /\ new.isAncestor
  BY NeighborFromType DEF NeighborFrom
<1>4. ReplaceParent(T, m) = kept \/ ReplaceParent(T, m) = kept \cup {new}
  BY DEF ReplaceParent, WithNeighbor
<1> HIDE DEF others, kept, new
<1>5. NeighborsUnique(kept) /\ NeighborsUnique(kept \cup {new})
  BY <1>1, <1>2, <1>3 DEF NeighborsUnique
<1> QED BY <1>1, <1>2, <1>3, <1>4, <1>5

(* Renewing a timestamp keeps ids and flags. *)
LEMMA RefreshSound ==
  ASSUME NEW T \in SUBSET Neighbor, NEW n, NeighborsUnique(T)
  PROVE  /\ Refresh(T, n) \subseteq Neighbor
         /\ NeighborsUnique(Refresh(T, n))
         /\ \A e \in Refresh(T, n) : \E f \in T :
               /\ e.neighborId = f.neighborId
               /\ e.isAncestor = f.isAncestor
<1>1. \A f \in T : LET e == IF f.neighborId = n THEN [f EXCEPT !.age = 0] ELSE f
                   IN  /\ e \in Neighbor
                       /\ e.neighborId = f.neighborId
                       /\ e.isAncestor = f.isAncestor
  BY TimeAssumption DEF Neighbor, Age
<1>2. \A e \in Refresh(T, n) : \E f \in T :
          e = IF f.neighborId = n THEN [f EXCEPT !.age = 0] ELSE f
  BY DEF Refresh
<1>3. NeighborsUnique(Refresh(T, n))
  <2> SUFFICES ASSUME NEW e1 \in Refresh(T, n), NEW e2 \in Refresh(T, n),
                      e1.neighborId = e2.neighborId
               PROVE  e1 = e2
    BY DEF NeighborsUnique
  <2>1. PICK f1 \in T : e1 = IF f1.neighborId = n THEN [f1 EXCEPT !.age = 0] ELSE f1
    BY <1>2
  <2>2. PICK f2 \in T : e2 = IF f2.neighborId = n THEN [f2 EXCEPT !.age = 0] ELSE f2
    BY <1>2
  <2>3. f1 = f2
    BY <1>1, <2>1, <2>2 DEF NeighborsUnique
  <2> QED BY <2>1, <2>2, <2>3
<1> QED BY <1>1, <1>2, <1>3

(* Following a parent, whether new or not, and becoming the root. *)
LEMMA FollowParentSound ==
  ASSUME NEW s, Sound(s), NEW m \in Beacon
  PROVE  Sound(FollowParent(s, m)) /\ FollowParent(s, m).id = s.id
<1> DEFINE table == IF s.ancestorId = m.sender THEN s.neighborhood
                    ELSE ReplaceParent(s.neighborhood, m)
           t == FollowParent(s, m)
<1>1. s.neighborhood \in SUBSET Neighbor /\ s.id \in Ids
  BY DEF Sound, SptState
<1>2. /\ table \in SUBSET Neighbor
      /\ NeighborsUnique(table)
      /\ \A e, f \in table : e.isAncestor /\ f.isAncestor => e = f
      /\ m.sender # s.id => \A e \in table : e.isAncestor <=> e.neighborId = m.sender
  <2>1. CASE s.ancestorId = m.sender
    BY <1>1, <2>1 DEF Sound, FlagsAgree
  <2>2. CASE s.ancestorId # m.sender
    <3>1. table = ReplaceParent(s.neighborhood, m)
      BY <2>2
    <3>2. /\ table \subseteq Neighbor
          /\ NeighborsUnique(table)
          /\ \A e \in table : e.isAncestor <=> e.neighborId = m.sender
      BY <1>1, <3>1, ReplaceParentSound DEF Sound, FlagsAgree
    <3> QED BY <3>2 DEF NeighborsUnique
  <2> QED BY <2>1, <2>2
<1> HIDE DEF table
<1>3. /\ Refresh(table, m.sender) \subseteq Neighbor
      /\ NeighborsUnique(Refresh(table, m.sender))
      /\ \A e \in Refresh(table, m.sender) : \E f \in table :
            e.neighborId = f.neighborId /\ e.isAncestor = f.isAncestor
  BY <1>2, RefreshSound
<1>4. /\ t.neighborhood = Refresh(table, m.sender)
      /\ t.ancestorId \in {s.id, m.sender}
      /\ t.id = s.id
      /\ t.adjacency = s.adjacency
      /\ t \in SptState
  <2>1. (m.cost + 1) % Word \in Cost
    BY WordType DEF Beacon, Cost
  <2> QED BY <1>1, <1>3, <2>1 DEF table, FollowParent, Sound, SptState, Beacon
<1>5. FlagsAgree(t)
  <2>1. \A e, f \in t.neighborhood : e.isAncestor /\ f.isAncestor => e = f
    BY <1>2, <1>3, <1>4 DEF NeighborsUnique
  <2>2. t.ancestorId # t.id =>
          \A e \in t.neighborhood : e.isAncestor <=> e.neighborId = t.ancestorId
    BY <1>2, <1>3, <1>4
  <2> QED BY <2>1, <2>2 DEF FlagsAgree
<1>6. LinksUnique(t)
  BY <1>4 DEF Sound, LinksUnique
<1> QED BY <1>3, <1>4, <1>5, <1>6 DEF Sound

(* A descendant's entry is added or updated; it is not the parent's. *)
LEMMA RecordDescendantSound ==
  ASSUME NEW s, Sound(s), NEW m \in Beacon, s.ancestorId # m.sender
  PROVE  Sound(RecordDescendant(s, m)) /\ RecordDescendant(s, m).id = s.id
<1> DEFINE t == RecordDescendant(s, m)
           T == s.neighborhood
<1>1. /\ T \in SUBSET Neighbor /\ NeighborsUnique(T)
      /\ t.id = s.id /\ t.ancestorId = s.ancestorId /\ t.adjacency = s.adjacency
      /\ t.neighborhood \subseteq Neighbor => t \in SptState
  BY DEF Sound, SptState, RecordDescendant
<1>2. CASE Recorded(s, m.sender) = {}
  <2> DEFINE new == NeighborFrom(m, FALSE)
  <2>1. new \in Neighbor /\ new.neighborId = m.sender /\ ~new.isAncestor
    BY NeighborFromType DEF NeighborFrom
  <2>2. \A e \in T : e.neighborId # m.sender
    BY <1>2 DEF Recorded
  <2>3. t.neighborhood = T \/ t.neighborhood = T \cup {new}
    BY <1>2 DEF Sound, SptState, RecordDescendant, WithNeighbor
  <2> HIDE DEF new
  <2>4. t.neighborhood \subseteq Neighbor /\ NeighborsUnique(t.neighborhood)
    BY <1>1, <2>1, <2>2, <2>3 DEF NeighborsUnique
  <2>5. FlagsAgree(t)
    BY <1>1, <2>1, <2>2, <2>3 DEF Sound, FlagsAgree
  <2> QED BY <1>1, <2>4, <2>5 DEF Sound, LinksUnique
<1>3. CASE Recorded(s, m.sender) # {}
  <2>1. t.neighborhood =
          {IF e.neighborId = m.sender THEN NeighborFrom(m, e.isAncestor) ELSE e : e \in T}
    BY <1>3 DEF Sound, SptState, RecordDescendant
  <2>2. \A f \in T : LET e == IF f.neighborId = m.sender
                              THEN NeighborFrom(m, f.isAncestor) ELSE f
                     IN  /\ e \in Neighbor
                         /\ e.neighborId = f.neighborId
                         /\ e.isAncestor = f.isAncestor
    <3> SUFFICES ASSUME NEW f \in T, f.neighborId = m.sender
                 PROVE  /\ NeighborFrom(m, f.isAncestor) \in Neighbor
                        /\ NeighborFrom(m, f.isAncestor).neighborId = f.neighborId
                        /\ NeighborFrom(m, f.isAncestor).isAncestor = f.isAncestor
      BY <1>1
    <3>1. f.isAncestor \in BOOLEAN
      BY <1>1 DEF Neighbor
    <3>2. NeighborFrom(m, f.isAncestor) \in Neighbor
      BY <3>1, NeighborFromType
    <3> QED BY <3>2 DEF NeighborFrom
  <2>3. /\ t.neighborhood \subseteq Neighbor
        /\ \A e \in t.neighborhood : \E f \in T :
              /\ e = IF f.neighborId = m.sender
                     THEN NeighborFrom(m, f.isAncestor) ELSE f
              /\ e.neighborId = f.neighborId /\ e.isAncestor = f.isAncestor
    BY <2>1, <2>2
  <2>4. NeighborsUnique(t.neighborhood)
    BY <1>1, <2>3 DEF NeighborsUnique
  <2>5. FlagsAgree(t)
    <3>1. \A e, f \in t.neighborhood : e.isAncestor /\ f.isAncestor => e = f
      BY <2>3 DEF Sound, FlagsAgree
    <3>2. t.ancestorId # t.id =>
            \A e \in t.neighborhood : e.isAncestor <=> e.neighborId = t.ancestorId
      BY <1>1, <2>3 DEF Sound, FlagsAgree
    <3> QED BY <3>1, <3>2 DEF FlagsAgree
  <2> QED BY <1>1, <2>3, <2>4, <2>5 DEF Sound, LinksUnique
<1> QED BY <1>2, <1>3

(* An entry removed disturbs nothing else. *)
LEMMA ForgetDescendantSound ==
  ASSUME NEW s, Sound(s), NEW m
  PROVE  Sound(ForgetDescendant(s, m)) /\ ForgetDescendant(s, m).id = s.id
<1> DEFINE t == ForgetDescendant(s, m)
<1>1. /\ t.neighborhood \subseteq s.neighborhood
      /\ t.id = s.id /\ t.ancestorId = s.ancestorId /\ t.adjacency = s.adjacency
      /\ t \in SptState
  BY DEF Sound, SptState, ForgetDescendant, WithoutNeighbor
<1> QED BY <1>1 DEF Sound, LinksUnique, NeighborsUnique, FlagsAgree

-----------------------------------------------------------------------------
(* The whole beacon handler keeps the tables sound. *)
LEMMA HandleBeaconSound ==
  ASSUME NEW s, Sound(s), NEW m \in Beacon, NEW d \in Nat, NEW g \in Pings
  PROVE  Sound(HandleBeacon(s, m, d, g)) /\ HandleBeacon(s, m, d, g).id = s.id
<1> DEFINE synced == SyncClock(s, m, d)
           heard == UpdateLink(synced, m, g)
           checked == CheckAncestor(heard, m)
           t == HandleBeacon(s, m, d, g)
<1>1. Sound(synced) /\ synced.id = s.id
  BY SyncClockSound
<1> HIDE DEF synced
<1>2. Sound(heard) /\ heard.id = s.id
  BY <1>1, UpdateLinkSound
<1> HIDE DEF heard
<1>3. Sound(checked) /\ checked.id = s.id
  BY <1>2, CheckAncestorSound
<1> HIDE DEF checked
<1>4. CASE ~Reliable(heard, m.sender)
  BY <1>2, <1>4 DEF synced, heard, HandleBeacon
<1>5. CASE /\ Reliable(heard, m.sender)
           /\ ShouldBeParent(heard, m) \/ checked.ancestorId = m.sender
  <2>1. t = FollowParent(checked, m)
    BY <1>5 DEF synced, heard, checked, HandleBeacon
  <2> QED BY <1>3, <2>1, FollowParentSound
<1>6. CASE /\ Reliable(heard, m.sender)
           /\ ~(ShouldBeParent(heard, m) \/ checked.ancestorId = m.sender)
           /\ m.parent = s.id
  <2>1. t = RecordDescendant(checked, m)
    BY <1>6 DEF synced, heard, checked, HandleBeacon
  <2> QED BY <1>3, <1>6, <2>1, RecordDescendantSound
<1>7. CASE /\ Reliable(heard, m.sender)
           /\ ~(ShouldBeParent(heard, m) \/ checked.ancestorId = m.sender)
           /\ m.parent # s.id
  <2>1. t = ForgetDescendant(checked, m)
    BY <1>7 DEF synced, heard, checked, HandleBeacon
  <2> QED BY <1>3, <2>1, ForgetDescendantSound
<1> QED BY <1>4, <1>5, <1>6, <1>7

(* Timeouts remove entries; when the flagged one goes, no flag is left and *)
(* the device is its own ancestor.                                         *)
LEMMA MaintainSound ==
  ASSUME NEW s, Sound(s)
  PROVE  Sound(Maintain(s)) /\ Maintain(s).id = s.id
<1> DEFINE t == Maintain(s)
           lost == ParentTimedOut(s)
<1>0. 0 \in Age /\ 0 \in Cost
  BY TimeAssumption, SizeAssumption DEF Age, Cost
<1>1. /\ t.neighborhood \subseteq s.neighborhood
      /\ t.adjacency \subseteq s.adjacency
      /\ t.id = s.id
      /\ t.ancestorId = IF lost THEN s.id ELSE s.ancestorId
      /\ t \in SptState
  <2> HIDE DEF lost
  <2> QED BY <1>0 DEF lost, Sound, SptState, Maintain
<1> QED BY <1>1 DEF Sound, LinksUnique, NeighborsUnique, FlagsAgree

-----------------------------------------------------------------------------
(* A device that hears only the senders in P, for which the table has      *)
(* room, has its parent in the table.                                      *)
Roomy(s, P) ==
    /\ \A e \in s.neighborhood : e.neighborId \in P
    /\ s.ancestorId # s.id => \E e \in s.neighborhood : e.neighborId = s.ancestorId

(* A table without an entry for one of the senders has room for it. *)
LEMMA RoomForOne ==
  ASSUME NEW P, IsFiniteSet(P), Cardinality(P) <= NeighborhoodMax, NEW x \in P,
         NEW T, NeighborsUnique(T), \A e \in T : e.neighborId \in P \ {x}
  PROVE  ~(Cardinality(T) >= NeighborhoodMax)
<1> DEFINE f == [e \in T |-> e.neighborId]
<1>1. f \in Injection(T, P \ {x})
  BY DEF Injection, IsInjective, NeighborsUnique
<1>2. /\ IsFiniteSet(P \ {x})
      /\ Cardinality(P \ {x}) = Cardinality(P) - 1
  BY FS_RemoveElement
<1>3. IsFiniteSet(T) /\ Cardinality(T) <= Cardinality(P \ {x})
  BY <1>1, <1>2, FS_Injection
<1>4. Cardinality(P) \in Nat /\ Cardinality(T) \in Nat
  BY <1>3, FS_CardinalityType
<1> QED BY <1>2, <1>3, <1>4, SizeAssumption

(* With that room the new parent always gets its entry. *)
LEMMA ReplaceParentRoomy ==
  ASSUME NEW P, IsFiniteSet(P), Cardinality(P) <= NeighborhoodMax,
         NEW T \in SUBSET Neighbor, NeighborsUnique(T),
         \A e \in T : e.neighborId \in P,
         NEW m \in Beacon, m.sender \in P
  PROVE  /\ \A e \in ReplaceParent(T, m) : e.neighborId \in P
         /\ \E e \in ReplaceParent(T, m) : e.neighborId = m.sender
<1> DEFINE others == WithoutNeighbor(T, m.sender)
           flagged == {e \in others : e.isAncestor}
           kept == IF flagged = {} THEN others
                   ELSE WithoutNeighbor(others, (CHOOSE e \in flagged : TRUE).neighborId)
           new == NeighborFrom(m, TRUE)
<1>1. /\ kept \subseteq T
      /\ \A e \in kept : e.neighborId \in P \ {m.sender}
  BY DEF WithoutNeighbor
<1>2. NeighborsUnique(kept)
  BY <1>1 DEF NeighborsUnique
<1>3. new.neighborId = m.sender
  BY DEF NeighborFrom
<1>4. ReplaceParent(T, m) = IF Cardinality(kept) >= NeighborhoodMax
                            THEN kept ELSE kept \cup {new}
  BY DEF ReplaceParent, WithNeighbor
<1> HIDE DEF kept, new
<1>5. ~(Cardinality(kept) >= NeighborhoodMax)
  BY <1>1, <1>2, RoomForOne
<1> QED BY <1>1, <1>3, <1>4, <1>5

(* Ageing, clock and link updates leave the parent and who is in the       *)
(* neighborhood table alone.                                               *)
SameTree(s, t) ==
    /\ t.id = s.id /\ t.ancestorId = s.ancestorId
    /\ t.rootId = s.rootId /\ t.cost = s.cost
    /\ \A e \in t.neighborhood : \E f \in s.neighborhood :
          e.neighborId = f.neighborId /\ e.rootId = f.rootId
    /\ \A f \in s.neighborhood : \E e \in t.neighborhood :
          e.neighborId = f.neighborId /\ e.rootId = f.rootId

(* Time passing changes ages only. *)
LEMMA ElapseSameTree ==
  ASSUME NEW s \in SptState, NEW d PROVE SameTree(s, Elapse(s, d))
<1> DEFINE older(e) == [e EXCEPT !.age = Aged(e.age, d)]
           t == Elapse(s, d)
<1>1. /\ t.neighborhood = {older(e) : e \in s.neighborhood}
      /\ t.id = s.id /\ t.ancestorId = s.ancestorId
      /\ t.rootId = s.rootId /\ t.cost = s.cost
  BY DEF Elapse, SptState
<1>2. \A e \in s.neighborhood : /\ older(e).neighborId = e.neighborId
                                /\ older(e).rootId = e.rootId
  BY DEF SptState, Neighbor
<1> HIDE DEF older
<1> QED BY <1>1, <1>2 DEF SameTree

(* What the handler has done before it chooses a parent. *)
LEMMA HeardSameTree ==
  ASSUME NEW s, Sound(s), NEW m \in Beacon, NEW d \in Nat, NEW g \in Pings
  PROVE  SameTree(s, UpdateLink(SyncClock(s, m, d), m, g))
<1> DEFINE synced == SyncClock(s, m, d)
<1>1. Sound(synced)
  BY SyncClockSound
<1>2. SameTree(s, synced)
  <2>1. SameTree(s, Elapse(s, d)) /\ SameTree(s, s)
    BY ElapseSameTree DEF Sound, SameTree
  <2>2. Elapse(s, d) \in SptState
    BY ElapseSound DEF Sound
  <2>3. SameTree(s, [Elapse(s, d) EXCEPT !.clockReal = TRUE])
    BY <2>1, <2>2 DEF SameTree, SptState
  <2> QED BY <2>1, <2>3 DEF SyncClock
<1>3. /\ UpdateLink(synced, m, g).neighborhood = synced.neighborhood
      /\ UpdateLink(synced, m, g).id = synced.id
      /\ UpdateLink(synced, m, g).ancestorId = synced.ancestorId
      /\ UpdateLink(synced, m, g).rootId = synced.rootId
      /\ UpdateLink(synced, m, g).cost = synced.cost
  <2> HIDE DEF synced
  <2> QED BY <1>1 DEF UpdateLink, Sound, SptState
<1> QED BY <1>2, <1>3 DEF SameTree

(* The whole handler keeps the parent in the table. *)
LEMMA HandleBeaconRoomy ==
  ASSUME NEW P, IsFiniteSet(P), Cardinality(P) <= NeighborhoodMax,
         NEW s, Sound(s), Roomy(s, P),
         NEW m \in Beacon, m.sender \in P, NEW d \in Nat, NEW g \in Pings
  PROVE  Roomy(HandleBeacon(s, m, d, g), P)
<1> DEFINE heard == UpdateLink(SyncClock(s, m, d), m, g)
           checked == CheckAncestor(heard, m)
           t == HandleBeacon(s, m, d, g)
<1>1. Sound(heard) /\ heard.id = s.id
  BY SyncClockSound, UpdateLinkSound
<1>2. Roomy(heard, P)
  BY HeardSameTree DEF SameTree, Roomy
<1> HIDE DEF heard
<1>3. Sound(checked) /\ checked.id = s.id
  BY <1>1, CheckAncestorSound
<1>4. Roomy(checked, P)
  BY <1>1, <1>2 DEF CheckAncestor, Roomy, Sound, SptState
<1> HIDE DEF checked
<1>5. CASE t = heard
  BY <1>2, <1>5
<1>6. CASE t = FollowParent(checked, m)
  <2> DEFINE table == IF checked.ancestorId = m.sender THEN checked.neighborhood
                      ELSE ReplaceParent(checked.neighborhood, m)
  <2>1. /\ t.neighborhood = Refresh(table, m.sender)
        /\ t.id = checked.id
        /\ t.ancestorId \in {checked.id, m.sender}
    BY <1>3, <1>6 DEF FollowParent, Sound, SptState
  <2>2. /\ checked.neighborhood \in SUBSET Neighbor
        /\ NeighborsUnique(checked.neighborhood)
        /\ \A e \in checked.neighborhood : e.neighborId \in P
    BY <1>3, <1>4 DEF Sound, SptState, Roomy
  <2>3. /\ table \in SUBSET Neighbor
        /\ \A e \in table : e.neighborId \in P
        /\ m.sender # checked.id => \E e \in table : e.neighborId = m.sender
    <3>1. CASE checked.ancestorId = m.sender
      BY <1>4, <2>2, <3>1 DEF Roomy
    <3>2. CASE checked.ancestorId # m.sender
      <4>1. table = ReplaceParent(checked.neighborhood, m)
        BY <3>2
      <4>2. table \subseteq Neighbor
        BY <1>3, <2>2, <4>1, ReplaceParentSound DEF Sound, FlagsAgree
      <4> QED BY <2>2, <4>1, <4>2, ReplaceParentRoomy
    <3> QED BY <3>1, <3>2
  <2> HIDE DEF table
  <2>4. \A f \in table : LET e == IF f.neighborId = m.sender
                                  THEN [f EXCEPT !.age = 0] ELSE f
                         IN  e.neighborId = f.neighborId
    BY <2>3 DEF Neighbor
  <2>5. /\ \A e \in Refresh(table, m.sender) : \E f \in table :
             e.neighborId = f.neighborId
        /\ \A f \in table : \E e \in Refresh(table, m.sender) :
             e.neighborId = f.neighborId
    BY <2>4 DEF Refresh
  <2> QED BY <2>1, <2>3, <2>5 DEF Roomy
<1>7. CASE t = RecordDescendant(checked, m) /\ checked.ancestorId # m.sender
  <2>1. t.id = checked.id /\ t.ancestorId = checked.ancestorId
    BY <1>3, <1>7 DEF RecordDescendant, Sound, SptState
  <2>2. CASE Recorded(checked, m.sender) = {}
    <3>1. /\ checked.neighborhood \subseteq t.neighborhood
          /\ t.neighborhood \subseteq checked.neighborhood \cup {NeighborFrom(m, FALSE)}
      BY <1>3, <1>7, <2>2 DEF RecordDescendant, WithNeighbor, Sound, SptState
    <3>2. NeighborFrom(m, FALSE).neighborId = m.sender
      BY DEF NeighborFrom
    <3> QED BY <1>4, <2>1, <3>1, <3>2 DEF Roomy
  <2>3. CASE Recorded(checked, m.sender) # {}
    <3>1. t.neighborhood =
            {IF e.neighborId = m.sender THEN NeighborFrom(m, e.isAncestor) ELSE e
               : e \in checked.neighborhood}
      BY <1>3, <1>7, <2>3 DEF RecordDescendant, Sound, SptState
    <3>2. \A b : NeighborFrom(m, b).neighborId = m.sender
      BY DEF NeighborFrom
    <3>3. /\ \A e \in t.neighborhood : \E f \in checked.neighborhood :
               e.neighborId = f.neighborId
          /\ \A f \in checked.neighborhood : \E e \in t.neighborhood :
               e.neighborId = f.neighborId
      BY <3>1, <3>2
    <3> QED BY <1>4, <2>1, <3>3 DEF Roomy
  <2> QED BY <2>2, <2>3
<1>8. CASE t = ForgetDescendant(checked, m) /\ checked.ancestorId # m.sender
  <2>1. /\ t.id = checked.id /\ t.ancestorId = checked.ancestorId
        /\ t.neighborhood = {e \in checked.neighborhood : e.neighborId # m.sender}
    BY <1>3, <1>8 DEF ForgetDescendant, WithoutNeighbor, Sound, SptState
  <2> QED BY <1>4, <1>8, <2>1 DEF Roomy
<1>9. \/ t = heard
      \/ t = FollowParent(checked, m)
      \/ t = RecordDescendant(checked, m) /\ checked.ancestorId # m.sender
      \/ t = ForgetDescendant(checked, m) /\ checked.ancestorId # m.sender
  BY DEF heard, checked, HandleBeacon
<1> QED BY <1>5, <1>6, <1>7, <1>8, <1>9

(* The parent's entry leaves by timeout only together with ancestorId. *)
LEMMA MaintainRoomy ==
  ASSUME NEW P, NEW s, Sound(s), Roomy(s, P)
  PROVE  Roomy(Maintain(s), P)
<1> DEFINE t == Maintain(s)
<1>1. /\ t.id = s.id
      /\ t.ancestorId = IF ParentTimedOut(s) THEN s.id ELSE s.ancestorId
      /\ t.neighborhood = {e \in s.neighborhood : e.age <= NeighborTimeout}
  BY DEF Maintain, Sound, SptState
<1>2. \A e \in s.neighborhood : ~(e.age <= NeighborTimeout) <=> e.age > NeighborTimeout
  BY TimeAssumption DEF Sound, SptState, Neighbor, Age
<1>3. s.ancestorId # s.id =>
        \A e \in s.neighborhood : e.neighborId = s.ancestorId => e.isAncestor
  BY DEF Sound, FlagsAgree
<1> QED BY <1>1, <1>2, <1>3 DEF Roomy, ParentTimedOut
=============================================================================
