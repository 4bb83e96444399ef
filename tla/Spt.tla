-------------------------------- MODULE Spt --------------------------------
(***************************************************************************)
(* The spanning-tree protocol of one device (hypercast_protocols/spt.c):   *)
(* its state as a record and each handler of spt.c as an operator from     *)
(* states to states. SptNode and SptNetwork turn them into actions.        *)
(*                                                                         *)
(* A timestamp of the code is kept as its age, get_epoch() - timestamp, so *)
(* "timestamp + T < now" reads "age > T" and setting the clock forward     *)
(* ages every table at once. Ages saturate at MaxAge, beyond every limit   *)
(* they are compared with. The path metric of an entry is a function of    *)
(* its cost (spt_pathmetric_minimumcost) and is recomputed where it is     *)
(* read. The sequence number, the physical address, the backup-ancestor    *)
(* and the core table are written once and never read: left out.           *)
(***************************************************************************)
EXTENDS Integers, FiniteSets

CONSTANTS
    Ids,              \* logical addresses in use
    HeartbeatTime,    \* seconds between beacons (spt.c:254)
    NeighborTimeout,  \* SPT_NEIGHBOR_TIMEOUT
    AdjacencyTimeout, \* SPT_ADJACENCY_TIMEOUT
    BeaconInterval,   \* SPT_MESSAGE_BEACON_TIME_INTERVAL
    PingBuffSize,     \* SPT_MESSAGE_LQ_PING_BUFF_SIZE
    NeighborhoodMax,  \* SPT_TABLE_NEIGHBORHOOD_MAX_SIZE
    AdjacencyMax,     \* SPT_TABLE_ADJACENCY_MAX_SIZE
    JumpThreshold,    \* SPT_JUMP_THRESHOLD
    FullValue,        \* SPT_PATH_METRIC_FULL_VALUE
    Word,             \* 2^32, the modulus of uint32_t
    MaxAge            \* the age at which clocks saturate

(* Logical addresses are esp_random() % 999 (hypercast.c:52-55), so they   *)
(* fit the uint16_t fields of the tables unchanged and are ordered as      *)
(* numbers.                                                                *)
ASSUME IdsAssumption == Ids \subseteq Nat

ASSUME TimeAssumption ==
    /\ {HeartbeatTime, NeighborTimeout, AdjacencyTimeout, MaxAge} \subseteq Nat
    /\ BeaconInterval \in Nat \ {0}
    /\ HeartbeatTime <= MaxAge
    /\ NeighborTimeout < MaxAge
    /\ AdjacencyTimeout < MaxAge

ASSUME SizeAssumption ==
    /\ {PingBuffSize, NeighborhoodMax, AdjacencyMax, Word} \subseteq Nat \ {0}
    /\ {JumpThreshold, FullValue} \subseteq Nat

Age == 0 .. MaxAge
Cost == 0 .. Word - 1
Pings == [1 .. PingBuffSize -> BOOLEAN]
Quality == 0 .. PingBuffSize

(* pt_spt_neighborhood_entry_t *)
Neighbor == [neighborId : Ids, rootId : Ids, cost : Cost, age : Age,
             isAncestor : BOOLEAN]

(* pt_spt_adjacency_entry_t. The ring pingBuffer/pingBufferStart is kept   *)
(* newest first: slot 1 is the one before pingBufferStart.                 *)
Link == [id : Ids, quality : Quality, age : Age, pings : Pings]

(* protocol_spt with its tables. clockReal: the clock has passed           *)
(* HC_FIXED_TIME_MIN_VALUE + 80000.                                        *)
SptState == [id : Ids, rootId : Ids, ancestorId : Ids, cost : Cost,
             neighborhood : SUBSET Neighbor, adjacency : SUBSET Link,
             sinceBeacon : Age, clockReal : BOOLEAN]

(* spt_msg_beacon_t. links is the sender's adjacency table: how well it    *)
(* hears each device. real: the timestamp is past the same limit.          *)
LinkReport == [id : Ids, quality : Nat]
Beacon == [sender : Ids, root : Ids, parent : Ids, cost : Cost,
           real : BOOLEAN, links : SUBSET LinkReport]

(* spt_protocol_from_config: its own root and ancestor, empty tables, and  *)
(* a last beacon at time 0, that is, long ago.                             *)
InitSpt(n) ==
    [id |-> n, rootId |-> n, ancestorId |-> n, cost |-> 0,
     neighborhood |-> {}, adjacency |-> {},
     sinceBeacon |-> MaxAge, clockReal |-> FALSE]

-----------------------------------------------------------------------------
(* Clock *)

Aged(t, d) == IF t + d < MaxAge THEN t + d ELSE MaxAge

(* get_epoch() has advanced by d seconds. *)
Elapse(s, d) ==
    [s EXCEPT
        !.neighborhood = {[e EXCEPT !.age = Aged(e.age, d)] : e \in s.neighborhood},
        !.adjacency = {[l EXCEPT !.age = Aged(l.age, d)] : l \in s.adjacency},
        !.sinceBeacon = Aged(s.sinceBeacon, d)]

(* A device that never learnt the time takes it from the first beacon that *)
(* knows it: set_epoch moves its clock d seconds forward.                  *)
SyncClock(s, m, d) ==
    IF ~s.clockReal /\ m.real
    THEN [Elapse(s, d) EXCEPT !.clockReal = TRUE]
    ELSE s

-----------------------------------------------------------------------------
(* Adjacency table and link quality *)

Interval(age) == (age + (BeaconInterval \div 2)) \div BeaconInterval

(* Mutant of RecordPing: a ping within the interval of the last one is not *)
(* counted (the loop of spt.c:638 left out).                               *)
RecordPingOncePerInterval(link) ==
    LET k == Interval(link.age) IN
    [i \in 1 .. PingBuffSize |->
        IF k < 1 THEN link.pings[i]
        ELSE \/ i = 1
             \/ i > k /\ link.pings[i - k]]

(* spt_ping_buffer_record(now, true, entry): within an interval the newest *)
(* missing ping is filled in; after k intervals k - 1 misses and one ping  *)
(* are shifted in.                                                         *)
RecordPing(link) ==
    LET k == Interval(link.age) IN
    [i \in 1 .. PingBuffSize |->
        IF k < 1
        THEN link.pings[i] \/ \A j \in 1 .. i - 1 : link.pings[j]
        ELSE \/ i = 1
             \/ i > k /\ link.pings[i - k]]

(* spt_ping_buffer_get_count. The miss it injects first falls in interval  *)
(* 0, the ping having just been recorded, and records nothing.             *)
PingCount(pings) == Cardinality({i \in 1 .. PingBuffSize : pings[i]})

(* The entry of the sender, or a new one whose pingBuffer is malloc'ed and *)
(* not initialised: it holds any garbage.                                  *)
LinkTo(s, sender, garbage) ==
    IF \E l \in s.adjacency : l.id = sender
    THEN CHOOSE l \in s.adjacency : l.id = sender
    ELSE [id |-> sender, quality |-> 0, age |-> 0, pings |-> garbage]

(* Mutant of LinkQuality: the comparison of spt.c:492 the wrong way round. *)
LinkQualityBest(s, m, pings) ==
    LET count == PingCount(pings)
        mine == {r \in m.links : r.id = s.id}
        reported == (CHOOSE r \in mine : TRUE).quality
    IN  IF mine # {} /\ count < reported THEN reported ELSE count

(* The link is as good as its worse direction. *)
LinkQuality(s, m, pings) ==
    LET count == PingCount(pings)
        mine == {r \in m.links : r.id = s.id}
        reported == (CHOOSE r \in mine : TRUE).quality
    IN  IF mine # {} /\ count > reported THEN reported ELSE count

(* The code writes a new entry at index size and never compares size with  *)
(* AdjacencyMax.                                                           *)
UpdateLink(s, m, garbage) ==
    LET pings == RecordPing(LinkTo(s, m.sender, garbage)) IN
    [s EXCEPT !.adjacency =
        {l \in s.adjacency : l.id # m.sender}
          \cup {[id |-> m.sender, quality |-> LinkQuality(s, m, pings),
                 age |-> 0, pings |-> pings]}]

(* quality <= 0.1 fails, and quality is an integer. *)
Reliable(s, sender) == \E l \in s.adjacency : l.id = sender /\ l.quality > 0

-----------------------------------------------------------------------------
(* Neighborhood table *)

Recorded(s, n) == {e \in s.neighborhood : e.neighborId = n}

(* spt_remove_neighbor *)
WithoutNeighbor(table, n) == {e \in table : e.neighborId # n}

(* spt_add_neighbor: a full table keeps what it has and drops the entry. *)
WithNeighbor(table, e) ==
    IF Cardinality(table) >= NeighborhoodMax THEN table ELSE table \cup {e}

NeighborFrom(m, isAncestor) ==
    [neighborId |-> m.sender, rootId |-> m.root, cost |-> m.cost, age |-> 0,
     isAncestor |-> isAncestor]

(* spt_overlay_sender_trusted *)
Trusted(s, source) == Recorded(s, source) # {}

-----------------------------------------------------------------------------
(* Choice of the parent *)

(* spt_pathmetric_minimumcost of a beacon, stored in a uint32_t. *)
Metric(cost) == (FullValue - cost) % Word

(* Mutant of SwapWarranted: any root will do (spt.c:713 left out). *)
SwapWarrantedAnyRoot(a, m) ==
    /\ Metric(m.cost) >= (Metric(a.cost) + JumpThreshold) % Word
    /\ m.cost <= (a.cost + 2) % Word

(* The swap policy: same root, a metric better by the threshold, and a     *)
(* cost not more than 2 above; unsigned arithmetic.                        *)
SwapWarranted(a, m) ==
    /\ m.root = a.rootId
    /\ Metric(m.cost) >= (Metric(a.cost) + JumpThreshold) % Word
    /\ m.cost <= (a.cost + 2) % Word

(* spt_beacon_should_be_parent, its answer. *)
ShouldBeParent(s, m) ==
    /\ m.parent # s.id
    /\ IF Recorded(s, s.ancestorId) = {}
       THEN m.root < s.id
       ELSE \E a \in Recorded(s, s.ancestorId) : SwapWarranted(a, m)

(* spt_beacon_should_be_parent, its side effect: an ancestor that is not   *)
(* in the table is given up; rootId and cost stay.                         *)
CheckAncestor(s, m) ==
    IF m.parent # s.id /\ Recorded(s, s.ancestorId) = {}
    THEN [s EXCEPT !.ancestorId = s.id]
    ELSE s

(* Mutants of ReplaceParent: the sender's entry as a descendant stays      *)
(* (spt.c:525 left out); the old ancestor's entry stays (528-533).         *)
ReplaceParentTwice(table, m) ==
    LET flagged == {e \in table : e.isAncestor}
        kept == IF flagged = {} THEN table
                ELSE WithoutNeighbor(table, (CHOOSE e \in flagged : TRUE).neighborId)
    IN  WithNeighbor(kept, NeighborFrom(m, TRUE))

ReplaceParentBeside(table, m) ==
    WithNeighbor(WithoutNeighbor(table, m.sender), NeighborFrom(m, TRUE))

(* The old entry of the new parent goes, then one entry flagged as         *)
(* ancestor, then the new one is added if there is room.                   *)
ReplaceParent(table, m) ==
    LET others == WithoutNeighbor(table, m.sender)
        flagged == {e \in others : e.isAncestor}
        kept == IF flagged = {} THEN others
                ELSE WithoutNeighbor(others, (CHOOSE e \in flagged : TRUE).neighborId)
    IN  WithNeighbor(kept, NeighborFrom(m, TRUE))

(* Mutant of Refresh: a parent heard again ages on (spt.c:551 left out). *)
RefreshNothing(table, n) == table

(* A parent heard again only has its timestamp renewed. *)
Refresh(table, n) ==
    {IF e.neighborId = n THEN [e EXCEPT !.age = 0] ELSE e : e \in table}

(* The beacon is our parent's: follow it blindly, unless its root is       *)
(* larger than our id, in which case we are the root now.                  *)
FollowParent(s, m) ==
    LET table == IF s.ancestorId = m.sender THEN s.neighborhood
                 ELSE ReplaceParent(s.neighborhood, m)
        selfRoot == m.root > s.id
    IN  [s EXCEPT
            !.ancestorId = IF selfRoot THEN s.id ELSE m.sender,
            !.rootId = IF selfRoot THEN s.id ELSE m.root,
            !.cost = (m.cost + 1) % Word,
            !.neighborhood = Refresh(table, m.sender)]

(* We are the beacon's parent: its entry is updated, the flag excepted, or *)
(* added.                                                                  *)
RecordDescendant(s, m) ==
    [s EXCEPT !.neighborhood =
        IF Recorded(s, m.sender) = {}
        THEN WithNeighbor(s.neighborhood, NeighborFrom(m, FALSE))
        ELSE {IF e.neighborId = m.sender THEN NeighborFrom(m, e.isAncestor) ELSE e
                : e \in s.neighborhood}]

ForgetDescendant(s, m) ==
    [s EXCEPT !.neighborhood = WithoutNeighbor(s.neighborhood, m.sender)]

-----------------------------------------------------------------------------
(* Handlers *)

(* spt_handle_beacon_message. d: how far the clock jumps if it is set;     *)
(* garbage: what the heap holds where a new pingBuffer is allocated.       *)
HandleBeacon(s, m, d, garbage) ==
    LET heard == UpdateLink(SyncClock(s, m, d), m, garbage)
        checked == CheckAncestor(heard, m)
    IN  IF ~Reliable(heard, m.sender) THEN heard
        ELSE IF ShouldBeParent(heard, m) \/ checked.ancestorId = m.sender
             THEN FollowParent(checked, m)
        ELSE IF m.parent = s.id THEN RecordDescendant(checked, m)
        ELSE ForgetDescendant(checked, m)

BeaconDue(s) == s.sinceBeacon >= HeartbeatTime

(* Mutant of Encode: the root field carries rootId, as spt.c:334 intends. *)
EncodeTreeRoot(s) ==
    [sender |-> s.id, root |-> s.rootId, parent |-> s.ancestorId, cost |-> s.cost,
     real |-> s.clockReal,
     links |-> {[id |-> l.id, quality |-> l.quality] : l \in s.adjacency}]

(* Mutant of ParentTimedOut: any timed out entry resets the tree           *)
(* (spt.c:399 left out).                                                   *)
AnyoneTimedOut(s) == \E e \in s.neighborhood : e.age > NeighborTimeout

(* The beacon of spt_maintenance, as spt_encode writes it: the root field  *)
(* carries the sender's own id (spt.c:209), not rootId.                    *)
Encode(s) ==
    [sender |-> s.id, root |-> s.id, parent |-> s.ancestorId, cost |-> s.cost,
     real |-> s.clockReal,
     links |-> {[id |-> l.id, quality |-> l.quality] : l \in s.adjacency}]

ParentTimedOut(s) ==
    \E e \in s.neighborhood : e.age > NeighborTimeout /\ e.isAncestor

(* Mutants of Maintain: the parent's entry is dropped without giving up    *)
(* the parent (spt.c:401-403 left out); the cost is not reset (403).       *)
MaintainOrphan(s) ==
    [s EXCEPT
        !.sinceBeacon = 0,
        !.adjacency = {l \in s.adjacency : l.age <= AdjacencyTimeout},
        !.neighborhood = {e \in s.neighborhood : e.age <= NeighborTimeout}]

MaintainStaleCost(s) ==
    [MaintainOrphan(s) EXCEPT
        !.ancestorId = IF ParentTimedOut(s) THEN s.id ELSE s.ancestorId,
        !.rootId = IF ParentTimedOut(s) THEN s.id ELSE s.rootId]

(* spt_maintenance once it is due, after the beacon has been pushed: both  *)
(* tables drop what has timed out, and losing the ancestor's entry makes   *)
(* the device its own root.                                                *)
Maintain(s) ==
    [s EXCEPT
        !.sinceBeacon = 0,
        !.adjacency = {l \in s.adjacency : l.age <= AdjacencyTimeout},
        !.neighborhood = {e \in s.neighborhood : e.age <= NeighborTimeout},
        !.ancestorId = IF ParentTimedOut(s) THEN s.id ELSE s.ancestorId,
        !.rootId = IF ParentTimedOut(s) THEN s.id ELSE s.rootId,
        !.cost = IF ParentTimedOut(s) THEN 0 ELSE s.cost]
=============================================================================
