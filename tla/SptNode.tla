------------------------------ MODULE SptNode ------------------------------
(***************************************************************************)
(* One device running the spanning-tree protocol among arbitrary peers:    *)
(* the engine task (hc_engine_handler) alternates maintenance and reading  *)
(* its receive buffer, which may hold any beacon the wire format can carry *)
(* from a peer that still talks, while time passes between any two steps.  *)
(* Peers need not run this code: a HyperCast node of another               *)
(* implementation advertises any root, parent and cost.                    *)
(***************************************************************************)
EXTENDS Spt

CONSTANTS
    Self,      \* the device's logical address
    Peers,     \* the senders it hears
    MaxCost,   \* bound on the cost a peer advertises
    Reports,   \* link qualities a peer may report for Self
    Jumps      \* how far set_epoch may move the clock

ASSUME NodeAssumption ==
    /\ Self \in Ids
    /\ Peers \subseteq Ids
    /\ MaxCost \in Cost
    /\ Reports \subseteq Nat
    /\ Jumps \subseteq Nat

VARIABLES
    spt,     \* hypercast->protocol
    pc,      \* where the engine loop is: "maintain" or "read"
    talking  \* peers that still send beacons

vars == <<spt, pc, talking>>

(* What a peer says of Self: nothing, or a link quality. *)
PeerLinks == {{}} \cup {{[id |-> Self, quality |-> q]} : q \in Reports}

PeerBeacon(p) ==
    [sender : {p}, root : Ids, parent : Ids, cost : 0 .. MaxCost,
     real : BOOLEAN, links : PeerLinks]

Init ==
    /\ spt = InitSpt(Self)
    /\ pc = "maintain"
    /\ talking = Peers

(* One second. The clock passes the real-time limit by itself 80000        *)
(* seconds after start-up.                                                 *)
Tick ==
    /\ \E late \in BOOLEAN :
          spt' = [Elapse(spt, 1) EXCEPT !.clockReal = spt.clockReal \/ late]
    /\ UNCHANGED <<pc, talking>>

Maintenance ==
    /\ pc = "maintain"
    /\ spt' = IF BeaconDue(spt) THEN Maintain(spt) ELSE spt
    /\ pc' = "read"
    /\ UNCHANGED talking

(* hc_pop_buffer returned NULL: sleep and start over. *)
Idle ==
    /\ pc = "read"
    /\ pc' = "maintain"
    /\ UNCHANGED <<spt, talking>>

Receive ==
    /\ pc = "read"
    /\ \E p \in talking : \E m \in PeerBeacon(p), d \in Jumps, g \in Pings :
          spt' = HandleBeacon(spt, m, d, g)
    /\ pc' = "maintain"
    /\ UNCHANGED talking

(* A peer stops for good: power, range, or its own crash. *)
FallSilent ==
    /\ \E p \in talking : talking' = talking \ {p}
    /\ UNCHANGED <<spt, pc>>

Engine == Maintenance \/ Idle \/ Receive

Next == Tick \/ Engine \/ FallSilent

Spec == Init /\ [][Next]_vars

(* Time passes and the engine task, which never blocks for more than half  *)
(* a second, keeps running.                                                *)
FairSpec == Spec /\ WF_vars(Tick) /\ WF_vars(Engine)

-----------------------------------------------------------------------------
(* Every table entry and every field stays in its type, the link quality   *)
(* within what the ping buffer can count.                                  *)
TypeOK ==
    /\ spt \in SptState
    /\ spt.id = Self
    /\ pc \in {"maintain", "read"}
    /\ talking \subseteq Peers

(* A device has at most one entry per table in our tables, although        *)
(* entries are found and added by separate loops over the beacon handler's *)
(* branches (spt.c:451-469, 523-546, 565-583).                             *)
EntriesUnique ==
    /\ \A e, f \in spt.neighborhood : e.neighborId = f.neighborId => e = f
    /\ \A l, k \in spt.adjacency : l.id = k.id => l = k

(* The isAncestor flag and ancestorId, two records of one fact kept by     *)
(* different branches, agree while the device has a parent: the parent's   *)
(* entry, when the table has one, is the flagged one and the only one. The *)
(* timeout of spt.c:399 resets the tree by the flag, the parent choice of  *)
(* spt.c:696 searches by ancestorId.                                       *)
AncestorFlag ==
    /\ \A e, f \in spt.neighborhood : e.isAncestor /\ f.isAncestor => e = f
    /\ spt.ancestorId # Self =>
          \A e \in spt.neighborhood :
             e.isAncestor <=> e.neighborId = spt.ancestorId

(* A parent is always in the neighborhood table, where its silence can be  *)
(* noticed: "Once we know that our neighborhood table is correct, fetch    *)
(* the neighbor and update the timestamp" (spt.c:548). It takes a table    *)
(* with room for every peer.                                               *)
ParentRecorded ==
    spt.ancestorId # Self =>
        \E e \in spt.neighborhood : e.neighborId = spt.ancestorId

(* The adjacency table stays within its "Table Max Sizes" (spt.h:19-21):   *)
(* the array malloc'ed for it has no room for more.                        *)
AdjacencyFits == Cardinality(spt.adjacency) <= AdjacencyMax

(* A parent is given up for nobody only if its entry is older than the     *)
(* neighbor timeout or it has itself just spoken; no other device's beacon *)
(* and no other entry's timeout makes a device drop its parent.            *)
ParentKept ==
    [][ spt.ancestorId # Self /\ spt'.ancestorId = Self =>
          \/ \E e \in Recorded(spt, spt.ancestorId) : e.age > NeighborTimeout
          \/ \E l \in spt'.adjacency : l.id = spt.ancestorId /\ l.age = 0 ]_vars

(* A device does not stay below a parent that has stopped talking.         *)
SilentParentLeft ==
    \A p \in Peers \ {Self} : p \notin talking ~> spt.ancestorId # p
=============================================================================
