---------------------------- MODULE SptNetwork ----------------------------
(***************************************************************************)
(* A network of devices that all run this code, exchanging beacons by UDP  *)
(* multicast. The path of a beacon from spt_maintenance through the send   *)
(* buffer, the medium and the receive buffer is one set per receiver:      *)
(* beacons wait there, overtake each other, and are lost on the way or     *)
(* when the set is full. Devices stop without notice; one that starts      *)
(* again has forgotten everything. The strict alternation of the engine    *)
(* loop is SptNode's; here a device's maintenance and its reading of       *)
(* beacons come in any order, so every behaviour of the loop is included.  *)
(***************************************************************************)
EXTENDS Spt

CONSTANTS
    InboxMax,    \* bound on the beacons waiting at a device
    MaxCrashes,  \* bound on the number of crashes
    Jumps,       \* how far set_epoch may move a clock
    Late,        \* devices may be up for more than 80000 seconds
    Lossy,       \* the medium loses beacons
    Prompt       \* a device does what is due before the next second

ASSUME NetworkAssumption ==
    /\ InboxMax \in Nat \ {0}
    /\ MaxCrashes \in Nat
    /\ Jumps \subseteq Nat
    /\ {Late, Lossy} \subseteq BOOLEAN
    /\ Prompt \in BOOLEAN

(* No address is as large as the modulus of a cost. *)
ASSUME IdsFitAssumption == \A n \in Ids : n < Word

VARIABLES
    up,      \* devices that are running
    spt,     \* each device's protocol state
    inbox,   \* beacons on their way to or waiting at each device
    crashes  \* crashes so far

vars == <<up, spt, inbox, crashes>>

Init ==
    /\ up = Ids
    /\ spt = [n \in Ids |-> InitSpt(n)]
    /\ inbox = [n \in Ids |-> {}]
    /\ crashes = 0

(* hc_init: a device joins with fresh tables. One that starts late is, up  *)
(* to then, one whose engine has not had its turn yet.                     *)
Boot(n) ==
    /\ n \notin up
    /\ up' = up \cup {n}
    /\ UNCHANGED <<spt, inbox, crashes>>

(* A device stops: its tables and buffers are gone. *)
Crash(n) ==
    /\ n \in up
    /\ crashes < MaxCrashes
    /\ crashes' = crashes + 1
    /\ up' = up \ {n}
    /\ spt' = [spt EXCEPT ![n] = InitSpt(n)]
    /\ inbox' = [inbox EXCEPT ![n] = {}]

(* Which sets of devices a multicast may get to, the sender's own loopback *)
(* included.                                                               *)
Reached == IF Lossy THEN SUBSET up ELSE {up}

(* Mutant of Delivered: a device takes its own multicast for another's     *)
(* (hc_socket_interface.c:179-184 left out).                               *)
DeliveredSelfToo(m, R) ==
    [n \in Ids |->
        IF n \in R /\ Cardinality(inbox[n]) < InboxMax
        THEN inbox[n] \cup {m}
        ELSE inbox[n]]

(* The receive handler ignores what comes from the device's own address;   *)
(* any other beacon is dropped only where the inbox is full.               *)
Delivered(m, R) ==
    [n \in Ids |->
        IF n \in R /\ n # m.sender /\ Cardinality(inbox[n]) < InboxMax
        THEN inbox[n] \cup {m}
        ELSE inbox[n]]

(* Maintenance that is due; the loop passes it by while it is not.         *)
Maintenance(n) ==
    /\ n \in up
    /\ BeaconDue(spt[n])
    /\ spt' = [spt EXCEPT ![n] = Maintain(spt[n])]
    /\ \E R \in Reached : inbox' = Delivered(Encode(spt[n]), R)
    /\ UNCHANGED <<up, crashes>>

Receive(n) ==
    /\ n \in up
    /\ \E m \in inbox[n], d \in Jumps, g \in Pings :
          /\ spt' = [spt EXCEPT ![n] = HandleBeacon(spt[n], m, d, g)]
          /\ inbox' = [inbox EXCEPT ![n] = inbox[n] \ {m}]
    /\ UNCHANGED <<up, crashes>>

(* Nothing is waiting and no beacon is overdue. *)
Quiet == \A n \in up : inbox[n] = {} /\ ~BeaconDue(spt[n])

(* A second passes everywhere; the devices in L have now been up long      *)
(* enough for their clock to pass for a real one.                          *)
Tick ==
    /\ up # {}
    /\ Prompt => Quiet
    /\ \E L \in IF Late THEN SUBSET up ELSE {{}} :
          spt' = [n \in Ids |->
                     IF n \in up
                     THEN [Elapse(spt[n], 1) EXCEPT
                             !.clockReal = spt[n].clockReal \/ n \in L]
                     ELSE spt[n]]
    /\ UNCHANGED <<up, inbox, crashes>>

Next ==
    \/ Tick
    \/ \E n \in Ids : Maintenance(n) \/ Receive(n) \/ Boot(n) \/ Crash(n)

Spec == Init /\ [][Next]_vars

(* Time passes, and engines that have something to do do not all stop:     *)
(* less than what the scheduler gives every one of them.                   *)
FairSpec ==
    /\ Spec
    /\ WF_vars(Tick)
    /\ WF_vars(\E n \in Ids : Maintenance(n) \/ Receive(n))

-----------------------------------------------------------------------------
(* Types, and every waiting beacon was sent by another device. *)
TypeOK ==
    /\ up \subseteq Ids
    /\ spt \in [Ids -> SptState]
    /\ \A n \in Ids : spt[n].id = n
    /\ inbox \in [Ids -> SUBSET Beacon]
    /\ \A n \in Ids : \A m \in inbox[n] : m.sender # n
    /\ crashes \in 0 .. MaxCrashes

(* A device's parent always has a smaller address, so no interleaving of   *)
(* stale, lost and reordered beacons, restarts included, closes a cycle of *)
(* parents. The code has no loop check of its own: this rests on the root  *)
(* field of spt.c:209 and the comparison of spt.c:709.                     *)
ParentsDescend == \A n \in Ids : spt[n].ancestorId <= n

(* Costs do not count to infinity: a device's cost stays below its address *)
(* however old the beacons it was computed from (spt.c:518).               *)
CostBounded == \A n \in Ids : spt[n].cost <= n

(* A device without a parent is a clean root, one with a parent is at its  *)
(* parent's tree and not at cost 0: tree info never mixes two lives, of    *)
(* the parent or of the device.                                            *)
TreeInfoConsistent ==
    \A n \in Ids :
       IF spt[n].ancestorId = n
       THEN spt[n].rootId = n /\ spt[n].cost = 0
       ELSE spt[n].rootId = spt[n].ancestorId /\ spt[n].cost > 0

(* A link between devices that run this code never drops to a quality at   *)
(* which beacons are discarded (spt.c:497), although each side takes the   *)
(* minimum of its own count and what the other reports.                    *)
LinksUsable == \A n \in Ids : \A l \in spt[n].adjacency : l.quality > 0

(* The beacon carries the root its sender follows: "rootLogicalAdddress"   *)
(* (spt.c:209), set from rootId (spt.c:334).                               *)
RootAdvertised == \A n \in up : Encode(spt[n]).root = spt[n].rootId

(* A device that has a parent never exchanges it for another in one step:  *)
(* among devices of this code the swap policy of spt.c:713-718 is dead.    *)
ParentSticky ==
    [][ \A n \in Ids :
          spt[n].ancestorId # n => spt'[n].ancestorId \in {n, spt[n].ancestorId} ]_vars

(* With no loss and prompt devices, and as long as no device has crashed,  *)
(* a parent is never lost: the heartbeat, the neighbor timeout and the     *)
(* order beacon, then timeouts of spt_maintenance fit together.            *)
ParentStable ==
    [][ \A n \in Ids :
          crashes' = 0 /\ spt[n].ancestorId # n =>
              spt'[n].ancestorId = spt[n].ancestorId ]_vars

(* The tree is what it should be: the smallest address is the only root,   *)
(* and every other device is one hop further than its running parent.      *)
Settled ==
    \A n \in up :
       IF \A k \in up : n <= k
       THEN spt[n].ancestorId = n /\ spt[n].cost = 0
       ELSE /\ spt[n].ancestorId \in up \ {n}
            /\ spt[n].cost = spt[spt[n].ancestorId].cost + 1

(* Once devices stop coming and going the tree settles. *)
Converges == <>[]Settled
=============================================================================
