---------------------------- MODULE BoundedFifo ----------------------------
(***************************************************************************)
(* What a packet buffer promises its users: packets come out once each, in *)
(* the order they went in, and one is turned away only when the buffer     *)
(* holds as many as it has room for.                                       *)
(***************************************************************************)
EXTENDS Naturals, Sequences

CONSTANTS
    Packets,   \* the packets that may be pushed, each once
    Capacity   \* how many the buffer holds

VARIABLES
    fresh,  \* packets not pushed yet
    queue,  \* packets held
    taken,  \* packets popped, in order
    lost    \* packets turned away

vars == <<fresh, queue, taken, lost>>

Init ==
    /\ fresh = Packets
    /\ queue = <<>>
    /\ taken = <<>>
    /\ lost = {}

Put(x) ==
    /\ x \in fresh
    /\ Len(queue) < Capacity
    /\ queue' = Append(queue, x)
    /\ fresh' = fresh \ {x}
    /\ UNCHANGED <<taken, lost>>

TurnAway(x) ==
    /\ x \in fresh
    /\ Len(queue) = Capacity
    /\ lost' = lost \cup {x}
    /\ fresh' = fresh \ {x}
    /\ UNCHANGED <<queue, taken>>

Get ==
    /\ queue # <<>>
    /\ taken' = Append(taken, Head(queue))
    /\ queue' = Tail(queue)
    /\ UNCHANGED <<fresh, lost>>

Next == Get \/ \E x \in Packets : Put(x) \/ TurnAway(x)

Spec == Init /\ [][Next]_vars
=============================================================================
