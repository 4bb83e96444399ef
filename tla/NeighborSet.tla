----------------------------- MODULE NeighborSet -----------------------------
(***************************************************************************)
(* What a protocol table promises: it is a set of entries, one of which is *)
(* added or removed at a time, and it never has more than MaxSize.         *)
(***************************************************************************)
EXTENDS Integers, FiniteSets

CONSTANTS Entries, MaxSize

VARIABLE members

Init == members = {}

Add ==
    /\ Cardinality(members) < MaxSize
    /\ \E e \in Entries \ members : members' = members \cup {e}

Remove == \E e \in members : members' = members \ {e}

Next == Add \/ Remove

Spec == Init /\ [][Next]_members
=============================================================================
