---------------------------- MODULE MCOverlayNet ----------------------------
(* Small instances of OverlayNet. A byte has 32 values, so that a route    *)
(* record of up to 7 addresses of 4 bytes fits its length byte.            *)
EXTENDS OverlayNet

MCIds == 1 .. 4

(* A ring, 1 -- 2 -- 4 -- 3 -- 1: two ways to the device opposite.         *)
MCLinks == (1 :> {2, 3}) @@ (2 :> {1, 4}) @@ (3 :> {1, 4}) @@ (4 :> {2, 3})

MCPayloads == {<<7>>, <<3, 2>>}

MCOriginals ==
    {[source |-> 1, payload |-> <<3, 2>>, layout |-> <<Payload, RouteRecord>>],
     [source |-> 1, payload |-> <<7>>, layout |-> <<Payload>>]}

(* A node of another implementation puts the route record first. *)
MCRecordFirst ==
    {[source |-> 1, payload |-> <<3, 2>>, layout |-> <<RouteRecord, Payload>>]}
=============================================================================
