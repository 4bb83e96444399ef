---------------------------- MODULE MCHcBuffer ----------------------------
(* A small buffer with two tasks on each side; the code has one on each.   *)
EXTENDS HcBuffer

CONSTANTS p1, p2, p3, p4, send, recv, engine1, engine2

MCPackets == {p1, p2, p3, p4}
MCPushers == {recv, engine1}
MCPoppers == {send, engine2}
=============================================================================
