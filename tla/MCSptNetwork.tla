--------------------------- MODULE MCSptNetwork ---------------------------
(* Small instances of SptNetwork: the addresses are their ranks. *)
EXTENDS SptNetwork

MCIds == 1 .. 3
MCPair == 1 .. 2
=============================================================================
