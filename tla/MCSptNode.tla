----------------------------- MODULE MCSptNode -----------------------------
(* Small instances of SptNode. Self = 2 has a smaller and a larger peer.   *)
EXTENDS SptNode

MCIds == 1 .. 3
=============================================================================
