---------------------------- MODULE MCFirmware ----------------------------
(* A small heap, so that what is freed is used again. *)
EXTENDS Firmware

MCPackets == 1 .. 4
=============================================================================
