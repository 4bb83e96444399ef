------------------------------ MODULE Firmware ------------------------------
(***************************************************************************)
(* A whole device: Station starts the tasks of Device, and a task that     *)
(* returns or a check that fails takes everything down. FreeRTOS is built  *)
(* with a task wrapper that aborts when a task returns                     *)
(* (CONFIG_FREERTOS_TASK_FUNCTION_WRAPPER) and a panic restarts the chip   *)
(* (CONFIG_ESP_SYSTEM_PANIC_PRINT_REBOOT).                                 *)
(***************************************************************************)
EXTENDS Station, Device

CONSTANT MaxFaults \* bound on the errors that end a task or fail a check

ASSUME FirmwareAssumption == MaxFaults \in Nat

VARIABLE faults

vars == <<stationVars, deviceVars, faults>>

Init == StationInit /\ DeviceInit /\ faults = 0

(* What can go wrong for good: an ESP_ERROR_CHECK of wifi_init_sta, a      *)
(* socket call of hc_socket_init, recvfrom in the receive task.            *)
Fault ==
    /\ faults < MaxFaults
    /\ main = "init" \/ socket = "setup" \/ Running("recv")
    /\ faults' = faults + 1
    /\ StationReset
    /\ DeviceReset

(* malloc has nothing left and its result is written through unchecked: a  *)
(* panic. What the send task leaks makes this only a matter of time.       *)
Exhausted ==
    /\ Packets \subseteq live
    /\ \/ Running("engine") /\ pc \in {"maintain", "read"} /\ Len(sendBuffer) < Capacity
       \/ Running("recv") /\ Len(receiveBuffer) < Capacity
    /\ StationReset
    /\ DeviceReset
    /\ UNCHANGED faults

StationStep == (Startup \/ LoseLink) /\ UNCHANGED <<deviceVars, faults>>

EngineStep == Running("engine") /\ Engine /\ UNCHANGED <<stationVars, faults>>

SenderStep == Running("send") /\ Sender /\ UNCHANGED <<stationVars, faults>>

ReceiverStep == Running("recv") /\ Receive /\ UNCHANGED <<stationVars, faults>>

Next ==
    \/ Fault \/ Exhausted
    \/ StationStep \/ EngineStep \/ SenderStep \/ ReceiverStep

Spec == Init /\ [][Next]_vars

(* Every task gets its turn, and the driver answers. *)
FairSpec ==
    /\ Spec
    /\ WF_vars(Startup /\ UNCHANGED <<deviceVars, faults>>)
    /\ WF_vars(EngineStep)
    /\ WF_vars(SenderStep)

-----------------------------------------------------------------------------
TypeOK ==
    /\ StationTypeOK
    /\ DeviceTypeOK
    /\ faults \in 0 .. MaxFaults

(* app_main never waits for ever: the retries run out or an address comes. *)
Decided == main = "wait" ~> main # "wait"

(* A device that has an address runs its engine, or starts anew. *)
Runs == "connected" \in bits ~> Running("engine") \/ main = "init"

(* A full buffer does not stay full, whatever else arrives or is due, so   *)
(* what is received is read and what is pushed is sent.                    *)
Handled ==
    /\ Len(receiveBuffer) = Capacity ~> Len(receiveBuffer) < Capacity
    /\ Len(sendBuffer) = Capacity ~> Len(sendBuffer) < Capacity
=============================================================================
