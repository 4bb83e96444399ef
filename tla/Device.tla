------------------------------- MODULE Device -------------------------------
(***************************************************************************)
(* The three tasks of a running device and the packets they hand on        *)
(* (hc_socket_interface.c, hc_engine.c): a packet is malloc'ed memory, its *)
(* pointer waits in a buffer or stands in a task's variable. The engine    *)
(* frees a packet a turn after it has read it; the send task frees none.   *)
(* The buffers' inside is HcBuffer's, a packet's contents are Spt's and    *)
(* Overlay's.                                                              *)
(***************************************************************************)
EXTENDS Integers, Sequences

CONSTANTS
    Packets,  \* places for packets on the heap
    Capacity, \* HC_BUFFER_SIZE
    NULL

ASSUME DeviceAssumption ==
    /\ Packets \subseteq Nat
    /\ Capacity \in Nat \ {0}
    /\ NULL \notin Packets

VARIABLES
    live,          \* malloc'ed packets
    receiveBuffer, sendBuffer,
    pc,            \* the engine: "maintain", "free", "pop", "read"
    packet,        \* the engine's packet
    sending,       \* the send task's packet
    sent           \* packets that sendto has been called with (history)

deviceVars == <<live, receiveBuffer, sendBuffer, pc, packet, sending, sent>>

DeviceInit ==
    /\ live = {}
    /\ receiveBuffer = <<>>
    /\ sendBuffer = <<>>
    /\ pc = "maintain"
    /\ packet = NULL
    /\ sending = NULL
    /\ sent = {}

DeviceReset ==
    /\ live' = {}
    /\ receiveBuffer' = <<>>
    /\ sendBuffer' = <<>>
    /\ pc' = "maintain"
    /\ packet' = NULL
    /\ sending' = NULL
    /\ sent' = {}

(* The memory that malloc returns: any that is not in use. The lowest      *)
(* place stands for all.                                                   *)
Malloced(p) ==
    /\ p \in Packets \ live
    /\ \A q \in Packets \ live : p <= q

(* Mutant of PushSend: the caller's packet is stored, not a copy. *)
PushSendShared ==
    IF Len(sendBuffer) = Capacity
    THEN UNCHANGED <<sendBuffer, live>>
    ELSE \E p \in Packets :
            /\ Malloced(p)
            /\ sendBuffer' = Append(sendBuffer, p)
            /\ UNCHANGED live

(* hc_push_buffer with a message of the engine's own, which is copied and  *)
(* freed: a full buffer refuses it.                                        *)
PushSend ==
    IF Len(sendBuffer) = Capacity
    THEN UNCHANGED <<sendBuffer, live>>
    ELSE \E p \in Packets :
            /\ Malloced(p)
            /\ sendBuffer' = Append(sendBuffer, p)
            /\ live' = live \cup {p}

-----------------------------------------------------------------------------
(* hc_protocol_maintenance, with or without a message due. *)
Maintenance ==
    /\ pc = "maintain"
    /\ pc' = "free"
    /\ PushSend \/ UNCHANGED <<sendBuffer, live>>
    /\ UNCHANGED <<receiveBuffer, packet, sending, sent>>

(* Mutant of FreePrevious: the pointer is cleared first. *)
FreePreviousClear ==
    /\ pc = "free"
    /\ pc' = "pop"
    /\ packet' = NULL
    /\ UNCHANGED <<live, receiveBuffer, sendBuffer, sending, sent>>

FreePrevious ==
    /\ pc = "free"
    /\ pc' = "pop"
    /\ live' = live \ {packet}
    /\ packet' = NULL
    /\ UNCHANGED <<receiveBuffer, sendBuffer, sending, sent>>

(* hc_pop_buffer; without a packet the loop starts over. *)
PopNone ==
    /\ pc = "pop"
    /\ receiveBuffer = <<>>
    /\ pc' = "maintain"
    /\ packet' = NULL
    /\ UNCHANGED <<live, receiveBuffer, sendBuffer, sending, sent>>

Pop ==
    /\ pc = "pop"
    /\ receiveBuffer # <<>>
    /\ packet' = Head(receiveBuffer)
    /\ receiveBuffer' = Tail(receiveBuffer)
    /\ pc' = "read"
    /\ UNCHANGED <<live, sendBuffer, sending, sent>>

(* Mutant of Read: a packet that is too short ends the handler. *)
ReadReturn ==
    /\ pc = "read"
    /\ pc' \in {"maintain", "ended"}
    /\ PushSend \/ UNCHANGED <<sendBuffer, live>>
    /\ UNCHANGED <<receiveBuffer, packet, sending, sent>>

(* The packet is too short, of another protocol or overlay, a beacon, or a *)
(* message that is dropped or forwarded: the last pushes a message.        *)
Read ==
    /\ pc = "read"
    /\ pc' = "maintain"
    /\ PushSend \/ UNCHANGED <<sendBuffer, live>>
    /\ UNCHANGED <<receiveBuffer, packet, sending, sent>>

Engine == Maintenance \/ FreePrevious \/ PopNone \/ Pop \/ Read

-----------------------------------------------------------------------------
(* The send task takes a packet, the one before is overwritten. *)
Take ==
    /\ sending = NULL
    /\ sendBuffer # <<>>
    /\ sending' = Head(sendBuffer)
    /\ sendBuffer' = Tail(sendBuffer)
    /\ UNCHANGED <<live, receiveBuffer, pc, packet, sent>>

(* sendto: "Clearing this makes it impossible for the sendto to finish".   *)
(* An error goes the same way.                                             *)
SendTo ==
    /\ sending # NULL
    /\ sent' = sent \cup {sending}
    /\ sending' = NULL
    /\ UNCHANGED <<live, receiveBuffer, sendBuffer, pc, packet>>

Sender == Take \/ SendTo

(* The receive task, with a datagram of another device: one of its own is  *)
(* ignored, one for a full buffer is dropped.                              *)
Receive ==
    /\ Len(receiveBuffer) < Capacity
    /\ \E p \in Packets :
          /\ Malloced(p)
          /\ receiveBuffer' = Append(receiveBuffer, p)
          /\ live' = live \cup {p}
    /\ UNCHANGED <<sendBuffer, pc, packet, sending, sent>>

-----------------------------------------------------------------------------
(* Who has a packet: a place in a buffer, or a task. *)
Elements(q) == {q[k] : k \in 1 .. Len(q)}
Held ==
    Elements(receiveBuffer) \cup Elements(sendBuffer)
        \cup ({packet, sending} \ {NULL})

Distinct(q) == \A j, k \in 1 .. Len(q) : q[j] = q[k] => j = k

DeviceTypeOK ==
    /\ live \subseteq Packets
    /\ receiveBuffer \in Seq(Packets)
    /\ sendBuffer \in Seq(Packets)
    /\ Len(receiveBuffer) <= Capacity
    /\ Len(sendBuffer) <= Capacity
    /\ pc \in {"maintain", "free", "pop", "read"}
    /\ {packet, sending} \subseteq Packets \cup {NULL}
    /\ sent \subseteq Packets

(* No pointer is used after its packet is freed, and none is freed twice:  *)
(* what is held is live, in one place, and not in the hands of the network *)
(* stack (hc_engine.c:29-32, hc_socket_interface.c:88-89).                 *)
Owned ==
    /\ Held \cup sent \subseteq live
    /\ Held \cap sent = {}
    /\ Distinct(receiveBuffer) /\ Distinct(sendBuffer)
    /\ Elements(receiveBuffer) \cap Elements(sendBuffer) = {}
    /\ {packet, sending} \cap (Elements(receiveBuffer) \cup Elements(sendBuffer)) = {}
    /\ packet = sending => packet = NULL

(* A packet in memory that nothing holds any more was sent: the send task  *)
(* leaks, as its comment admits, and no other path loses a packet.         *)
OnlySentLeak == live = Held \cup sent
=============================================================================
