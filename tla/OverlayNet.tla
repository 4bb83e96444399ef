----------------------------- MODULE OverlayNet -----------------------------
(***************************************************************************)
(* Overlay messages in a network of devices that forward by hc_forward:    *)
(* the engine task takes packets from the receive buffer, the send task    *)
(* those of the send buffer, and what each device trusts changes with its  *)
(* neighborhood table at any time. In this repository nothing but tests    *)
(* originates messages (hc_overlay.h:64), and a node of another            *)
(* implementation may be "negligent" (hc_engine.c:96) and leave out the    *)
(* route record.                                                           *)
(***************************************************************************)
EXTENDS Floods, Overlay

CONSTANTS
    Originals,  \* messages, one of which is sent: source, payload and
                \* extension types, in order
    BoxMax      \* capacity of a buffer

VARIABLES
    trusts,    \* trusts[n]: addresses in n's neighborhood table
    waiting,   \* the original still to be sent
    sent,      \* the original that has been sent
    sendBuf,   \* packets in each send buffer
    recvBuf,   \* packets in each receive buffer
    got,       \* payloads handed to each device's callback
    disturbed  \* a packet was lost, or trust changed

vars == <<trusts, waiting, sent, sendBuf, recvBuf, got, disturbed>>

Sources == {o.source : o \in Originals}

(* What a packet is a copy of, as its bytes have it. *)
Copy(p) ==
    LET table == Extensions(p.bytes, p.first)
        record == Retrieve(table, RouteRecord)
    IN IF table = Unreadable THEN Unreadable
       ELSE [source |-> p.source,
             payload |-> Retrieve(table, Payload).data,
             trail |-> IF record = Free THEN <<p.source>> ELSE record.data,
             hops |-> p.hops]

(* A packet as it lies in a buffer, with a note of what it is a copy of,   *)
(* which no device looks at.                                               *)
Noted(p) == [wire |-> p, copy |-> Copy(p)]

(* Copies on the way to each device. *)
Air ==
    [n \in Ids |->
        {p.copy : p \in ToSet(recvBuf[n]) \cup
                    UNION {ToSet(sendBuf[k]) : k \in {l \in Ids : n \in Links[l]}}}]

Flood == INSTANCE Flooding WITH air <- Air

(* hc_msg_overlay_init_with_payload, for any order of its extensions. *)
Compose(o) ==
    LET Ext(i) == [type |-> o.layout[i], order |-> i,
                   data |-> IF o.layout[i] = Payload THEN o.payload
                            ELSE <<o.source>>]
        Filled[i \in 0 .. Len(o.layout)] ==
            IF i = 0 THEN NoExtensions ELSE Insert(Filled[i - 1], Ext(i))
    IN [hops |-> HopLimit, source |-> o.source, previous |-> o.source,
        ext |-> Filled[Len(o.layout)]]

(* One message at a time: floods share nothing but room in the buffers,    *)
(* and the lack of it is a loss like any other.                            *)
Init ==
    /\ trusts \in [Ids -> SUBSET Sources]
    /\ waiting \in {{o} : o \in Originals}
    /\ sent = {}
    /\ sendBuf = [n \in Ids |-> <<>>]
    /\ recvBuf = [n \in Ids |-> <<>>]
    /\ got = [n \in Ids |-> {}]
    /\ disturbed = FALSE

Full(box) == Len(box) = BoxMax

(* hc_push_buffer drops what finds the buffer full. *)
Pushed(box, p) == IF Full(box) THEN box ELSE Append(box, p)

Originate(o) ==
    /\ o \in waiting
    /\ waiting' = waiting \ {o}
    /\ sent' = sent \cup {o}
    /\ sendBuf' = [sendBuf EXCEPT ![o.source] = Pushed(@, Noted(Encode[Compose(o)]))]
    /\ disturbed' = (disturbed \/ Full(sendBuf[o.source]))
    /\ UNCHANGED <<trusts, recvBuf, got>>

(* The send task; the multicast gets to the devices of R. *)
Send(n) ==
    /\ sendBuf[n] # <<>>
    /\ sendBuf' = [sendBuf EXCEPT ![n] = Tail(@)]
    /\ \E R \in SUBSET Links[n] :
          /\ recvBuf' = [k \in Ids |-> IF k \in R
                                       THEN Pushed(recvBuf[k], Head(sendBuf[n]))
                                       ELSE recvBuf[k]]
          /\ disturbed' = (disturbed \/ R # Links[n] \/ \E k \in R : Full(recvBuf[k]))
    /\ UNCHANGED <<trusts, waiting, sent, got>>

(* Mutant of SenderTrusted: the device the copy comes from is tested. *)
PreviousTrusted(n, m) == m.previous \in trusts[n]

(* spt_overlay_sender_trusted: the source, whoever sent this copy. *)
SenderTrusted(n, m) == m.source \in trusts[n]

Accepted(n, m) ==
    m.ext # Unreadable /\ SenderTrusted(n, m) /\ ~OnRecord(m, n)

(* Mutant of Bounce: what is not taken in is put back for later.           *)
BounceRequeue(n) ==
    /\ recvBuf[n] # <<>>
    /\ \E m \in {Parse(Head(recvBuf[n]).wire)} : ~Accepted(n, m)
    /\ recvBuf' = [recvBuf EXCEPT ![n] = Append(Tail(@), Head(@))]
    /\ UNCHANGED <<trusts, waiting, sent, sendBuf, got, disturbed>>

(* hc_forward returns early: unreadable, not trusted, or on the record. *)
Bounce(n) ==
    /\ recvBuf[n] # <<>>
    /\ \E m \in {Parse(Head(recvBuf[n]).wire)} : ~Accepted(n, m)
    /\ recvBuf' = [recvBuf EXCEPT ![n] = Tail(@)]
    /\ UNCHANGED <<trusts, waiting, sent, sendBuf, got, disturbed>>

(* The callback gets the primary payload. Without one its arguments are    *)
(* uninitialised (hc_engine.c:105-107), here the extension's free slot.    *)
Forward(n) ==
    /\ recvBuf[n] # <<>>
    /\ \E m \in {Parse(Head(recvBuf[n]).wire)} :
       /\ Accepted(n, m)
       /\ recvBuf' = [recvBuf EXCEPT ![n] = Tail(@)]
       /\ \E f \in {Encode[Forwarded(m, n)]} :
             sendBuf' = [sendBuf EXCEPT ![n] = Pushed(@, Noted(f))]
       /\ got' = [got EXCEPT ![n] = @ \cup {Retrieve(m.ext, Payload).data}]
    /\ disturbed' = (disturbed \/ Full(sendBuf[n]))
    /\ UNCHANGED <<trusts, waiting, sent>>

(* Beacons and timeouts change a neighborhood table. *)
Retrust(n) ==
    /\ \E T \in SUBSET Sources : T # trusts[n] /\ trusts' = [trusts EXCEPT ![n] = T]
    /\ disturbed' = TRUE
    /\ UNCHANGED <<waiting, sent, sendBuf, recvBuf, got>>

Next ==
    \/ \E o \in Originals : Originate(o)
    \/ \E n \in Ids : Send(n) \/ Forward(n) \/ Bounce(n) \/ Retrust(n)

Spec == Init /\ [][Next]_vars

(* Tasks that have packets do not all stop: less than what the scheduler   *)
(* gives every one of them.                                                *)
FairSpec ==
    /\ Spec
    /\ WF_vars(\E n \in Ids : Send(n) \/ Forward(n) \/ Bounce(n))

-----------------------------------------------------------------------------
(* Through encoding and parsing at every hop, the network floods: each     *)
(* device that takes a payload in passes on that payload, its trail and    *)
(* itself (hc_engine.c:66-110).                                            *)
FloodSpec == Flood!Spec

(* No copy comes by a device twice, whatever trust does. *)
TrailsSimple == Flood!TrailsSimple

(* The unchecked, wrapping hopLimit counts the hops. *)
HopsCounted == Flood!HopsCounted

(* Every original's flood dies out. *)
Quiesces == <>[](\A n \in Ids : sendBuf[n] = <<>> /\ recvBuf[n] = <<>>)

(* A device that trusts a source has the payload once a device it hears    *)
(* has it.                                                                 *)
Complete ==
    \A o \in sent : \A n \in Ids \ {o.source}, k \in Ids :
       o.source \in trusts[n] /\ n \in Links[k]
          /\ (k = o.source \/ o.payload \in got[k])
       => o.payload \in got[n]

(* If nothing is lost and no table changes, a payload gets to all devices  *)
(* that trust its source along paths of such devices: bouncing copies by   *)
(* their trail never cuts off a device that has not had one.               *)
Reaches == <>[](disturbed \/ Complete)

(* "Now we need to track extensionLength so the next one starts in the     *)
(* right place" (hc_overlay.c:54): every packet parses to a message with   *)
(* the extensions its source put in.                                       *)
ExtensionsRead ==
    \A n \in Ids : \A c \in Air[n] :
       c # Unreadable /\ \E o \in sent : c.source = o.source /\ c.payload = o.payload
=============================================================================
