------------------------------- MODULE Overlay -------------------------------
(***************************************************************************)
(* Overlay messages in memory and on the wire (hc_overlay.c). In memory a  *)
(* message has a small open-addressed table of extensions, each with its   *)
(* place in the message; on the wire an extension is                       *)
(*     type of the next one, 1, length, data                               *)
(* and the header names the type of the first. The fixed header fields are *)
(* a record, the extensions a sequence of bytes with Byte values each.     *)
(***************************************************************************)
EXTENDS Integers, SequencesExt

CONSTANTS
    Byte,          \* 256
    MaxExtensions, \* 10
    HopWord        \* 65536: hopLimit is a uint16_t

Payload == 2
RouteRecord == 3

ASSUME OverlayAssumption ==
    /\ {Byte, MaxExtensions, HopWord} \subseteq Nat \ {0}
    /\ RouteRecord < MaxExtensions
    /\ RouteRecord < Byte

Slots == 0 .. MaxExtensions - 1
Extension == [type : Nat, order : Nat, data : Seq(Nat)]
Tables == [Slots -> Extension]
Messages == [hops : Nat, source : Nat, previous : Nat, ext : Tables]
Free == [type |-> 0, order |-> 0, data |-> <<>>]
NoExtensions == [s \in Slots |-> Free]

-----------------------------------------------------------------------------
(* The table of extensions: linear probing from the slot of the type.      *)
Probe(type, i) == (type + i) % MaxExtensions

Vacant(table, type) == {i \in Slots : table[Probe(type, i)] = Free}

Insert(table, ext) ==
    LET room == Vacant(table, ext.type) IN
    IF room = {} THEN table
    ELSE [table EXCEPT ![Probe(ext.type, Min(room))] = ext]

(* The first of its type before a vacant slot; Free if there is none. *)
Retrieve(table, type) ==
    LET hits == {i \in Slots : /\ table[Probe(type, i)].type = type
                               /\ \A k \in Vacant(table, type) : i < k} IN
    IF hits = {} THEN Free ELSE table[Probe(type, Min(hits))]

NextOrder(table) == Max({table[s].order : s \in Slots}) + 1

-----------------------------------------------------------------------------
(* Numbers are big-endian. One that is read past the end of the packet is  *)
(* -1, which an address field of four bytes takes for its largest value.   *)
High(a) == a \div Byte

Digits(a) ==
    <<High(High(High(a))) % Byte, High(High(a)) % Byte, High(a) % Byte, a % Byte>>

Number(bytes, at) == IF Len(bytes) <= at THEN -1 ELSE bytes[at + 1]

Address(bytes, at) ==
    IF Len(bytes) < at + 4 THEN Byte * Byte * Byte * Byte - 1
    ELSE ((bytes[at + 1] * Byte + bytes[at + 2]) * Byte + bytes[at + 3]) * Byte
            + bytes[at + 4]

(* What the parser makes of the extension whose bytes start at `at`.       *)
ReadPayload(bytes, at) ==
    SubSeq(bytes, at + 4, at + 3 + (Number(bytes, at + 2) % Byte))

ReadRecord(bytes, at) ==
    [i \in 1 .. Number(bytes, at + 2) \div 4 |-> Address(bytes, at + 3 + (i - 1) * 4)]

(* A payload of no bytes or beyond the packet fails the whole parse. *)
PayloadFails(bytes, at) ==
    LET length == Number(bytes, at + 2) % Byte IN
    length = 0 \/ Len(bytes) < at + 3 + length

Unreadable == <<>>

(* The parser's loop over the extensions ends at type 0, at a type it does *)
(* not know, where the table is full, and where a payload fails.           *)
Over(loop) ==
    \/ loop.type \notin {Payload, RouteRecord}
    \/ /\ Vacant(loop.table, loop.type) = {}
       /\ loop.type = Payload => ~PayloadFails(loop.bytes, loop.at)

Loops == [bytes : Seq(Nat), table : Tables \cup {Unreadable}, order : Nat,
          type : Int, at : Nat, length : Nat]

(* The step to the next extension is 2 bytes and extensionLength, which    *)
(* only a payload sets: past a route record it is that of the payload      *)
(* before it, or 0.                                                        *)
Turn[loop \in Loops] ==
    LET data == IF loop.type = Payload THEN ReadPayload(loop.bytes, loop.at)
                ELSE ReadRecord(loop.bytes, loop.at)
        length == IF loop.type = Payload THEN Len(data) + 1 ELSE loop.length
    IN IF Over(loop) THEN loop
       ELSE IF loop.type = Payload /\ PayloadFails(loop.bytes, loop.at)
       THEN [loop EXCEPT !.table = Unreadable, !.type = 0]
       ELSE [loop EXCEPT
               !.table = Insert(@, [type |-> loop.type, order |-> loop.order,
                                    data |-> data]),
               !.order = @ + 1, !.type = Number(loop.bytes, loop.at),
               !.at = @ + 2 + length, !.length = length]

(* Read[k] is where the loop is after k turns; every one takes a slot.     *)
Extensions(bytes, first) ==
    LET Read[k \in Nat] ==
          IF k = 0 THEN [bytes |-> bytes, table |-> NoExtensions, order |-> 1,
                         type |-> first, at |-> 0, length |-> 0]
          ELSE Turn[Read[k - 1]]
    IN Read[MaxExtensions + 1].table

(* hc_msg_overlay_parse; a message without `ext` stands for NULL. *)
Parse(packet) ==
    [hops |-> packet.hops, source |-> packet.source, previous |-> packet.previous,
     ext |-> Extensions(packet.bytes, packet.first)]

-----------------------------------------------------------------------------
WireData(ext) ==
    IF ext.type = Payload THEN ext.data
    ELSE [i \in 1 .. 4 * Len(ext.data) |->
            Digits(ext.data[((i - 1) \div 4) + 1])[((i - 1) % 4) + 1]]

(* An extension is preceded by the type of the next and by its length,     *)
(* modulo a byte; the data is written whole.                               *)
Written(ext, next) == <<next, 1, Len(WireData(ext)) % Byte>> \o WireData(ext)

Wire[exts \in Seq(Extension)] ==
    LET Bytes[k \in 0 .. Len(exts)] ==
          IF k = 0 THEN <<>>
          ELSE Bytes[k - 1] \o Written(exts[k], IF k = Len(exts) THEN 0
                                                ELSE exts[k + 1].type)
    IN Bytes[Len(exts)]

OfOrder(table, k) == {s \in Slots : table[s].order = k}

(* The extensions of orders 1, 2, ... up to the first order missing. *)
Ordered(table) ==
    LET found == {k \in 0 .. MaxExtensions : \A i \in 1 .. k : OfOrder(table, i) # {}}
    IN [k \in 1 .. Max(found) |-> table[Min(OfOrder(table, k))]]

(* hc_msg_overlay_encode *)
Encode[m \in Messages] ==
    [hops |-> m.hops, source |-> m.source, previous |-> m.previous,
     first |-> LET exts == Ordered(m.ext)
               IN IF exts = <<>> THEN 0 ELSE exts[1].type,
     bytes |-> Wire[Ordered(m.ext)]]

-----------------------------------------------------------------------------
(* Handling of the route record. *)

(* Mutant of OnRecord: only the last hop is compared. *)
OnRecordLast(m, n) ==
    LET record == Retrieve(m.ext, RouteRecord).data IN
    record # <<>> /\ Last(record) = n

OnRecord(m, n) == Contains(Retrieve(m.ext, RouteRecord).data, n)

(* A missing record is begun with the source; one that finds no slot is    *)
(* lost again. An existing one is extended where it is.                    *)
Record(table, source, n) ==
    LET old == Retrieve(table, RouteRecord) IN
    IF old = Free
    THEN Insert(table, [type |-> RouteRecord, order |-> NextOrder(table),
                        data |-> <<source, n>>])
    ELSE [s \in Slots |-> IF table[s] = old
                          THEN [old EXCEPT !.data = Append(old.data, n)]
                          ELSE table[s]]

(* Mutant of Forwarded: the hop limit stays. *)
ForwardedSameHops(m, n) ==
    [hops |-> m.hops, source |-> m.source, previous |-> n,
     ext |-> Record(m.ext, m.source, n)]

(* Mutant of Forwarded: a missing record is not begun. *)
ForwardedUnrecorded(m, n) ==
    [hops |-> (m.hops - 1) % HopWord, source |-> m.source, previous |-> n,
     ext |-> IF Retrieve(m.ext, RouteRecord) = Free THEN m.ext
             ELSE Record(m.ext, m.source, n)]

(* What hc_forward sends on. *)
Forwarded(m, n) ==
    [hops |-> (m.hops - 1) % HopWord, source |-> m.source, previous |-> n,
     ext |-> Record(m.ext, m.source, n)]
=============================================================================
