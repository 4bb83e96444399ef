-------------------------- MODULE OverlayNetProofs --------------------------
(***************************************************************************)
(* What this repository composes and forwards is, at every hop, parsed to  *)
(* what was encoded, and the network of devices that forward by hc_forward *)
(* is a flood: Spec implements Flooding, for every network of devices      *)
(* whose addresses fit the route record and its length byte.               *)
(*                                                                         *)
(* Inductive: every packet in a buffer carries a good copy (Held), which   *)
(* ends at the device while it waits to be sent and elsewhere while it     *)
(* waits to be taken in (Sided), and the ways of any two packets part      *)
(* before either ends (Apart). So of the copies on the way to a device     *)
(* none is there twice, and the one it takes in is gone.                   *)
(***************************************************************************)
EXTENDS OverlayNet, FiniteSetTheorems, TLAPS

-----------------------------------------------------------------------------
(* Tables of extensions. p is a payload, r a route record. *)

Data(p) == [type |-> Payload, order |-> 1, data |-> p]
Route(r) == [type |-> RouteRecord, order |-> 2, data |-> r]
Bare(p) == [s \in Slots |-> IF s = Payload THEN Data(p) ELSE Free]
Routed(p, r) == [s \in Slots |-> IF s = Payload THEN Data(p)
                                 ELSE IF s = RouteRecord THEN Route(r) ELSE Free]

(* The least of a set of naturals with 0. *)
LEMMA MinZero ==
    ASSUME NEW S \in SUBSET Nat, 0 \in S
    PROVE  Min(S) = 0
<1>1. \E x \in S : \A y \in S : x <= y
  BY \A y \in S : 0 <= y
<1>. DEFINE m == Min(S)
<1>2. m \in S /\ \A y \in S : m <= y
  BY <1>1, Zenon DEF Min
<1>. HIDE DEF m
<1>3. m = 0
  BY <1>2
<1>. QED  BY <1>3 DEF m

(* The least of one number. *)
LEMMA MinSingle ==
    ASSUME NEW n \in Nat
    PROVE  Min({n}) = n
  BY DEF Min

(* An upper bound in the set is its greatest. *)
LEMMA MaxIs ==
    ASSUME NEW S \in SUBSET Nat, NEW n \in S, \A k \in S : k <= n
    PROVE  Max(S) = n
<1>1. \E x \in S : \A y \in S : x >= y
  BY \A y \in S : n >= y
<1>. DEFINE m == Max(S)
<1>2. m \in S /\ \A y \in S : m >= y
  BY <1>1, Zenon DEF Max
<1>. HIDE DEF m
<1>3. m = n
  BY <1>2
<1>. QED  BY <1>3 DEF m

(* The tables a message of this repository goes through, and their slots. *)
LEMMA TablesType ==
    ASSUME NEW p \in Seq(Nat), NEW r \in Seq(Nat)
    PROVE  /\ Data(p) \in Extension /\ Route(r) \in Extension /\ Free \in Extension
           /\ {NoExtensions, Bare(p), Routed(p, r)} \subseteq Tables
           /\ Data(p) # Free /\ Route(r) # Free
<1>1. Data(p) \in Extension /\ Route(r) \in Extension /\ Free \in Extension
  BY DEF Data, Route, Free, Extension, Payload, RouteRecord
<1>2. Data(p).type # Free.type /\ Route(r).type # Free.type
  BY DEF Data, Route, Free, Payload, RouteRecord
<1>. QED
  BY <1>1, <1>2 DEF Tables, NoExtensions, Bare, Routed

(* Probing starts at the slot of the type. *)
LEMMA Places ==
    /\ MaxExtensions \in Nat /\ 0 \in Slots
    /\ Payload \in Slots /\ RouteRecord \in Slots /\ Payload # RouteRecord
    /\ \A i \in Slots : \A type \in Nat : Probe(type, i) \in Slots
    /\ Probe(Payload, 0) = Payload
    /\ Probe(RouteRecord, 0) = RouteRecord
  BY OverlayAssumption DEF Slots, Payload, RouteRecord, Probe

(* An extension whose own slot is vacant gets it ... *)
LEMMA InsertFirst ==
    ASSUME NEW table \in Tables, NEW ext \in Extension,
           ext.type \in {Payload, RouteRecord}, table[ext.type] = Free
    PROVE  Insert(table, ext) = [table EXCEPT ![ext.type] = ext]
<1>1. 0 \in Vacant(table, ext.type) /\ Vacant(table, ext.type) \subseteq Nat
  <2>1. Probe(ext.type, 0) = ext.type
    <3>1. CASE ext.type = Payload
      BY <3>1, Places
    <3>2. CASE ext.type = RouteRecord
      BY <3>2, Places
    <3>. QED  BY <3>1, <3>2
  <2>2. Slots \subseteq Nat
    BY Places DEF Slots
  <2>. QED  BY <2>1, <2>2, Places DEF Vacant
<1>2. Min(Vacant(table, ext.type)) = 0
  BY <1>1, MinZero
<1>3. Insert(table, ext) = [table EXCEPT ![Probe(ext.type, 0)] = ext]
  BY <1>1, <1>2 DEF Insert
<1>. QED
  BY <1>3, Places

(* ... and is found there; a vacant slot ends the search. *)
LEMMA RetrieveFirst ==
    ASSUME NEW table \in Tables, NEW type \in {Payload, RouteRecord}
    PROVE  /\ table[type].type = type => Retrieve(table, type) = table[type]
           /\ table[type] = Free => Retrieve(table, type) = Free
<1>. DEFINE hits == {i \in Slots : /\ table[Probe(type, i)].type = type
                                  /\ \A k \in Vacant(table, type) : i < k}
<1>1. type \in Nat /\ Probe(type, 0) = type /\ 0 \in Slots /\ Slots \subseteq Nat
  <2>1. type \in Nat /\ Probe(type, 0) = type
    <3>1. CASE type = Payload
      BY <3>1, Places DEF Payload
    <3>2. CASE type = RouteRecord
      BY <3>2, Places DEF RouteRecord
    <3>. QED  BY <3>1, <3>2
  <2>. QED  BY <2>1, Places DEF Slots
<1>2. Retrieve(table, type) = IF hits = {} THEN Free ELSE table[Probe(type, Min(hits))]
  BY <1>1 DEF Retrieve
<1>3. ASSUME table[type].type = type
      PROVE  Retrieve(table, type) = table[type]
  <2>1. \A k \in Vacant(table, type) : k \in Nat /\ k # 0
    <3>1. type # 0
      BY DEF Payload, RouteRecord
    <3>. QED  BY <1>1, <1>3, <3>1 DEF Vacant, Free
  <2>2. 0 \in hits /\ hits \subseteq Nat
    <3>1. table[Probe(type, 0)].type = type
      BY <1>1, <1>3
    <3>2. \A k \in Vacant(table, type) : 0 < k
      BY <2>1
    <3>. QED  BY <1>1, <3>1, <3>2
  <2>3. Min(hits) = 0
    BY <2>2, MinZero
  <2>. HIDE DEF hits
  <2>. QED  BY <1>1, <1>2, <2>2, <2>3
<1>4. ASSUME table[type] = Free
      PROVE  Retrieve(table, type) = Free
  <2>1. 0 \in Vacant(table, type)
    BY <1>1, <1>4 DEF Vacant
  <2>2. hits = {}
    <3>1. \A i \in Slots : ~(i < 0)
      BY <1>1
    <3>. QED  BY <2>1, <3>1
  <2>. QED  BY <1>2, <2>2
<1>. QED  BY <1>3, <1>4

(* How hc_msg_overlay_init_with_payload and the parser fill a table. *)
LEMMA Filling ==
    ASSUME NEW p \in Seq(Nat), NEW r \in Seq(Nat)
    PROVE  /\ Insert(NoExtensions, Data(p)) = Bare(p)
           /\ Insert(Bare(p), Route(r)) = Routed(p, r)
<1>1. Data(p).type = Payload /\ Route(r).type = RouteRecord
  BY DEF Data, Route
<1>2. NoExtensions[Payload] = Free /\ Bare(p)[RouteRecord] = Free
  BY Places DEF NoExtensions, Bare
<1>3. Insert(NoExtensions, Data(p)) = [NoExtensions EXCEPT ![Payload] = Data(p)]
  BY <1>1, <1>2, InsertFirst, TablesType
<1>4. Insert(Bare(p), Route(r)) = [Bare(p) EXCEPT ![RouteRecord] = Route(r)]
  BY <1>1, <1>2, InsertFirst, TablesType
<1>5. [NoExtensions EXCEPT ![Payload] = Data(p)] = Bare(p)
  BY Places DEF NoExtensions, Bare
<1>6. [Bare(p) EXCEPT ![RouteRecord] = Route(r)] = Routed(p, r)
  BY Places DEF Bare, Routed
<1>. QED  BY <1>3, <1>4, <1>5, <1>6

(* What is found in such a table. *)
LEMMA Finding ==
    ASSUME NEW p \in Seq(Nat), NEW r \in Seq(Nat)
    PROVE  /\ Retrieve(Bare(p), Payload) = Data(p)
           /\ Retrieve(Bare(p), RouteRecord) = Free
           /\ Retrieve(Routed(p, r), Payload) = Data(p)
           /\ Retrieve(Routed(p, r), RouteRecord) = Route(r)
<1>1. /\ Bare(p)[Payload] = Data(p) /\ Bare(p)[RouteRecord] = Free
      /\ Routed(p, r)[Payload] = Data(p) /\ Routed(p, r)[RouteRecord] = Route(r)
  BY Places DEF Bare, Routed
<1>2. Data(p).type = Payload /\ Route(r).type = RouteRecord
  BY DEF Data, Route
<1>. QED
  BY <1>1, <1>2, RetrieveFirst, TablesType

(* Adding a device to the route record begins one, or extends it in        *)
(* place.                                                                  *)
LEMMA Recording ==
    ASSUME NEW p \in Seq(Nat), NEW r \in Seq(Nat), NEW s \in Nat, NEW n \in Nat
    PROVE  /\ Record(Bare(p), s, n) = Routed(p, <<s, n>>)
           /\ Record(Routed(p, r), s, n) = Routed(p, Append(r, n))
<1>1. NextOrder(Bare(p)) = 2
  <2>. DEFINE orders == {Bare(p)[x].order : x \in Slots}
  <2>1. orders = {0, 1}
    <3>1. Data(p).order = 1 /\ Free.order = 0
      BY DEF Data, Free
    <3>2. \A x \in Slots : Bare(p)[x].order = IF x = Payload THEN 1 ELSE 0
      BY <3>1 DEF Bare
    <3>3. 0 \in Slots /\ Payload \in Slots /\ 0 # Payload
      BY Places DEF Payload
    <3>4. 0 \in orders /\ 1 \in orders /\ \A k \in orders : k \in {0, 1}
      BY ONLY <3>2, <3>3
    <3>. QED  BY ONLY <3>4
  <2>2. Max({0, 1}) = 1
    BY MaxIs
  <2>3. NextOrder(Bare(p)) = Max(orders) + 1
    BY DEF NextOrder
  <2>. HIDE DEF orders
  <2>. QED  BY <2>1, <2>2, <2>3
<1>2. Record(Bare(p), s, n) = Insert(Bare(p), Route(<<s, n>>))
  <2>1. Retrieve(Bare(p), RouteRecord) = Free /\ Bare(p) \in Tables
    BY Finding, TablesType
  <2>. QED  BY <1>1, <2>1 DEF Record, Route
<1>3. Insert(Bare(p), Route(<<s, n>>)) = Routed(p, <<s, n>>)
  <2>1. <<s, n>> \in Seq(Nat)
    OBVIOUS
  <2>. QED  BY <2>1, Filling
<1>4. Record(Routed(p, r), s, n) =
        [x \in Slots |-> IF Routed(p, r)[x] = Route(r)
                         THEN [Route(r) EXCEPT !.data = Append(Route(r).data, n)]
                         ELSE Routed(p, r)[x]]
  <2>1. Retrieve(Routed(p, r), RouteRecord) = Route(r) /\ Routed(p, r) \in Tables
        /\ Route(r) # Free
    BY Finding, TablesType
  <2>. QED  BY <2>1 DEF Record
<1>5. [Route(r) EXCEPT !.data = Append(Route(r).data, n)] = Route(Append(r, n))
  <2>1. \A q : [Route(r) EXCEPT !.data = q] = Route(q)
    BY DEF Route
  <2>2. Route(r).data = r
    BY DEF Route
  <2>. QED  BY <2>1, <2>2
<1>6. Data(p) # Route(r) /\ Free # Route(r)
  BY TablesType DEF Data, Route, Payload, RouteRecord
<1>. QED
  BY <1>2, <1>3, <1>4, <1>5, <1>6, Places DEF Routed

(* The encoder's loop over the orders of the extensions. *)
LEMMA OrderedBare ==
    ASSUME NEW p \in Seq(Nat)
    PROVE  Ordered(Bare(p)) = <<Data(p)>>
<1>. DEFINE table == Bare(p)
            found == {k \in 0 .. MaxExtensions :
                        \A i \in 1 .. k : OfOrder(table, i) # {}}
<1>1. Data(p).order = 1 /\ Free.order = 0
  BY DEF Data, Free
<1>2. OfOrder(table, 1) = {Payload} /\ OfOrder(table, 2) = {}
  BY <1>1, Places DEF OfOrder, Bare
<1>3. found \subseteq Nat /\ 1 \in found /\ \A k \in found : k <= 1
  <2>1. MaxExtensions > 3 /\ MaxExtensions \in Nat
    BY OverlayAssumption DEF RouteRecord
  <2>2. 1 \in found
    <3>1. \A i \in 1 .. 1 : i = 1
      OBVIOUS
    <3>2. \A i \in 1 .. 1 : OfOrder(table, i) # {}
      BY <1>2, <3>1
    <3>. QED  BY <2>1, <3>2
  <2>3. ASSUME NEW k \in found, k > 1 PROVE FALSE
    BY <1>2, <2>1, <2>3
  <2>4. found \subseteq Nat
    OBVIOUS
  <2>. HIDE DEF found
  <2>. QED  BY <2>2, <2>3, <2>4
<1>4. Max(found) = 1
  <2>. HIDE DEF found
  <2>. QED  BY <1>3, MaxIs
<1>5. Min(OfOrder(table, 1)) = Payload
  BY <1>2, MinSingle DEF Payload
<1>6. Ordered(table) = [k \in 1 .. Max(found) |-> table[Min(OfOrder(table, k))]]
  BY DEF Ordered
<1>7. table[Payload] = Data(p)
  BY Places DEF Bare
<1>. HIDE DEF table, found
<1>8. Ordered(table) = [k \in 1 .. 1 |-> Data(p)]
  BY <1>4, <1>5, <1>6, <1>7
<1>9. [k \in 1 .. 1 |-> Data(p)] = <<Data(p)>>
  OBVIOUS
<1>. QED  BY <1>8, <1>9 DEF table

(* ... for both tables. *)
LEMMA OrderedRouted ==
    ASSUME NEW p \in Seq(Nat), NEW r \in Seq(Nat)
    PROVE  Ordered(Routed(p, r)) = <<Data(p), Route(r)>>
<1>. DEFINE table == Routed(p, r)
            found == {k \in 0 .. MaxExtensions :
                        \A i \in 1 .. k : OfOrder(table, i) # {}}
<1>1. Data(p).order = 1 /\ Route(r).order = 2 /\ Free.order = 0
  BY DEF Data, Route, Free
<1>2. /\ OfOrder(table, 1) = {Payload}
      /\ OfOrder(table, 2) = {RouteRecord}
      /\ OfOrder(table, 3) = {}
  <2>1. \A s \in Slots : table[s].order = IF s = Payload THEN 1
                                          ELSE IF s = RouteRecord THEN 2 ELSE 0
    BY <1>1 DEF Routed
  <2>. HIDE DEF table
  <2>2. \A s \in Slots : \A k : s \in OfOrder(table, k) <=> table[s].order = k
    BY DEF OfOrder
  <2>3. \A k : OfOrder(table, k) \subseteq Slots
    BY DEF OfOrder
  <2>0. Payload \in Slots /\ RouteRecord \in Slots /\ Payload # RouteRecord
    BY Places
  <2>4. OfOrder(table, 1) = {Payload}
    <3>1. \A s : s \in OfOrder(table, 1) <=> s = Payload
      BY ONLY <2>0, <2>1, <2>2, <2>3
    <3>. QED  BY ONLY <3>1
  <2>5. OfOrder(table, 2) = {RouteRecord}
    <3>1. \A s : s \in OfOrder(table, 2) <=> s = RouteRecord
      BY ONLY <2>0, <2>1, <2>2, <2>3
    <3>. QED  BY ONLY <3>1
  <2>6. OfOrder(table, 3) = {}
    <3>1. \A s : s \notin OfOrder(table, 3)
      BY ONLY <2>1, <2>2, <2>3
    <3>. QED  BY ONLY <3>1
  <2>. QED  BY <2>4, <2>5, <2>6
<1>3. found \subseteq Nat /\ 2 \in found /\ \A k \in found : k <= 2
  <2>1. MaxExtensions > 3 /\ MaxExtensions \in Nat
    BY OverlayAssumption DEF RouteRecord
  <2>2. 2 \in found
    <3>1. \A i \in 1 .. 2 : i = 1 \/ i = 2
      OBVIOUS
    <3>2. \A i \in 1 .. 2 : OfOrder(table, i) # {}
      BY <1>2, <3>1
    <3>. QED  BY <2>1, <3>2
  <2>3. ASSUME NEW k \in found, k > 2 PROVE FALSE
    BY <1>2, <2>1, <2>3
  <2>4. found \subseteq Nat
    OBVIOUS
  <2>. HIDE DEF found
  <2>. QED  BY <2>2, <2>3, <2>4
<1>4. Max(found) = 2
  <2>. HIDE DEF found
  <2>. QED  BY <1>3, MaxIs
<1>5. Min(OfOrder(table, 1)) = Payload /\ Min(OfOrder(table, 2)) = RouteRecord
  BY <1>2, MinSingle DEF Payload, RouteRecord
<1>6. Ordered(table) = [k \in 1 .. Max(found) |-> table[Min(OfOrder(table, k))]]
  BY DEF Ordered
<1>7. table[Payload] = Data(p) /\ table[RouteRecord] = Route(r)
  BY Places DEF Routed
<1>. HIDE DEF table, found
<1>8. Ordered(table) = [k \in 1 .. 2 |-> IF k = 1 THEN Data(p) ELSE Route(r)]
  BY <1>4, <1>5, <1>6, <1>7
<1>9. [k \in 1 .. 2 |-> IF k = 1 THEN Data(p) ELSE Route(r)] = <<Data(p), Route(r)>>
  OBVIOUS
<1>. QED  BY <1>8, <1>9 DEF table

(* A payload on the wire. *)
LEMMA WrittenType ==
    ASSUME NEW p \in Seq(Nat), NEW n \in Nat
    PROVE  /\ Written(Data(p), n) = <<n, 1, Len(p) % Byte>> \o p
           /\ Written(Data(p), n) \in Seq(Nat)
<1>1. WireData(Data(p)) = p
  BY DEF WireData, Data
<1>2. Len(p) % Byte \in Nat
  BY OverlayAssumption
<1>. QED
  BY <1>1, <1>2 DEF Written

(* One extension is the last, so it is followed by type 0. *)
LEMMA WireOne ==
    ASSUME NEW e \in Extension, Written(e, 0) \in Seq(Nat)
    PROVE  Wire[<<e>>] = Written(e, 0)
<1>. DEFINE exts == <<e>>
            W(k) == Written(exts[k], IF k = Len(exts) THEN 0 ELSE exts[k + 1].type)
            Bytes == CHOOSE Bytes :
                       Bytes = [k \in 0 .. Len(exts) |->
                                  IF k = 0 THEN <<>> ELSE Bytes[k - 1] \o W(k)]
            F == [k \in 0 .. 1 |-> IF k = 0 THEN <<>> ELSE Written(e, 0)]
<1>1. exts \in Seq(Extension) /\ Len(exts) = 1 /\ exts[1] = e
  OBVIOUS
<1>2. Wire[exts] = Bytes[Len(exts)]
  BY <1>1 DEF Wire
<1>3. W(1) = Written(e, 0)
  BY <1>1
<1>4. F = [k \in 0 .. Len(exts) |-> IF k = 0 THEN <<>> ELSE F[k - 1] \o W(k)]
  <2>1. \A k \in 0 .. 1 : F[k] = IF k = 0 THEN <<>> ELSE F[k - 1] \o W(k)
    <3>1. F[0] = <<>>
      OBVIOUS
    <3>2. F[1] = F[0] \o W(1)
      BY <1>3, <3>1
    <3>3. \A k \in 0 .. 1 : k = 0 \/ (k = 1 /\ k - 1 = 0)
      OBVIOUS
    <3>. HIDE DEF F, W
    <3>. QED  BY <3>1, <3>2, <3>3
  <2>. HIDE DEF W
  <2>. QED  BY <1>1, <2>1
<1>. HIDE DEF F, W, exts
<1>5. Bytes = [k \in 0 .. Len(exts) |-> IF k = 0 THEN <<>> ELSE Bytes[k - 1] \o W(k)]
  BY <1>4, Zenon
<1>. HIDE DEF Bytes
<1>6. Bytes[0] = <<>> /\ Bytes[1] = Bytes[0] \o W(1)
  BY <1>1, <1>5
<1>. QED
  BY <1>1, <1>2, <1>3, <1>6 DEF exts

(* Of two, the first announces the type of the second. *)
LEMMA WireTwo ==
    ASSUME NEW d \in Extension, NEW e \in Extension,
           Written(d, e.type) \in Seq(Nat), Written(e, 0) \in Seq(Nat)
    PROVE  Wire[<<d, e>>] = Written(d, e.type) \o Written(e, 0)
<1>. DEFINE exts == <<d, e>>
            W(k) == Written(exts[k], IF k = Len(exts) THEN 0 ELSE exts[k + 1].type)
            Bytes == CHOOSE Bytes :
                       Bytes = [k \in 0 .. Len(exts) |->
                                  IF k = 0 THEN <<>> ELSE Bytes[k - 1] \o W(k)]
            F == [k \in 0 .. 2 |-> IF k = 0 THEN <<>>
                                   ELSE IF k = 1 THEN Written(d, e.type)
                                   ELSE Written(d, e.type) \o Written(e, 0)]
<1>1. exts \in Seq(Extension) /\ Len(exts) = 2 /\ exts[1] = d /\ exts[2] = e
  OBVIOUS
<1>2. Wire[exts] = Bytes[Len(exts)]
  BY <1>1 DEF Wire
<1>3. W(1) = Written(d, e.type) /\ W(2) = Written(e, 0)
  BY <1>1
<1>4. F = [k \in 0 .. Len(exts) |-> IF k = 0 THEN <<>> ELSE F[k - 1] \o W(k)]
  <2>1. \A k \in 0 .. 2 : F[k] = IF k = 0 THEN <<>> ELSE F[k - 1] \o W(k)
    <3>1. F[0] = <<>>
      OBVIOUS
    <3>2. F[1] = F[0] \o W(1)
      BY <1>3, <3>1
    <3>3. F[2] = F[1] \o W(2)
      BY <1>3
    <3>4. \A k \in 0 .. 2 : k = 0 \/ (k = 1 /\ k - 1 = 0) \/ (k = 2 /\ k - 1 = 1)
      OBVIOUS
    <3>. HIDE DEF F, W
    <3>. QED  BY <3>1, <3>2, <3>3, <3>4
  <2>. HIDE DEF W
  <2>. QED  BY <1>1, <2>1
<1>. HIDE DEF F, W, exts
<1>5. Bytes = [k \in 0 .. Len(exts) |-> IF k = 0 THEN <<>> ELSE Bytes[k - 1] \o W(k)]
  BY <1>4, Zenon
<1>. HIDE DEF Bytes
<1>6. Bytes[0] = <<>> /\ Bytes[1] = Bytes[0] \o W(1) /\ Bytes[2] = Bytes[1] \o W(2)
  <2>1. 1 \in 0 .. 2 /\ 2 \in 0 .. 2 /\ 0 \in 0 .. 2 /\ 1 - 1 = 0 /\ 2 - 1 = 1
    OBVIOUS
  <2>2. \A k \in 0 .. 2 : Bytes[k] = IF k = 0 THEN <<>> ELSE Bytes[k - 1] \o W(k)
    BY <1>1, <1>5
  <2>. QED  BY <2>1, <2>2
<1>7. Bytes[1] = Written(d, e.type)
  BY <1>3, <1>6
<1>. QED
  BY <1>1, <1>2, <1>3, <1>6, <1>7 DEF exts

-----------------------------------------------------------------------------
(* Numbers, and the parser's loop. *)

(* Induction, for a set of naturals: were m the least number left out, k   *)
(* + 1 would map 0 .. m - 1 one-to-one to a smaller set.                   *)
LEMMA NatInd ==
    ASSUME NEW P \in SUBSET Nat, 0 \in P, \A n \in P : n + 1 \in P
    PROVE  P = Nat
<1>. SUFFICES ASSUME NEW m \in Nat, m \notin P PROVE FALSE
  OBVIOUS
<1>. DEFINE A == {n \in 0 .. m : n \in P}
            B == A \ {0}
            f == [n \in A |-> n + 1]
<1>1. IsFiniteSet(A)
  <2>1. IsFiniteSet(0 .. m)
    BY FS_Interval
  <2>. QED  BY <2>1, FS_Subset
<1>2. 0 \in A
  OBVIOUS
<1>3. f \in [A -> B]
  OBVIOUS
<1>4. \A x, y \in A : f[x] = f[y] => x = y
  OBVIOUS
<1>. HIDE DEF A
<1>5. IsFiniteSet(B) /\ Cardinality(B) = Cardinality(A) - 1
  BY <1>1, <1>2, FS_RemoveElement
<1>6. Cardinality(A) \in Nat
  BY <1>1, FS_CardinalityType
<1>7. Cardinality(B) < Cardinality(A)
  BY <1>5, <1>6
<1>. HIDE DEF B, f
<1>. QED
  BY <1>1, <1>3, <1>4, <1>5, <1>7, FS_PigeonHole

(* A number is its high part and its last digit. *)
LEMMA HighRest ==
    ASSUME NEW a \in Nat
    PROVE  /\ High(a) \in Nat
           /\ a % Byte \in 0 .. Byte - 1
           /\ a = High(a) * Byte + (a % Byte)
<1>1. Byte \in Nat /\ Byte > 0
  BY OverlayAssumption
<1>2. a = Byte * (a \div Byte) + (a % Byte) /\ a \div Byte \in Int /\ a % Byte \in 0 .. Byte - 1
  BY <1>1
<1>3. a \div Byte >= 0
  BY <1>1
<1>4. Byte * (a \div Byte) = (a \div Byte) * Byte
  BY <1>1, <1>2
<1>. QED
  BY <1>2, <1>3, <1>4 DEF High

(* The high part has a digit less. *)
LEMMA HighBelow ==
    ASSUME NEW a \in Nat, NEW n \in Nat, a < n * Byte
    PROVE  High(a) < n
<1>1. Byte \in Nat /\ Byte > 0
  BY OverlayAssumption
<1>2. High(a) \in Nat /\ High(a) * Byte <= a
  <2>1. High(a) \in Nat /\ a = High(a) * Byte + (a % Byte) /\ a % Byte \in 0 .. Byte - 1
    BY HighRest
  <2>2. High(a) * Byte \in Int
    BY <1>1, <2>1
  <2>. QED  BY <2>1, <2>2
<1>. SUFFICES ASSUME High(a) >= n PROVE FALSE
  BY <1>2
<1>3. High(a) * Byte >= n * Byte
  BY <1>1, <1>2
<1>. QED
  BY <1>1, <1>2, <1>3

(* write_bytes, then packet_to_int: four digits give the address back. *)
LEMMA DigitsBack ==
    ASSUME NEW a \in Nat, a < Byte * Byte * Byte * Byte
    PROVE  /\ \A i \in 1 .. 4 : Digits(a)[i] \in 0 .. Byte - 1
           /\ ((Digits(a)[1] * Byte + Digits(a)[2]) * Byte + Digits(a)[3]) * Byte
                 + Digits(a)[4] = a
<1>. DEFINE b == High(a)
            c == High(b)
            d == High(c)
<1>1. Byte \in Nat /\ Byte > 0 /\ Byte * Byte \in Nat /\ Byte * Byte * Byte \in Nat
  BY OverlayAssumption
<1>2. b \in Nat /\ a = b * Byte + (a % Byte) /\ a % Byte \in 0 .. Byte - 1
  BY HighRest
<1>3. b < Byte * Byte * Byte
  BY <1>1, HighBelow
<1>. HIDE DEF b
<1>4. c \in Nat /\ b = c * Byte + (b % Byte) /\ b % Byte \in 0 .. Byte - 1
  BY <1>2, HighRest
<1>5. c < Byte * Byte
  BY <1>1, <1>2, <1>3, HighBelow
<1>. HIDE DEF c
<1>6. d \in Nat /\ c = d * Byte + (c % Byte) /\ c % Byte \in 0 .. Byte - 1
  BY <1>4, HighRest
<1>7. d < Byte
  BY <1>1, <1>4, <1>5, HighBelow
<1>. HIDE DEF d
<1>8. d % Byte = d
  BY <1>1, <1>6, <1>7
<1>9. Digits(a) = <<d % Byte, c % Byte, b % Byte, a % Byte>>
  BY DEF Digits, b, c, d
<1>. QED
  <2>1. /\ Digits(a)[1] = d /\ Digits(a)[2] = c % Byte
        /\ Digits(a)[3] = b % Byte /\ Digits(a)[4] = a % Byte
    BY <1>8, <1>9
  <2>2. \A i \in 1 .. 4 : Digits(a)[i] \in 0 .. Byte - 1
    BY <1>1, <1>2, <1>4, <1>6, <1>7, <2>1
  <2>. QED  BY <1>2, <1>4, <1>6, <2>1, <2>2

Start(bytes, first) ==
    [bytes |-> bytes, table |-> NoExtensions, order |-> 1, type |-> first,
     at |-> 0, length |-> 0]

(* The parser's loop, when it is over after two turns at most. *)
LEMMA LoopEnds ==
    ASSUME NEW bytes, NEW first, NEW one, NEW two,
           Turn[Start(bytes, first)] = one, Turn[one] = two, Turn[two] = two
    PROVE  Extensions(bytes, first) = two.table
<1>. DEFINE start == Start(bytes, first)
            Read == CHOOSE Read :
                      Read = [k \in Nat |-> IF k = 0 THEN start ELSE Turn[Read[k - 1]]]
            F == [k \in Nat |-> IF k = 0 THEN start ELSE IF k = 1 THEN one ELSE two]
<1>1. Extensions(bytes, first) = Read[MaxExtensions + 1].table
  BY DEF Extensions, Start
<1>2. F = [k \in Nat |-> IF k = 0 THEN start ELSE Turn[F[k - 1]]]
  <2>. HIDE DEF start
  <2>1. ASSUME NEW k \in Nat
        PROVE  F[k] = IF k = 0 THEN start ELSE Turn[F[k - 1]]
    <3>1. CASE k = 0
      BY <3>1
    <3>2. CASE k = 1
      <4>1. F[1] = one /\ F[0] = start /\ 1 - 1 = 0
        OBVIOUS
      <4>. HIDE DEF F
      <4>. QED  BY <3>2, <4>1 DEF start
    <3>3. CASE k = 2
      <4>1. F[2] = two /\ F[1] = one /\ 2 - 1 = 1
        OBVIOUS
      <4>. HIDE DEF F
      <4>. QED  BY <3>3, <4>1
    <3>4. CASE k > 2
      <4>1. F[k] = two /\ F[k - 1] = two
        BY <3>4
      <4>. HIDE DEF F
      <4>. QED  BY <3>4, <4>1
    <3>. QED  BY <3>1, <3>2, <3>3, <3>4
  <2>. QED  BY <2>1
<1>. HIDE DEF F, start
<1>3. Read = [k \in Nat |-> IF k = 0 THEN start ELSE Turn[Read[k - 1]]]
  BY <1>2, Zenon
<1>. HIDE DEF Read
<1>4. /\ Read[0] = start
      /\ \A k \in Nat : Read[k + 1] = Turn[Read[k]]
  <2>1. \A k \in Nat : Read[k] = IF k = 0 THEN start ELSE Turn[Read[k - 1]]
    BY <1>3
  <2>2. \A k \in Nat : k + 1 \in Nat /\ k + 1 # 0 /\ (k + 1) - 1 = k
    OBVIOUS
  <2>. QED  BY <2>1, <2>2
<1>. DEFINE P == {k \in Nat : Read[k + 2] = two}
<1>5. P = Nat
  <2>1. Read[0 + 1] = one
    BY <1>4 DEF start
  <2>2. Read[1 + 1] = two
    BY <1>4, <2>1
  <2>3. 0 \in P
    BY <2>2
  <2>4. \A k \in P : k + 1 \in P
    <3>. SUFFICES ASSUME NEW k \in P PROVE Read[(k + 1) + 2] = two
      OBVIOUS
    <3>1. k \in Nat /\ Read[k + 2] = two /\ (k + 1) + 2 = (k + 2) + 1 /\ k + 2 \in Nat
      OBVIOUS
    <3>. QED  BY <1>4, <3>1
  <2>5. P \in SUBSET Nat
    OBVIOUS
  <2>. HIDE DEF P
  <2>. QED  BY <2>3, <2>4, <2>5, NatInd
<1>6. MaxExtensions - 1 \in Nat /\ MaxExtensions + 1 = (MaxExtensions - 1) + 2
  BY OverlayAssumption DEF RouteRecord
<1>7. Read[(MaxExtensions - 1) + 2] = two
  BY <1>5, <1>6
<1>. QED
  BY <1>1, <1>6, <1>7

-----------------------------------------------------------------------------
(* Packets, byte by byte. *)

Addresses == 0 .. Byte * Byte * Byte * Byte - 1
Octets == 0 .. Byte - 1
Rec(r) == WireData(Route(r))
BareBytes(p) == <<0, 1, Len(p)>> \o p
RoutedBytes(p, r) ==
    (<<RouteRecord, 1, Len(p)>> \o p) \o (<<0, 1, 4 * Len(r)>> \o Rec(r))

(* A sequence over a set is one over a larger set. *)
LEMMA Widened ==
    ASSUME NEW S, NEW T, S \subseteq T, NEW s \in Seq(S)
    PROVE  s \in Seq(T)
<1>1. Len(s) \in Nat /\ s \in [1 .. Len(s) -> S]
  OBVIOUS
<1>2. s \in [1 .. Len(s) -> T]
  BY <1>1
<1>. QED  BY <1>1, <1>2

(* Octets and addresses are numbers. *)
LEMMA OctetsAre ==
    /\ Octets \subseteq Nat /\ Addresses \subseteq Nat
    /\ \A p \in Seq(Octets) : p \in Seq(Nat)
    /\ \A r \in Seq(Addresses) : r \in Seq(Nat)
<1>1. Octets \subseteq Nat /\ Addresses \subseteq Nat
  BY OverlayAssumption DEF Octets, Addresses
<1>. QED  BY <1>1, Widened

(* The bytes of a route record, entry by entry. *)
LEMMA RecBytes ==
    ASSUME NEW r \in Seq(Addresses)
    PROVE  /\ Rec(r) \in Seq(Nat)
           /\ Len(Rec(r)) = 4 * Len(r)
           /\ \A i \in 1 .. Len(r) : \A j \in 1 .. 4 :
                Rec(r)[(i - 1) * 4 + j] = Digits(r[i])[j]
<1>1. Byte \in Nat /\ Byte > 0 /\ Addresses \subseteq Nat
  BY OverlayAssumption DEF Addresses
<1>2. Rec(r) = [i \in 1 .. 4 * Len(r) |->
                  Digits(r[((i - 1) \div 4) + 1])[((i - 1) % 4) + 1]]
  <2>1. Route(r).data = r /\ Route(r).type # Payload
    BY DEF Route, Payload, RouteRecord
  <2>. QED  BY <2>1 DEF Rec, WireData
<1>3. Len(r) \in Nat /\ 4 * Len(r) \in Nat
  OBVIOUS
<1>4. \A i \in 1 .. 4 * Len(r) : Digits(r[((i - 1) \div 4) + 1])[((i - 1) % 4) + 1] \in Nat
  <2>. SUFFICES ASSUME NEW i \in 1 .. 4 * Len(r)
                PROVE  Digits(r[((i - 1) \div 4) + 1])[((i - 1) % 4) + 1] \in Nat
    OBVIOUS
  <2>. DEFINE a == ((i - 1) \div 4) + 1
              b == ((i - 1) % 4) + 1
  <2>1. a \in 1 .. Len(r) /\ b \in 1 .. 4
    BY <1>3
  <2>2. r[a] \in Addresses
    BY <2>1
  <2>3. r[a] \in Nat /\ r[a] < Byte * Byte * Byte * Byte
    BY <1>1, <2>2 DEF Addresses
  <2>. HIDE DEF a, b
  <2>4. Digits(r[a])[b] \in 0 .. Byte - 1
    BY <2>1, <2>3, DigitsBack
  <2>5. Digits(r[a])[b] \in Nat
    BY <1>1, <2>4
  <2>. QED  BY <2>5 DEF a, b
<1>5. Rec(r) \in Seq(Nat) /\ Len(Rec(r)) = 4 * Len(r)
  BY <1>2, <1>3, <1>4
<1>6. ASSUME NEW i \in 1 .. Len(r), NEW j \in 1 .. 4
      PROVE  Rec(r)[(i - 1) * 4 + j] = Digits(r[i])[j]
  <2>. DEFINE k == (i - 1) * 4 + j
  <2>1. k \in 1 .. 4 * Len(r) /\ ((k - 1) \div 4) + 1 = i /\ ((k - 1) % 4) + 1 = j
    BY <1>3
  <2>. HIDE DEF k
  <2>2. Rec(r)[k] = Digits(r[((k - 1) \div 4) + 1])[((k - 1) % 4) + 1]
    BY <1>2, <2>1
  <2>. QED  BY <2>1, <2>2 DEF k
<1>. QED  BY <1>5, <1>6

(* Positions in two sequences of bytes, one behind the other ... *)
LEMMA Joined ==
    ASSUME NEW s \in Seq(Nat), NEW t \in Seq(Nat)
    PROVE  /\ s \o t \in Seq(Nat)
           /\ Len(s \o t) = Len(s) + Len(t)
           /\ \A i \in 1 .. Len(s) : (s \o t)[i] = s[i]
           /\ \A i \in 1 .. Len(t) : (s \o t)[Len(s) + i] = t[i]
<1>1. s \o t \in Seq(Nat) /\ Len(s \o t) = Len(s) + Len(t)
  OBVIOUS
<1>2. \A i \in 1 .. Len(s) + Len(t) :
         (s \o t)[i] = IF i <= Len(s) THEN s[i] ELSE t[i - Len(s)]
  OBVIOUS
<1>3. \A i \in 1 .. Len(s) : (s \o t)[i] = s[i]
  BY <1>2
<1>4. ASSUME NEW i \in 1 .. Len(t) PROVE (s \o t)[Len(s) + i] = t[i]
  <2>1. /\ Len(s) + i \in 1 .. Len(s) + Len(t) /\ ~(Len(s) + i <= Len(s))
        /\ (Len(s) + i) - Len(s) = i
    OBVIOUS
  <2>. QED  BY <1>2, <2>1
<1>. QED  BY <1>1, <1>3, <1>4

(* ... the first of which is the three bytes before an extension. *)
LEMMA Headed ==
    ASSUME NEW h \in Seq(Nat), Len(h) = 3, NEW t \in Seq(Nat)
    PROVE  /\ h \o t \in Seq(Nat)
           /\ Len(h \o t) = Len(t) + 3
           /\ \A i \in 1 .. 3 : (h \o t)[i] = h[i]
           /\ \A i \in 1 .. Len(t) : (h \o t)[3 + i] = t[i]
<1>1. /\ h \o t \in Seq(Nat)
      /\ Len(h \o t) = Len(h) + Len(t)
      /\ \A i \in 1 .. Len(h) : (h \o t)[i] = h[i]
      /\ \A i \in 1 .. Len(t) : (h \o t)[Len(h) + i] = t[i]
  BY Joined
<1>2. Len(h) + Len(t) = Len(t) + 3 /\ Len(h) = 3
  OBVIOUS
<1>. QED  BY ONLY <1>1, <1>2

(* The packet of a payload alone, byte by byte. *)
LEMMA BareIs ==
    ASSUME NEW p \in Seq(Octets), Len(p) < Byte
    PROVE  /\ BareBytes(p) \in Seq(Nat) /\ Len(BareBytes(p)) = Len(p) + 3
           /\ BareBytes(p)[1] = 0 /\ BareBytes(p)[3] = Len(p)
           /\ \A i \in 1 .. Len(p) : BareBytes(p)[3 + i] = p[i]
<1>1. p \in Seq(Nat)
  BY OctetsAre
<1>. DEFINE h == <<0, 1, Len(p)>>
<1>2. h \in Seq(Nat) /\ Len(h) = 3 /\ h[1] = 0 /\ h[3] = Len(p)
  OBVIOUS
<1>. HIDE DEF h
<1>3. /\ h \o p \in Seq(Nat) /\ Len(h \o p) = Len(p) + 3
      /\ (h \o p)[1] = 0 /\ (h \o p)[3] = Len(p)
      /\ \A i \in 1 .. Len(p) : (h \o p)[3 + i] = p[i]
  <2>1. /\ h \o p \in Seq(Nat) /\ Len(h \o p) = Len(p) + 3
        /\ \A i \in 1 .. 3 : (h \o p)[i] = h[i]
        /\ \A i \in 1 .. Len(p) : (h \o p)[3 + i] = p[i]
    BY ONLY <1>1, <1>2, Headed
  <2>2. 1 \in 1 .. 3 /\ 3 \in 1 .. 3
    OBVIOUS
  <2>. QED  BY ONLY <1>2, <2>1, <2>2
<1>. QED  BY <1>3 DEF BareBytes, h

(* The packet of a payload and a route record, byte by byte. *)
LEMMA RoutedIs ==
    ASSUME NEW p \in Seq(Octets), NEW r \in Seq(Addresses)
    PROVE  /\ RoutedBytes(p, r) \in Seq(Nat)
           /\ Len(RoutedBytes(p, r)) = Len(p) + 6 + 4 * Len(r)
           /\ RoutedBytes(p, r)[1] = RouteRecord /\ RoutedBytes(p, r)[3] = Len(p)
           /\ \A i \in 1 .. Len(p) : RoutedBytes(p, r)[3 + i] = p[i]
           /\ RoutedBytes(p, r)[Len(p) + 4] = 0
           /\ RoutedBytes(p, r)[Len(p) + 6] = 4 * Len(r)
           /\ \A i \in 1 .. 4 * Len(r) : RoutedBytes(p, r)[Len(p) + 6 + i] = Rec(r)[i]
<1>1. p \in Seq(Nat) /\ Rec(r) \in Seq(Nat) /\ Len(Rec(r)) = 4 * Len(r) /\ Len(r) \in Nat
  BY OverlayAssumption, RecBytes DEF Octets
<1>. DEFINE h == <<RouteRecord, 1, Len(p)>>
            g == <<0, 1, 4 * Len(r)>>
            x == h \o p
            y == g \o Rec(r)
<1>2. h \in Seq(Nat) /\ Len(h) = 3 /\ h[1] = RouteRecord /\ h[3] = Len(p)
  BY DEF RouteRecord
<1>3. g \in Seq(Nat) /\ Len(g) = 3 /\ g[1] = 0 /\ g[3] = 4 * Len(r)
  BY <1>1
<1>. HIDE DEF h, g
<1>4. /\ x \in Seq(Nat) /\ Len(x) = Len(p) + 3
      /\ x[1] = RouteRecord /\ x[3] = Len(p)
      /\ \A i \in 1 .. Len(p) : x[3 + i] = p[i]
  <2>1. /\ x \in Seq(Nat) /\ Len(x) = Len(p) + 3
        /\ \A i \in 1 .. 3 : x[i] = h[i]
        /\ \A i \in 1 .. Len(p) : x[3 + i] = p[i]
    BY <1>1, <1>2, Headed
  <2>. HIDE DEF x
  <2>. QED  BY <1>2, <2>1
<1>5. /\ y \in Seq(Nat) /\ Len(y) = 4 * Len(r) + 3
      /\ y[1] = 0 /\ y[3] = 4 * Len(r)
      /\ \A i \in 1 .. 4 * Len(r) : y[3 + i] = Rec(r)[i]
  <2>1. /\ y \in Seq(Nat) /\ Len(y) = Len(Rec(r)) + 3
        /\ \A i \in 1 .. 3 : y[i] = g[i]
        /\ \A i \in 1 .. Len(Rec(r)) : y[3 + i] = Rec(r)[i]
    BY <1>1, <1>3, Headed
  <2>. HIDE DEF y
  <2>. QED  BY <1>1, <1>3, <2>1
<1>. HIDE DEF x, y
<1>6. Len(p) \in Nat
  BY <1>1
<1>7. /\ x \o y \in Seq(Nat) /\ Len(x \o y) = Len(p) + 6 + 4 * Len(r)
      /\ \A i \in 1 .. Len(p) + 3 : (x \o y)[i] = x[i]
      /\ \A i \in 1 .. 4 * Len(r) + 3 : (x \o y)[Len(p) + 3 + i] = y[i]
  <2>1. Len(x) + Len(y) = Len(p) + 6 + 4 * Len(r)
    BY <1>1, <1>4, <1>5, <1>6
  <2>2. /\ x \o y \in Seq(Nat) /\ Len(x \o y) = Len(x) + Len(y)
        /\ \A i \in 1 .. Len(x) : (x \o y)[i] = x[i]
        /\ \A i \in 1 .. Len(y) : (x \o y)[Len(x) + i] = y[i]
    BY <1>4, <1>5, Joined
  <2>3. Len(x) = Len(p) + 3 /\ Len(y) = 4 * Len(r) + 3
    BY <1>4, <1>5
  <2>. QED  BY ONLY <2>1, <2>2, <2>3
<1>8. RoutedBytes(p, r) = x \o y
  BY DEF RoutedBytes, x, y, h, g
<1>9. \A i \in 1 .. Len(p) : (x \o y)[3 + i] = p[i]
  <2>1. \A i \in 1 .. Len(p) : 3 + i \in 1 .. Len(p) + 3
    BY <1>6
  <2>. QED  BY <1>4, <1>7, <2>1
<1>10. \A i \in 1 .. 4 * Len(r) : (x \o y)[Len(p) + 6 + i] = Rec(r)[i]
  <2>. SUFFICES ASSUME NEW i \in 1 .. 4 * Len(r)
                PROVE  (x \o y)[Len(p) + 6 + i] = Rec(r)[i]
    OBVIOUS
  <2>1. 3 + i \in 1 .. 4 * Len(r) + 3 /\ Len(p) + 3 + (3 + i) = Len(p) + 6 + i
    BY <1>1, <1>6
  <2>. QED  BY <1>5, <1>7, <2>1
<1>11. (x \o y)[Len(p) + 4] = 0 /\ (x \o y)[Len(p) + 6] = 4 * Len(r)
  <2>1. /\ 1 \in 1 .. 4 * Len(r) + 3 /\ Len(p) + 3 + 1 = Len(p) + 4
        /\ 3 \in 1 .. 4 * Len(r) + 3 /\ Len(p) + 3 + 3 = Len(p) + 6
    BY <1>1, <1>6
  <2>. QED  BY <1>5, <1>7, <2>1
<1>12. (x \o y)[1] = RouteRecord /\ (x \o y)[3] = Len(p)
  BY <1>4, <1>6, <1>7
<1>. QED  BY <1>7, <1>8, <1>9, <1>10, <1>11, <1>12

-----------------------------------------------------------------------------
(* The parser's turns. *)

Loop(b, t, o, type, at, len) ==
    [bytes |-> b, table |-> t, order |-> o, type |-> type, at |-> at, length |-> len]

(* A remainder that takes nothing away. *)
LEMMA SmallMod ==
    ASSUME NEW a \in Nat, NEW n \in Nat, a < n
    PROVE  a % n = a
  OBVIOUS

(* At type 0 the loop is over. *)
LEMMA TurnOver ==
    ASSUME NEW loop \in Loops, loop.type = 0
    PROVE  Turn[loop] = loop
<1>1. Over(loop)
  BY DEF Over, Payload, RouteRecord
<1>. QED  BY <1>1 DEF Turn

(* The turn that reads the payload at the start of a packet. *)
LEMMA TurnPayload ==
    ASSUME NEW b \in Seq(Nat), NEW p \in Seq(Octets), Len(p) \in 1 .. Byte - 1,
           Len(b) >= Len(p) + 3, b[3] = Len(p),
           \A i \in 1 .. Len(p) : b[3 + i] = p[i]
    PROVE  Turn[Loop(b, NoExtensions, 1, Payload, 0, 0)]
             = Loop(b, Bare(p), 2, b[1], Len(p) + 3, Len(p) + 1)
<1>. DEFINE loop == Loop(b, NoExtensions, 1, Payload, 0, 0)
<1>1. Byte \in Nat /\ Len(p) \in Nat /\ Len(b) \in Nat /\ p \in Seq(Nat)
  <2>1. p \in Seq(Nat)
    BY OctetsAre
  <2>2. Len(p) \in Nat /\ Len(b) \in Nat
    BY ONLY p \in Seq(Octets), b \in Seq(Nat)
  <2>3. Byte \in Nat
    BY OverlayAssumption
  <2>. QED  BY <2>1, <2>2, <2>3
<1>2. loop \in Loops
  BY TablesType, <1>1 DEF Loop, Loops, Payload
<1>3. /\ loop.bytes = b /\ loop.table = NoExtensions /\ loop.order = 1
      /\ loop.type = Payload /\ loop.at = 0 /\ loop.length = 0
  BY DEF Loop
<1>4. Number(b, 0 + 2) = Len(p) /\ Number(b, 0) = b[1] /\ Len(p) % Byte = Len(p)
  <2>1. ~(Len(b) <= 0 + 2) /\ ~(Len(b) <= 0) /\ 0 + 2 + 1 = 3 /\ 0 + 1 = 1
    BY <1>1
  <2>2. Number(b, 0 + 2) = b[0 + 2 + 1] /\ Number(b, 0) = b[0 + 1]
    BY <2>1 DEF Number
  <2>3. Len(p) % Byte = Len(p)
    <3>1. Len(p) < Byte
      BY <1>1
    <3>. QED  BY ONLY <1>1, <3>1, SmallMod
  <2>. QED  BY <2>1, <2>2, <2>3
<1>5. ~PayloadFails(b, 0)
  <2>1. ~(Len(p) = 0 \/ Len(b) < 0 + 3 + Len(p))
    BY <1>1
  <2>. QED  BY <1>4, <2>1 DEF PayloadFails
<1>6. ReadPayload(b, 0) = p
  <2>1. ReadPayload(b, 0) = SubSeq(b, 4, 3 + Len(p))
    <3>1. 0 + 4 = 4 /\ 0 + 3 = 3
      OBVIOUS
    <3>. QED  BY <1>4, <3>1 DEF ReadPayload
  <2>2. SubSeq(b, 4, 3 + Len(p)) = [i \in 1 .. Len(p) |-> b[3 + i]]
    BY <1>1
  <2>3. [i \in 1 .. Len(p) |-> b[3 + i]] = p
    <3>1. [i \in 1 .. Len(p) |-> b[3 + i]] = [i \in 1 .. Len(p) |-> p[i]]
      OBVIOUS
    <3>2. p = [i \in 1 .. Len(p) |-> p[i]]
      BY <1>1
    <3>. QED  BY <3>1, <3>2
  <2>. QED  BY <2>1, <2>2, <2>3
<1>7. ~Over(loop)
  <2>1. 0 \in Vacant(NoExtensions, Payload)
    BY Places DEF Vacant, NoExtensions
  <2>. QED  BY <1>3, <2>1 DEF Over
<1>8. Turn[loop] = Loop(b, Insert(NoExtensions, [type |-> Payload, order |-> 1, data |-> p]),
                        1 + 1, Number(b, 0), 0 + 2 + (Len(p) + 1), Len(p) + 1)
  <2>. HIDE DEF loop
  <2>. QED  BY <1>2, <1>3, <1>5, <1>6, <1>7 DEF Turn, Loop, Loops
<1>9. Insert(NoExtensions, [type |-> Payload, order |-> 1, data |-> p]) = Bare(p)
  BY <1>1, Filling, <<>> \in Seq(Nat) DEF Data
<1>10. 0 + 2 + (Len(p) + 1) = Len(p) + 3 /\ 1 + 1 = 2
  BY <1>1
<1>. QED  BY <1>4, <1>8, <1>9, <1>10

(* The turn that reads the route record behind the payload. *)
LEMMA TurnRecord ==
    ASSUME NEW p \in Seq(Octets), NEW r \in Seq(Addresses), 4 * Len(r) < Byte
    PROVE  LET b == RoutedBytes(p, r)
               n == Len(p) + 3
           IN  Turn[Loop(b, Bare(p), 2, RouteRecord, n, n - 2)]
                 = Loop(b, Routed(p, r), 3, 0, n + n, n - 2)
<1>. DEFINE b == RoutedBytes(p, r)
            n == Len(p) + 3
            loop == Loop(b, Bare(p), 2, RouteRecord, n, n - 2)
<1>1. /\ Byte \in Nat /\ Len(p) \in Nat /\ Len(r) \in Nat /\ p \in Seq(Nat) /\ r \in Seq(Nat)
      /\ n \in Nat /\ n - 2 \in Nat
  BY OverlayAssumption DEF Octets, Addresses
<1>2. /\ b \in Seq(Nat) /\ Len(b) = n + 3 + 4 * Len(r)
      /\ b[n + 1] = 0 /\ b[n + 3] = 4 * Len(r)
      /\ \A i \in 1 .. 4 * Len(r) : b[n + 3 + i] = Rec(r)[i]
  <2>. HIDE DEF b
  <2>1. /\ b \in Seq(Nat) /\ Len(b) = Len(p) + 6 + 4 * Len(r)
        /\ b[Len(p) + 4] = 0 /\ b[Len(p) + 6] = 4 * Len(r)
        /\ \A i \in 1 .. 4 * Len(r) : b[Len(p) + 6 + i] = Rec(r)[i]
    BY RoutedIs DEF b
  <2>2. /\ n + 3 + 4 * Len(r) = Len(p) + 6 + 4 * Len(r)
        /\ n + 1 = Len(p) + 4 /\ n + 3 = Len(p) + 6
    BY <1>1
  <2>. QED  BY ONLY <2>1, <2>2
<1>. HIDE DEF b, n
<1>3. loop \in Loops
  BY TablesType, <1>1, <1>2 DEF Loop, Loops, RouteRecord
<1>4. /\ loop.bytes = b /\ loop.table = Bare(p) /\ loop.order = 2
      /\ loop.type = RouteRecord /\ loop.at = n /\ loop.length = n - 2
      /\ loop.type # Payload
  BY DEF Loop, RouteRecord, Payload
<1>5. Number(b, n + 2) = 4 * Len(r) /\ Number(b, n) = 0
  <2>1. ~(Len(b) <= n + 2) /\ ~(Len(b) <= n) /\ n + 2 + 1 = n + 3
    BY <1>1, <1>2
  <2>2. Number(b, n + 2) = b[n + 2 + 1] /\ Number(b, n) = b[n + 1]
    BY <2>1 DEF Number
  <2>. QED  BY <1>2, <2>1, <2>2
<1>6. ReadRecord(b, n) = r
  <2>1. (4 * Len(r)) \div 4 = Len(r)
    BY <1>1
  <2>2. ReadRecord(b, n) = [i \in 1 .. Len(r) |-> Address(b, n + 3 + (i - 1) * 4)]
    BY <1>5, <2>1 DEF ReadRecord
  <2>3. ASSUME NEW i \in 1 .. Len(r)
        PROVE  Address(b, n + 3 + (i - 1) * 4) = r[i]
    <3>. DEFINE at == n + 3 + (i - 1) * 4
    <3>1. ~(Len(b) < at + 4)
      BY <1>1, <1>2
    <3>2. \A j \in 1 .. 4 : b[at + j] = Digits(r[i])[j]
      <4>. SUFFICES ASSUME NEW j \in 1 .. 4 PROVE b[at + j] = Digits(r[i])[j]
        OBVIOUS
      <4>1. at + j = n + 3 + ((i - 1) * 4 + j) /\ (i - 1) * 4 + j \in 1 .. 4 * Len(r)
        BY <1>1
      <4>2. b[n + 3 + ((i - 1) * 4 + j)] = Rec(r)[(i - 1) * 4 + j]
        BY <1>2, <4>1
      <4>3. Rec(r)[(i - 1) * 4 + j] = Digits(r[i])[j]
        BY RecBytes
      <4>. HIDE DEF at
      <4>. QED  BY <4>1, <4>2, <4>3
    <3>3. r[i] \in Nat /\ r[i] < Byte * Byte * Byte * Byte
      <4>1. r[i] \in Addresses
        OBVIOUS
      <4>2. Byte * Byte * Byte * Byte \in Nat
        BY <1>1
      <4>. QED  BY <4>1, <4>2 DEF Addresses
    <3>. HIDE DEF at
    <3>4. Address(b, at) = ((b[at + 1] * Byte + b[at + 2]) * Byte + b[at + 3]) * Byte
                              + b[at + 4]
      BY <3>1 DEF Address
    <3>5. /\ b[at + 1] = Digits(r[i])[1] /\ b[at + 2] = Digits(r[i])[2]
          /\ b[at + 3] = Digits(r[i])[3] /\ b[at + 4] = Digits(r[i])[4]
      BY <3>2
    <3>6. Address(b, at) = r[i]
      BY <3>3, <3>4, <3>5, DigitsBack
    <3>. QED  BY <3>6 DEF at
  <2>4. [i \in 1 .. Len(r) |-> Address(b, n + 3 + (i - 1) * 4)] = [i \in 1 .. Len(r) |-> r[i]]
    BY <2>3
  <2>5. r = [i \in 1 .. Len(r) |-> r[i]]
    OBVIOUS
  <2>. QED  BY <2>2, <2>4, <2>5
<1>7. ~Over(loop)
  <2>1. 0 \in Vacant(Bare(p), RouteRecord)
    BY Places DEF Vacant, Bare
  <2>. QED  BY <1>4, <2>1 DEF Over
<1>8. Turn[loop] = Loop(b, Insert(Bare(p), [type |-> RouteRecord, order |-> 2, data |-> r]),
                        2 + 1, Number(b, n), n + 2 + (n - 2), n - 2)
  <2>. HIDE DEF loop
  <2>. QED  BY <1>3, <1>4, <1>6, <1>7 DEF Turn, Loop, Loops
<1>9. Insert(Bare(p), [type |-> RouteRecord, order |-> 2, data |-> r]) = Routed(p, r)
  BY <1>1, Filling DEF Route
<1>10. n + 2 + (n - 2) = n + n /\ 2 + 1 = 3
  BY <1>1
<1>11. Turn[loop] = Loop(b, Routed(p, r), 3, 0, n + n, n - 2)
  BY <1>5, <1>8, <1>9, <1>10
<1>. QED  BY <1>11 DEF b, n

(* Both packets are parsed to the tables they come from. *)
LEMMA Parsed ==
    ASSUME NEW p \in Seq(Octets), Len(p) \in 1 .. Byte - 1,
           NEW r \in Seq(Addresses), 4 * Len(r) < Byte
    PROVE  /\ Extensions(BareBytes(p), Payload) = Bare(p)
           /\ Extensions(RoutedBytes(p, r), Payload) = Routed(p, r)
<1>. DEFINE n == Len(p) + 3
<1>1. /\ Byte \in Nat /\ Len(p) \in Nat /\ Len(r) \in Nat /\ p \in Seq(Nat) /\ r \in Seq(Nat)
      /\ n \in Nat /\ n - 2 \in Nat /\ n - 2 = Len(p) + 1 /\ Len(p) < Byte
  BY OverlayAssumption DEF Octets, Addresses
<1>2. Extensions(BareBytes(p), Payload) = Bare(p)
  <2>. DEFINE b == BareBytes(p)
              one == Loop(b, Bare(p), 2, 0, Len(p) + 3, Len(p) + 1)
  <2>1. /\ b \in Seq(Nat) /\ Len(b) = Len(p) + 3 /\ b[1] = 0 /\ b[3] = Len(p)
        /\ \A i \in 1 .. Len(p) : b[3 + i] = p[i]
    BY <1>1, BareIs
  <2>. HIDE DEF b
  <2>2. Turn[Start(b, Payload)] = one
    <3>1. Start(b, Payload) = Loop(b, NoExtensions, 1, Payload, 0, 0)
      BY DEF Start, Loop
    <3>2. Len(b) >= Len(p) + 3
      BY <1>1, <2>1
    <3>. QED  BY <2>1, <3>1, <3>2, TurnPayload
  <2>3. one \in Loops /\ one.type = 0 /\ one.table = Bare(p)
    BY TablesType, <1>1, <2>1 DEF Loop, Loops
  <2>. HIDE DEF one
  <2>4. Turn[one] = one
    BY <2>3, TurnOver
  <2>5. Extensions(b, Payload) = one.table
    BY <2>2, <2>4, LoopEnds
  <2>. QED  BY <2>3, <2>5 DEF b
<1>3. Extensions(RoutedBytes(p, r), Payload) = Routed(p, r)
  <2>. DEFINE b == RoutedBytes(p, r)
              one == Loop(b, Bare(p), 2, RouteRecord, n, n - 2)
              two == Loop(b, Routed(p, r), 3, 0, n + n, n - 2)
  <2>1. /\ b \in Seq(Nat) /\ Len(b) = Len(p) + 6 + 4 * Len(r)
        /\ b[1] = RouteRecord /\ b[3] = Len(p)
        /\ \A i \in 1 .. Len(p) : b[3 + i] = p[i]
    BY RoutedIs
  <2>2. Turn[one] = two
    BY TurnRecord
  <2>. HIDE DEF b
  <2>3. Turn[Start(b, Payload)] = one
    <3>1. Start(b, Payload) = Loop(b, NoExtensions, 1, Payload, 0, 0)
      BY DEF Start, Loop
    <3>2. Len(b) >= Len(p) + 3
      BY <1>1, <2>1
    <3>3. Turn[Start(b, Payload)] = Loop(b, Bare(p), 2, b[1], Len(p) + 3, Len(p) + 1)
      BY <2>1, <3>1, <3>2, TurnPayload
    <3>. QED  BY <1>1, <2>1, <3>3
  <2>4. two \in Loops /\ two.type = 0 /\ two.table = Routed(p, r)
    BY TablesType, <1>1, <2>1 DEF Loop, Loops
  <2>. HIDE DEF one, two
  <2>5. Turn[two] = two
    BY <2>4, TurnOver
  <2>6. Extensions(b, Payload) = two.table
    BY <2>2, <2>3, <2>5, LoopEnds
  <2>. QED  BY <2>4, <2>6 DEF b
<1>. QED  BY <1>2, <1>3

-----------------------------------------------------------------------------
(* The round trip. *)

(* A message with the table t, and its packet with the bytes b. *)
Mail(h, s, v, t) == [hops |-> h, source |-> s, previous |-> v, ext |-> t]
Packet(h, s, v, b) ==
    [hops |-> h, source |-> s, previous |-> v, first |-> Payload, bytes |-> b]

(* The packets that both tables are encoded to. *)
LEMMA Encoded ==
    ASSUME NEW h \in Nat, NEW s \in Nat, NEW v \in Nat,
           NEW p \in Seq(Octets), Len(p) \in 1 .. Byte - 1,
           NEW r \in Seq(Addresses), 4 * Len(r) < Byte
    PROVE  /\ Encode[Mail(h, s, v, Bare(p))] = Packet(h, s, v, BareBytes(p))
           /\ Encode[Mail(h, s, v, Routed(p, r))] = Packet(h, s, v, RoutedBytes(p, r))
<1>1. /\ Byte \in Nat /\ Len(p) \in Nat /\ Len(r) \in Nat
      /\ p \in Seq(Nat) /\ r \in Seq(Nat) /\ Len(p) < Byte
  BY OverlayAssumption DEF Octets, Addresses
<1>2. Len(p) % Byte = Len(p) /\ (4 * Len(r)) % Byte = 4 * Len(r)
  <2>1. \A a \in Nat : a < Byte => a % Byte = a
    BY <1>1, SmallMod
  <2>2. 4 * Len(r) \in Nat
    BY <1>1
  <2>. QED  BY <1>1, <2>1, <2>2
<1>3. /\ Mail(h, s, v, Bare(p)) \in Messages /\ Mail(h, s, v, Routed(p, r)) \in Messages
      /\ Mail(h, s, v, Bare(p)).ext = Bare(p)
      /\ Mail(h, s, v, Routed(p, r)).ext = Routed(p, r)
  BY <1>1, TablesType DEF Mail, Messages
<1>4. /\ Written(Data(p), 0) = BareBytes(p)
      /\ Written(Data(p), RouteRecord) = <<RouteRecord, 1, Len(p)>> \o p
      /\ Written(Data(p), 0) \in Seq(Nat)
      /\ Written(Data(p), RouteRecord) \in Seq(Nat)
  BY <1>1, <1>2, WrittenType DEF BareBytes, RouteRecord
<1>5. Written(Route(r), 0) = <<0, 1, 4 * Len(r)>> \o Rec(r) /\ Written(Route(r), 0) \in Seq(Nat)
  <2>1. Len(Rec(r)) = 4 * Len(r) /\ Rec(r) \in Seq(Nat)
    BY RecBytes
  <2>2. Written(Route(r), 0) = <<0, 1, 4 * Len(r)>> \o Rec(r)
    BY <1>2, <2>1 DEF Written, Rec
  <2>3. <<0, 1, 4 * Len(r)>> \in Seq(Nat)
    BY <1>1
  <2>4. <<0, 1, 4 * Len(r)>> \o Rec(r) \in Seq(Nat)
    BY <2>1, <2>3, Joined
  <2>. QED  BY <2>2, <2>4
<1>6. Wire[Ordered(Bare(p))] = BareBytes(p)
  BY <1>1, <1>4, OrderedBare, WireOne, TablesType
<1>7. Wire[Ordered(Routed(p, r))] = RoutedBytes(p, r)
  <2>1. Ordered(Routed(p, r)) = <<Data(p), Route(r)>>
    BY <1>1, OrderedRouted
  <2>2. Route(r).type = RouteRecord /\ Data(p) \in Extension /\ Route(r) \in Extension
    BY <1>1, TablesType DEF Route
  <2>3. Wire[<<Data(p), Route(r)>>] = Written(Data(p), RouteRecord) \o Written(Route(r), 0)
    BY <1>4, <1>5, <2>2, WireTwo
  <2>. QED  BY <1>4, <1>5, <2>1, <2>3 DEF RoutedBytes
<1>8. /\ Ordered(Bare(p)) # <<>> /\ Ordered(Bare(p))[1].type = Payload
      /\ Ordered(Routed(p, r)) # <<>> /\ Ordered(Routed(p, r))[1].type = Payload
  BY <1>1, OrderedBare, OrderedRouted DEF Data
<1>9. Encode[Mail(h, s, v, Bare(p))] = Packet(h, s, v, BareBytes(p))
  BY <1>3, <1>6, <1>8 DEF Encode, Mail, Packet
<1>10. Encode[Mail(h, s, v, Routed(p, r))] = Packet(h, s, v, RoutedBytes(p, r))
  BY <1>3, <1>7, <1>8 DEF Encode, Mail, Packet
<1>. QED  BY <1>9, <1>10

(* What is encoded is what is parsed: for every payload and route record   *)
(* that fit their length bytes, hc_msg_overlay_parse gives back the        *)
(* message hc_msg_overlay_encode was given (hc_overlay.c:9-217). The step  *)
(* past a route record, to the wrong place, is the loop's last.            *)
THEOREM EncodedIsParsed ==
    ASSUME NEW h \in Nat, NEW s \in Nat, NEW v \in Nat,
           NEW p \in Seq(Octets), Len(p) \in 1 .. Byte - 1,
           NEW r \in Seq(Addresses), 4 * Len(r) < Byte,
           NEW t \in {Bare(p), Routed(p, r)}
    PROVE  Parse(Encode[Mail(h, s, v, t)]) = Mail(h, s, v, t)
<1>. DEFINE b == IF t = Bare(p) THEN BareBytes(p) ELSE RoutedBytes(p, r)
<1>1. Encode[Mail(h, s, v, t)] = Packet(h, s, v, b)
  BY Encoded
<1>2. Extensions(b, Payload) = t
  BY Parsed
<1>. HIDE DEF b
<1>3. /\ Packet(h, s, v, b).hops = h /\ Packet(h, s, v, b).source = s
      /\ Packet(h, s, v, b).previous = v /\ Packet(h, s, v, b).first = Payload
      /\ Packet(h, s, v, b).bytes = b
  BY DEF Packet
<1>. QED  BY <1>1, <1>2, <1>3 DEF Parse, Mail

-----------------------------------------------------------------------------
(* The network. Own messages, and the packets that carry a copy. *)

FP == INSTANCE FloodingProofs WITH air <- Air

(* Messages as hc_msg_overlay_init_with_payload composes them, with or     *)
(* without the record, of a payload of 1 to 255 bytes, in a network whose  *)
(* route record fits its length byte (up to 63 devices: the encoder writes *)
(* 4 * 64 as 0) and whose hop limit fits its field.                        *)
Own ==
    /\ \A o \in Originals :
          /\ o.source \in Ids /\ o.payload \in Payloads
          /\ o.layout \in {<<Payload>>, <<Payload, RouteRecord>>}
    /\ Payloads \subseteq {p \in Seq(Octets) : Len(p) \in 1 .. Byte - 1}
    /\ Ids \subseteq Addresses
    /\ 4 * Cardinality(Ids) < Byte
    /\ HopLimit < HopWord

(* Packets, those that carry the copy c, and these with their note. *)
Wires == [hops : Nat, source : Nat, previous : Nat, first : Nat, bytes : Seq(Nat)]

Carried(c) ==
    UNION {{Packet(c.hops, c.source, v, RoutedBytes(c.payload, c.trail)) : v \in Ids},
           {Packet(c.hops, c.source, v, BareBytes(c.payload)) :
              v \in {k \in Ids : c.trail = <<c.source>>}}}

Held == {p \in [wire : Wires, copy : FP!Message] :
           FP!Good(p.copy) /\ p.wire \in Carried(p.copy)}

(* The assumptions of the instance. *)
LEMMA FPAssumptions ==
    /\ FP!IsFiniteSet(Ids)
    /\ FP!Cardinality(Ids) = Cardinality(Ids)
    /\ FP!Cardinality(Ids) <= HopLimit
<1>1. FP!IsFiniteSet(Ids)
  BY FloodsAssumption DEF FP!IsFiniteSet, IsFiniteSet
<1>2. FP!Cardinality(Ids) = Cardinality(Ids)
  BY DEF FP!Cardinality, Cardinality, FP!IsFiniteSet, IsFiniteSet
<1>. QED  BY <1>1, <1>2, HopsAssumption

(* A good copy has a payload and a trail that fit their length bytes. *)
LEMMA GoodIs ==
    ASSUME Own, NEW c, FP!Good(c)
    PROVE  /\ c.source \in Ids /\ c.source \in Nat
           /\ c.payload \in Seq(Octets) /\ Len(c.payload) \in 1 .. Byte - 1
           /\ c.payload \in Payloads
           /\ c.trail \in Seq(Ids) /\ c.trail \in Seq(Addresses)
           /\ c.trail # <<>> /\ c.trail[1] = c.source /\ FP!Simple(c.trail)
           /\ 4 * Len(c.trail) < Byte
           /\ c.hops \in 1 .. HopLimit
           /\ c = [source |-> c.source, payload |-> c.payload, trail |-> c.trail,
                   hops |-> c.hops]
<1>1. /\ c \in FP!Message /\ c.trail # <<>> /\ c.trail[1] = c.source
      /\ FP!Simple(c.trail) /\ c.hops = HopLimit + 1 - Len(c.trail)
  BY DEF FP!Good
<1>2. /\ c.source \in Ids /\ c.payload \in Payloads /\ c.trail \in Seq(Ids)
      /\ c = [source |-> c.source, payload |-> c.payload, trail |-> c.trail,
              hops |-> c.hops]
  BY <1>1 DEF FP!Message
<1>3. Ids \subseteq Addresses /\ Addresses \subseteq Nat
  BY OverlayAssumption DEF Own, Addresses
<1>4. c.trail \in Seq(Addresses)
  BY <1>2, <1>3
<1>5. Len(c.trail) <= FP!Cardinality(Ids) /\ Len(c.trail) <= HopLimit
  BY <1>1, <1>2, FP!SimpleIsShort, FPAssumptions, FloodsAssumption, LinksAssumption
<1>6. Len(c.trail) \in Nat /\ Len(c.trail) # 0
  BY <1>1, <1>2
<1>7. 4 * Len(c.trail) < Byte
  <2>1. Len(c.trail) <= Cardinality(Ids)
    BY <1>5, FPAssumptions
  <2>2. Cardinality(Ids) \in Nat
    BY FS_CardinalityType, FloodsAssumption
  <2>3. 4 * Cardinality(Ids) < Byte
    BY DEF Own
  <2>4. Byte \in Nat
    BY OverlayAssumption
  <2>. QED  BY <1>6, <2>1, <2>2, <2>3, <2>4
<1>8. c.hops \in 1 .. HopLimit
  BY <1>1, <1>5, <1>6, FloodsAssumption
<1>9. c.payload \in Seq(Octets) /\ Len(c.payload) \in 1 .. Byte - 1
  BY <1>2 DEF Own
<1>. QED  BY <1>1, <1>2, <1>3, <1>4, <1>7, <1>8, <1>9

(* The packets a good copy is encoded to, with and without its route. *)
LEMMA EncodedCopy ==
    ASSUME Own, NEW c, FP!Good(c), NEW v \in Nat
    PROVE  /\ Encode[Mail(c.hops, c.source, v, Bare(c.payload))]
                = Packet(c.hops, c.source, v, BareBytes(c.payload))
           /\ Encode[Mail(c.hops, c.source, v, Routed(c.payload, c.trail))]
                = Packet(c.hops, c.source, v, RoutedBytes(c.payload, c.trail))
<1>1. /\ c.source \in Nat /\ c.hops \in 1 .. HopLimit
      /\ c.payload \in Seq(Octets) /\ Len(c.payload) \in 1 .. Byte - 1
      /\ c.trail \in Seq(Addresses) /\ 4 * Len(c.trail) < Byte
  BY GoodIs
<1>2. c.hops \in Nat
  BY <1>1, FloodsAssumption
<1>3. \A h, s \in Nat : \A p \in Seq(Octets), r \in Seq(Addresses) :
         Len(p) \in 1 .. Byte - 1 /\ 4 * Len(r) < Byte =>
            /\ Encode[Mail(h, s, v, Bare(p))] = Packet(h, s, v, BareBytes(p))
            /\ Encode[Mail(h, s, v, Routed(p, r))] = Packet(h, s, v, RoutedBytes(p, r))
  BY Encoded
<1>. QED  BY ONLY <1>1, <1>2, <1>3

(* What the packet of a copy is read as. *)
LEMMA Reading ==
    ASSUME Own, NEW c, FP!Good(c), NEW w \in Carried(c)
    PROVE  /\ w \in Wires /\ w.hops = c.hops /\ w.source = c.source /\ w.first = Payload
           /\ \/ w.bytes = RoutedBytes(c.payload, c.trail)
                 /\ Extensions(w.bytes, Payload) = Routed(c.payload, c.trail)
              \/ /\ c.trail = <<c.source>>
                 /\ w.bytes = BareBytes(c.payload)
                 /\ Extensions(w.bytes, Payload) = Bare(c.payload)
<1>1. /\ c.payload \in Seq(Octets) /\ Len(c.payload) \in 1 .. Byte - 1
      /\ c.trail \in Seq(Addresses) /\ 4 * Len(c.trail) < Byte
      /\ c.hops \in 1 .. HopLimit /\ c.source \in Nat
  BY GoodIs
<1>2. /\ Extensions(BareBytes(c.payload), Payload) = Bare(c.payload)
      /\ Extensions(RoutedBytes(c.payload, c.trail), Payload) = Routed(c.payload, c.trail)
  BY <1>1, Parsed
<1>3. c.hops \in Nat
  BY <1>1, FloodsAssumption
<1>4. BareBytes(c.payload) \in Seq(Nat) /\ RoutedBytes(c.payload, c.trail) \in Seq(Nat)
  <2>1. Len(c.payload) < Byte
    BY <1>1, OverlayAssumption
  <2>. QED  BY <1>1, <2>1, BareIs, RoutedIs
<1>5. Ids \subseteq Nat
  BY OverlayAssumption DEF Own, Addresses
<1>6. CASE \E v \in Ids : w = Packet(c.hops, c.source, v, RoutedBytes(c.payload, c.trail))
  <2>1. PICK v \in Ids : w = Packet(c.hops, c.source, v, RoutedBytes(c.payload, c.trail))
    BY <1>6
  <2>2. /\ w.bytes = RoutedBytes(c.payload, c.trail)
        /\ w.hops = c.hops /\ w.source = c.source /\ w.first = Payload
    BY <2>1 DEF Packet
  <2>3. w \in Wires
    BY <1>1, <1>3, <1>4, <1>5, <2>1 DEF Packet, Wires, Payload
  <2>. QED  BY <1>2, <2>2, <2>3
<1>7. CASE \E v \in Ids : /\ c.trail = <<c.source>>
                          /\ w = Packet(c.hops, c.source, v, BareBytes(c.payload))
  <2>1. PICK v \in Ids : w = Packet(c.hops, c.source, v, BareBytes(c.payload))
    BY <1>7
  <2>2. /\ w.bytes = BareBytes(c.payload)
        /\ w.hops = c.hops /\ w.source = c.source /\ w.first = Payload
    BY <2>1 DEF Packet
  <2>3. w \in Wires
    BY <1>1, <1>3, <1>4, <1>5, <2>1 DEF Packet, Wires, Payload
  <2>. QED  BY <1>2, <1>7, <2>2, <2>3
<1>8. \/ \E v \in Ids : w = Packet(c.hops, c.source, v, RoutedBytes(c.payload, c.trail))
      \/ \E v \in Ids : /\ c.trail = <<c.source>>
                        /\ w = Packet(c.hops, c.source, v, BareBytes(c.payload))
  BY Zenon DEF Carried
<1>. QED  BY <1>6, <1>7, <1>8

(* The note on a copy's packet is the copy. *)
LEMMA Noting ==
    ASSUME Own, NEW c, FP!Good(c), NEW w \in Carried(c)
    PROVE  Noted(w) = [wire |-> w, copy |-> c] /\ Noted(w) \in Held
<1>. DEFINE p == c.payload
            r == c.trail
            record == Retrieve(Extensions(w.bytes, w.first), RouteRecord)
<1>1. /\ p \in Seq(Nat) /\ r \in Seq(Nat)
      /\ c = [source |-> c.source, payload |-> p, trail |-> r, hops |-> c.hops]
  <2>1. /\ p \in Seq(Octets) /\ r \in Seq(Addresses)
        /\ c = [source |-> c.source, payload |-> p, trail |-> r, hops |-> c.hops]
    BY GoodIs
  <2>. HIDE DEF p, r
  <2>. QED  BY <2>1, OctetsAre
<1>2. Bare(p) # Unreadable /\ Routed(p, r) # Unreadable
  <2>1. DOMAIN Bare(p) = Slots /\ DOMAIN Routed(p, r) = Slots /\ Slots # {}
    BY Places DEF Bare, Routed
  <2>2. DOMAIN <<>> = {}
    OBVIOUS
  <2>. QED  BY <2>1, <2>2 DEF Unreadable
<1>3. /\ Extensions(w.bytes, w.first) # Unreadable
      /\ w.source = c.source /\ w.hops = c.hops
      /\ Retrieve(Extensions(w.bytes, w.first), Payload).data = p
      /\ (IF record = Free THEN <<c.source>> ELSE record.data) = r
  <2>1. Data(p).data = p /\ Route(r).data = r /\ Route(r) # Free
    BY <1>1, TablesType DEF Data, Route
  <2>2. CASE Extensions(w.bytes, Payload) = Routed(p, r)
    BY <1>1, <1>2, <2>1, <2>2, Finding, Reading
  <2>3. CASE c.trail = <<c.source>> /\ Extensions(w.bytes, Payload) = Bare(p)
    BY <1>1, <1>2, <2>1, <2>3, Finding, Reading
  <2>. QED  BY <2>2, <2>3, Reading
<1>4. Copy(w) = c
  <2>. HIDE DEF p, r
  <2>. QED  BY <1>1, <1>3 DEF Copy
<1>5. Noted(w) = [wire |-> w, copy |-> c]
  BY <1>4 DEF Noted
<1>. QED  BY <1>5, Reading DEF Held, FP!Good

(* A sequence and one more. *)
LEMMA AppendIs ==
    ASSUME NEW S, NEW t \in Seq(S), NEW n \in S
    PROVE  /\ Append(t, n) \in Seq(S)
           /\ Len(Append(t, n)) = Len(t) + 1
           /\ \A i \in 1 .. Len(t) : Append(t, n)[i] = t[i]
           /\ Append(t, n)[Len(t) + 1] = n
  OBVIOUS

(* The record begun by the first hop. *)
LEMMA Lengthened ==
    ASSUME NEW s \in Nat, NEW n \in Nat
    PROVE  Append(<<s>>, n) = <<s, n>>
<1>. DEFINE t == <<s>>
            u == <<s, n>>
<1>1. t \in Seq(Nat) /\ Len(t) = 1 /\ t[1] = s
  OBVIOUS
<1>2. u \in Seq(Nat) /\ Len(u) = 2 /\ u[1] = s /\ u[2] = n
  OBVIOUS
<1>. HIDE DEF t, u
<1>3. /\ Append(t, n) \in Seq(Nat) /\ Len(Append(t, n)) = 2
      /\ Append(t, n)[1] = s /\ Append(t, n)[2] = n
  <2>1. /\ Append(t, n) \in Seq(Nat)
        /\ Len(Append(t, n)) = Len(t) + 1
        /\ \A i \in 1 .. Len(t) : Append(t, n)[i] = t[i]
        /\ Append(t, n)[Len(t) + 1] = n
    BY <1>1, AppendIs
  <2>2. 1 \in 1 .. Len(t) /\ Len(t) + 1 = 2
    BY <1>1
  <2>. QED  BY <1>1, <2>1, <2>2
<1>4. \A i \in 1 .. 2 : i = 1 \/ i = 2
  OBVIOUS
<1>5. Append(t, n) = u
  BY <1>2, <1>3, <1>4
<1>. QED  BY <1>5 DEF t, u

(* What a device that is not on a copy's record passes on. *)
LEMMA Passing ==
    ASSUME Own, NEW x \in Held, NEW n \in Ids,
           ~OnRecord(Parse(x.wire), n), n # Last(x.copy.trail)
    PROVE  LET m == Parse(x.wire)
               y == Noted(Encode[Forwarded(m, n)])
           IN  /\ ~FP!On(n, x.copy.trail)
               /\ Retrieve(m.ext, Payload).data = x.copy.payload
               /\ y \in Held /\ y.copy = FP!Passed(n, x.copy)
<1>. DEFINE m == Parse(x.wire)
            c == x.copy
            p == c.payload
            r == c.trail
            d == FP!Passed(n, c)
<1>1. /\ FP!Good(c) /\ x.wire \in Carried(c)
      /\ m = Mail(c.hops, c.source, x.wire.previous, m.ext)
      /\ \/ m.ext = Routed(p, r)
         \/ m.ext = Bare(p) /\ r = <<c.source>>
  <2>1. FP!Good(c) /\ x.wire \in Carried(c)
    BY DEF Held
  <2>2. m = Mail(x.wire.hops, x.wire.source, x.wire.previous,
                 Extensions(x.wire.bytes, x.wire.first))
    BY DEF Parse, Mail
  <2>3. m.ext = Extensions(x.wire.bytes, x.wire.first)
    BY DEF Parse
  <2>. QED  BY <2>1, <2>2, <2>3, Reading
<1>2. /\ p \in Seq(Nat) /\ r \in Seq(Nat) /\ r \in Seq(Ids) /\ c.source \in Nat /\ n \in Nat
      /\ c.hops \in 1 .. HopLimit /\ r # <<>> /\ r[1] = c.source
  <2>1. /\ p \in Seq(Octets) /\ r \in Seq(Addresses) /\ r \in Seq(Ids) /\ c.source \in Nat
        /\ c.hops \in 1 .. HopLimit /\ r # <<>> /\ r[1] = c.source
    BY <1>1, GoodIs
  <2>2. Octets \subseteq Nat /\ Addresses \subseteq Nat /\ n \in Addresses
    BY OverlayAssumption DEF Octets, Addresses, Own
  <2>. HIDE DEF p, r, c
  <2>3. p \in Seq(Nat)
    BY <2>1, <2>2, Widened
  <2>4. r \in Seq(Nat)
    BY <2>1, <2>2, Widened
  <2>. QED  BY <2>1, <2>2, <2>3, <2>4
<1>3. ~FP!On(n, r)
  <2>1. CASE m.ext = Routed(p, r)
    <3>1. Retrieve(m.ext, RouteRecord).data = r
      BY <1>2, <2>1, Finding DEF Route
    <3>2. ~Contains(r, n)
      BY <3>1 DEF OnRecord
    <3>. QED  BY <3>2 DEF Contains, FP!On
  <2>2. CASE r = <<c.source>>
    <3>1. Len(r) = 1 /\ Last(r) = c.source /\ r[1] = c.source
      BY <2>2 DEF Last
    <3>. QED  BY <3>1 DEF FP!On
  <2>. QED  BY <1>1, <2>1, <2>2
<1>4. FP!Good(d)
  BY <1>1, <1>3, FP!PassedGood, FPAssumptions, FloodsAssumption, LinksAssumption
<1>5. /\ d.hops = c.hops - 1 /\ d.source = c.source /\ d.payload = p
      /\ d.trail = Append(r, n)
  BY DEF FP!Passed
<1>6. (c.hops - 1) % HopWord = d.hops
  <2>1. c.hops - 1 \in Nat /\ HopWord \in Nat /\ c.hops - 1 < HopWord
    <3>1. HopWord \in Nat /\ HopLimit \in Nat /\ HopLimit < HopWord
      BY FloodsAssumption, OverlayAssumption DEF Own
    <3>2. c.hops \in 1 .. HopLimit
      BY <1>2
    <3>. HIDE DEF c
    <3>. QED  BY ONLY <3>1, <3>2
  <2>. QED  BY <1>5, <2>1, SmallMod
<1>7. Record(m.ext, c.source, n) = Routed(p, Append(r, n))
  <2>1. CASE m.ext = Routed(p, r)
    <3>1. Record(Routed(p, r), c.source, n) = Routed(p, Append(r, n))
      <4>. HIDE DEF p, r, c
      <4>. QED  BY <1>2, Recording
    <3>. QED  BY <2>1, <3>1
  <2>2. CASE m.ext = Bare(p) /\ r = <<c.source>>
    <3>1. Append(r, n) = <<c.source, n>>
      BY <1>2, <2>2, Lengthened
    <3>2. Record(Bare(p), c.source, n) = Routed(p, <<c.source, n>>)
      BY <1>2, Recording
    <3>. QED  BY <2>2, <3>1, <3>2
  <2>. QED  BY <1>1, <2>1, <2>2
<1>8. Forwarded(m, n) = Mail(d.hops, d.source, n, Routed(d.payload, d.trail))
  <2>1. m.hops = c.hops /\ m.source = c.source
    BY <1>1 DEF Mail
  <2>. HIDE DEF m, c, d
  <2>. QED  BY <1>5, <1>6, <1>7, <2>1 DEF Forwarded, Mail
<1>9. Encode[Forwarded(m, n)] = Packet(d.hops, d.source, n, RoutedBytes(d.payload, d.trail))
  <2>1. n \in Nat
    BY <1>2
  <2>. HIDE DEF m, d, c
  <2>2. Encode[Mail(d.hops, d.source, n, Routed(d.payload, d.trail))]
          = Packet(d.hops, d.source, n, RoutedBytes(d.payload, d.trail))
    BY ONLY <1>4, <2>1, Own, EncodedCopy
  <2>. QED  BY <1>8, <2>2
<1>10. Encode[Forwarded(m, n)] \in Carried(d)
  <2>. HIDE DEF m, d
  <2>. QED  BY <1>9 DEF Carried
<1>11. Retrieve(m.ext, Payload).data = p
  BY <1>1, <1>2, Finding DEF Data
<1>12. /\ Noted(Encode[Forwarded(m, n)]) \in Held
       /\ Noted(Encode[Forwarded(m, n)]).copy = d
  <2>. HIDE DEF m, d
  <2>. QED  BY <1>4, <1>10, Noting
<1>. QED  BY <1>3, <1>11, <1>12

(* What hc_msg_overlay_init_with_payload composes. *)
LEMMA ComposeIs ==
    ASSUME NEW o, o.source \in Nat, o.payload \in Seq(Nat)
    PROVE  /\ o.layout = <<Payload>> =>
                Compose(o) = Mail(HopLimit, o.source, o.source, Bare(o.payload))
           /\ o.layout = <<Payload, RouteRecord>> =>
                Compose(o) = Mail(HopLimit, o.source, o.source,
                                  Routed(o.payload, <<o.source>>))
<1>. DEFINE p == o.payload
            r == <<o.source>>
            Ext(i) == [type |-> o.layout[i], order |-> i,
                       data |-> IF o.layout[i] = Payload THEN p ELSE <<o.source>>]
            Filled == CHOOSE Filled :
                        Filled = [i \in 0 .. Len(o.layout) |->
                                    IF i = 0 THEN NoExtensions
                                    ELSE Insert(Filled[i - 1], Ext(i))]
<1>1. Compose(o) = Mail(HopLimit, o.source, o.source, Filled[Len(o.layout)])
  BY DEF Compose, Mail
<1>2. p \in Seq(Nat) /\ r \in Seq(Nat)
  OBVIOUS
<1>3. /\ Insert(NoExtensions, Data(p)) = Bare(p)
      /\ Insert(Bare(p), Route(r)) = Routed(p, r)
  BY <1>2, Filling
<1>4. ASSUME o.layout = <<Payload>>
      PROVE  Filled[Len(o.layout)] = Bare(p)
  <2>. DEFINE F == [i \in 0 .. 1 |-> IF i = 0 THEN NoExtensions ELSE Bare(p)]
  <2>1. Len(o.layout) = 1 /\ o.layout[1] = Payload
    BY <1>4
  <2>2. Ext(1) = Data(p)
    BY <2>1 DEF Data
  <2>. HIDE DEF Ext
  <2>3. F = [i \in 0 .. Len(o.layout) |->
               IF i = 0 THEN NoExtensions ELSE Insert(F[i - 1], Ext(i))]
    <3>1. F[0] = NoExtensions /\ F[1] = Insert(F[0], Ext(1))
      BY <1>3, <2>2
    <3>2. \A i \in 0 .. 1 : i = 0 \/ (i = 1 /\ i - 1 = 0)
      OBVIOUS
    <3>3. F = [i \in 0 .. 1 |-> F[i]]
      OBVIOUS
    <3>. HIDE DEF F
    <3>4. \A i \in 0 .. 1 : F[i] = IF i = 0 THEN NoExtensions
                                   ELSE Insert(F[i - 1], Ext(i))
      BY <3>1, <3>2
    <3>. QED  BY <2>1, <3>3, <3>4
  <2>. HIDE DEF F
  <2>4. Filled = [i \in 0 .. Len(o.layout) |->
                    IF i = 0 THEN NoExtensions ELSE Insert(Filled[i - 1], Ext(i))]
    BY <2>3, Zenon
  <2>. HIDE DEF Filled
  <2>5. Filled[0] = NoExtensions /\ Filled[1] = Insert(Filled[0], Ext(1))
    <3>1. 0 \in 0 .. 1 /\ 1 \in 0 .. 1 /\ 1 - 1 = 0 /\ 1 # 0
      OBVIOUS
    <3>. QED  BY <2>1, <2>4, <3>1
  <2>. QED  BY <1>3, <2>1, <2>2, <2>5
<1>5. ASSUME o.layout = <<Payload, RouteRecord>>
      PROVE  Filled[Len(o.layout)] = Routed(p, r)
  <2>. DEFINE F == [i \in 0 .. 2 |-> IF i = 0 THEN NoExtensions
                                     ELSE IF i = 1 THEN Bare(p) ELSE Routed(p, r)]
  <2>1. Len(o.layout) = 2 /\ o.layout[1] = Payload /\ o.layout[2] = RouteRecord
    BY <1>5
  <2>2. Ext(1) = Data(p) /\ Ext(2) = Route(r)
    BY <2>1 DEF Data, Route, Payload, RouteRecord
  <2>. HIDE DEF Ext, r
  <2>3. F = [i \in 0 .. Len(o.layout) |->
               IF i = 0 THEN NoExtensions ELSE Insert(F[i - 1], Ext(i))]
    <3>1. F[0] = NoExtensions /\ F[1] = Insert(F[0], Ext(1)) /\ F[2] = Insert(F[1], Ext(2))
      BY <1>3, <2>2
    <3>2. \A i \in 0 .. 2 : i = 0 \/ (i = 1 /\ i - 1 = 0) \/ (i = 2 /\ i - 1 = 1)
      OBVIOUS
    <3>3. F = [i \in 0 .. 2 |-> F[i]]
      OBVIOUS
    <3>. HIDE DEF F
    <3>4. \A i \in 0 .. 2 : F[i] = IF i = 0 THEN NoExtensions
                                   ELSE Insert(F[i - 1], Ext(i))
      BY <3>1, <3>2
    <3>. QED  BY <2>1, <3>3, <3>4
  <2>. HIDE DEF F
  <2>4. Filled = [i \in 0 .. Len(o.layout) |->
                    IF i = 0 THEN NoExtensions ELSE Insert(Filled[i - 1], Ext(i))]
    BY <2>3, Zenon
  <2>. HIDE DEF Filled
  <2>5. /\ Filled[0] = NoExtensions /\ Filled[1] = Insert(Filled[0], Ext(1))
        /\ Filled[2] = Insert(Filled[1], Ext(2))
    <3>1. 0 \in 0 .. 2 /\ 1 \in 0 .. 2 /\ 2 \in 0 .. 2 /\ 1 - 1 = 0 /\ 2 - 1 = 1
      OBVIOUS
    <3>2. \A i \in 0 .. 2 : Filled[i] = IF i = 0 THEN NoExtensions
                                        ELSE Insert(Filled[i - 1], Ext(i))
      BY <2>1, <2>4
    <3>. QED  BY <3>1, <3>2
  <2>. QED  BY <1>3, <2>1, <2>2, <2>5
<1>. HIDE DEF Filled
<1>. QED  BY <1>1, <1>4, <1>5

(* What a source sends is a fresh copy. *)
LEMMA Originated ==
    ASSUME Own, NEW o \in Originals
    PROVE  LET y == Noted(Encode[Compose(o)])
           IN  /\ y \in Held /\ y.copy = FP!Fresh(o.source, o.payload)
               /\ o.source \in Ids /\ o.payload \in Payloads
<1>. DEFINE c == FP!Fresh(o.source, o.payload)
<1>1. /\ o.source \in Ids /\ o.payload \in Payloads
      /\ o.layout \in {<<Payload>>, <<Payload, RouteRecord>>}
  BY DEF Own
<1>2. FP!Good(c)
  BY <1>1, FP!FreshGood, FPAssumptions, FloodsAssumption, LinksAssumption
<1>3. /\ c.hops = HopLimit /\ c.source = o.source /\ c.payload = o.payload
      /\ c.trail = <<o.source>>
  BY DEF FP!Fresh
<1>. HIDE DEF c
<1>4. /\ c.source \in Nat /\ c.hops \in 1 .. HopLimit
      /\ c.payload \in Seq(Octets) /\ Len(c.payload) \in 1 .. Byte - 1
      /\ c.trail \in Seq(Addresses) /\ 4 * Len(c.trail) < Byte
  BY <1>2, GoodIs
<1>5. c.hops \in Nat
  BY <1>4, FloodsAssumption
<1>6. /\ Encode[Mail(c.hops, c.source, c.source, Bare(c.payload))]
           = Packet(c.hops, c.source, c.source, BareBytes(c.payload))
      /\ Encode[Mail(c.hops, c.source, c.source, Routed(c.payload, c.trail))]
           = Packet(c.hops, c.source, c.source, RoutedBytes(c.payload, c.trail))
  BY ONLY <1>2, <1>4, Own, EncodedCopy
<1>7. /\ o.layout = <<Payload>> =>
           Compose(o) = Mail(c.hops, c.source, c.source, Bare(c.payload))
      /\ o.layout = <<Payload, RouteRecord>> =>
           Compose(o) = Mail(c.hops, c.source, c.source, Routed(c.payload, c.trail))
  <2>1. Octets \subseteq Nat
    BY OverlayAssumption DEF Octets
  <2>2. o.payload \in Seq(Nat) /\ o.source \in Nat
    BY <1>3, <1>4, <2>1, Widened
  <2>. QED  BY <1>3, <2>2, ComposeIs
<1>8. Encode[Compose(o)] \in Carried(c)
  <2>1. CASE o.layout = <<Payload>>
    <3>1. Encode[Compose(o)] = Packet(c.hops, c.source, c.source, BareBytes(c.payload))
      BY <1>6, <1>7, <2>1
    <3>. QED  BY <1>1, <1>3, <3>1 DEF Carried
  <2>2. CASE o.layout = <<Payload, RouteRecord>>
    <3>1. Encode[Compose(o)]
            = Packet(c.hops, c.source, c.source, RoutedBytes(c.payload, c.trail))
      BY <1>6, <1>7, <2>2
    <3>. QED  BY <1>1, <1>3, <3>1 DEF Carried
  <2>. QED  BY <1>1, <2>1, <2>2
<1>9. Noted(Encode[Compose(o)]) \in Held /\ Noted(Encode[Compose(o)]).copy = c
  BY <1>2, <1>8, Noting
<1>. QED  BY <1>1, <1>9 DEF c

(* What is left of a box whose first packet is taken. *)
LEMMA Taken ==
    ASSUME NEW S, NEW s \in Seq(S), s # <<>>
    PROVE  /\ Head(s) = s[1] /\ Head(s) \in S
           /\ 1 \in 1 .. Len(s)
           /\ Tail(s) \in Seq(S) /\ Len(Tail(s)) = Len(s) - 1
           /\ \A i \in 1 .. Len(Tail(s)) : i + 1 \in 1 .. Len(s) /\ Tail(s)[i] = s[i + 1]
           /\ ToSet(s) = {Head(s)} \cup ToSet(Tail(s))
<1>1. /\ Head(s) = s[1] /\ Head(s) \in S
      /\ Len(s) \in Nat /\ Len(s) # 0
      /\ Tail(s) \in Seq(S) /\ Len(Tail(s)) = Len(s) - 1
  OBVIOUS
<1>2. \A i \in 1 .. Len(s) - 1 : i + 1 \in 1 .. Len(s) /\ Tail(s)[i] = s[i + 1]
  BY <1>1
<1>3. 1 \in 1 .. Len(s)
  BY <1>1
<1>4. ToSet(s) = {Head(s)} \cup ToSet(Tail(s))
  <2>1. DOMAIN s = 1 .. Len(s) /\ DOMAIN Tail(s) = 1 .. Len(s) - 1
    BY <1>1
  <2>2. ToSet(s) = {s[i] : i \in 1 .. Len(s)}
    BY <2>1 DEF ToSet
  <2>3. ToSet(Tail(s)) = {Tail(s)[i] : i \in 1 .. Len(s) - 1}
    BY <2>1 DEF ToSet
  <2>4. \A i \in 1 .. Len(s) : i = 1 \/ (i - 1 \in 1 .. Len(s) - 1 /\ (i - 1) + 1 = i)
    BY <1>1
  <2>5. ASSUME NEW x \in ToSet(s) PROVE x \in {Head(s)} \cup ToSet(Tail(s))
    <3>1. PICK i \in 1 .. Len(s) : x = s[i]
      BY <2>2
    <3>2. i = 1 \/ x = Tail(s)[i - 1]
      BY <1>2, <2>4, <3>1
    <3>. QED  BY <1>1, <2>3, <2>4, <3>1, <3>2
  <2>6. ASSUME NEW x \in {Head(s)} \cup ToSet(Tail(s)) PROVE x \in ToSet(s)
    BY <1>1, <1>2, <1>3, <2>2, <2>3
  <2>. QED  BY <2>5, <2>6
<1>. QED  BY <1>1, <1>2, <1>3, <1>4

(* t is s with x behind it. *)
Grown(s, x, t) ==
    /\ Len(t) = Len(s) + 1
    /\ t[Len(s) + 1] = x
    /\ \A i \in 1 .. Len(s) : t[i] = s[i]
    /\ ToSet(t) = ToSet(s) \cup {x}

(* A push leaves a box as it is or puts the packet last. *)
LEMMA Put ==
    ASSUME NEW S, NEW s \in Seq(S), NEW x \in S
    PROVE  /\ Pushed(s, x) \in Seq(S)
           /\ Pushed(s, x) = s \/ Grown(s, x, Pushed(s, x))
<1>1. CASE Full(s)
  BY <1>1 DEF Pushed
<1>2. CASE ~Full(s)
  <2>. DEFINE t == Append(s, x)
  <2>1. /\ t \in Seq(S) /\ Len(t) = Len(s) + 1 /\ t[Len(s) + 1] = x
        /\ \A i \in 1 .. Len(s) : t[i] = s[i]
    BY AppendIs
  <2>. HIDE DEF t
  <2>2. ToSet(t) = ToSet(s) \cup {x}
    <3>1. DOMAIN s = 1 .. Len(s) /\ DOMAIN t = 1 .. Len(s) + 1 /\ Len(s) \in Nat
      BY <2>1
    <3>2. \A i \in 1 .. Len(s) + 1 : i \in 1 .. Len(s) \/ i = Len(s) + 1
      BY <3>1
    <3>3. Len(s) + 1 \in 1 .. Len(s) + 1 /\ 1 .. Len(s) \subseteq 1 .. Len(s) + 1
      BY <3>1
    <3>. QED  BY <2>1, <3>1, <3>2, <3>3 DEF ToSet
  <2>3. Pushed(s, x) = t
    BY <1>2 DEF Pushed, t
  <2>. QED  BY <2>1, <2>2, <2>3 DEF Grown
<1>. QED  BY <1>1, <1>2

(* Neither of two ways is the beginning of the other. *)
Diverge(t, u) == \E i \in 1 .. Len(t) : i <= Len(u) /\ t[i] # u[i]

(* u is t, or goes on from t by one device. *)
GoesOn(t, u) == u = t \/ \E k \in Ids : u = Append(t, k)

(* Ways that diverge still do when they go on ... *)
LEMMA DivergeOn ==
    ASSUME NEW t \in Seq(Ids), NEW u \in Seq(Ids), Diverge(t, u),
           NEW v \in Seq(Ids), GoesOn(t, v), NEW w \in Seq(Ids), GoesOn(u, w)
    PROVE  Diverge(v, w)
<1>1. PICK i \in 1 .. Len(t) : i <= Len(u) /\ t[i] # u[i]
  BY DEF Diverge
<1>2. i \in 1 .. Len(v) /\ v[i] = t[i]
  <2>1. CASE v = t
    BY <2>1
  <2>2. ASSUME NEW k \in Ids, v = Append(t, k) PROVE i \in 1 .. Len(v) /\ v[i] = t[i]
    <3>1. Len(v) = Len(t) + 1 /\ v[i] = t[i] /\ Len(t) \in Nat
      BY <2>2, AppendIs
    <3>. QED  BY <3>1
  <2>. QED  BY <2>1, <2>2 DEF GoesOn
<1>3. i \in 1 .. Len(u)
  BY <1>1
<1>4. i <= Len(w) /\ w[i] = u[i]
  <2>1. CASE w = u
    BY <1>1, <2>1
  <2>2. ASSUME NEW k \in Ids, w = Append(u, k) PROVE i <= Len(w) /\ w[i] = u[i]
    <3>1. Len(w) = Len(u) + 1 /\ w[i] = u[i] /\ Len(u) \in Nat
      BY <1>3, <2>2, AppendIs
    <3>. QED  BY <1>3, <3>1
  <2>. QED  BY <2>1, <2>2 DEF GoesOn
<1>. QED  BY <1>1, <1>2, <1>4 DEF Diverge

(* ... and so do two that go on from one way to different devices. *)
LEMMA DivergeFork ==
    ASSUME NEW t \in Seq(Ids), NEW k \in Ids, NEW l \in Ids, k # l
    PROVE  Diverge(Append(t, k), Append(t, l))
<1>1. /\ Len(Append(t, k)) = Len(t) + 1 /\ Len(Append(t, l)) = Len(t) + 1
      /\ Append(t, k)[Len(t) + 1] = k /\ Append(t, l)[Len(t) + 1] = l
      /\ Len(t) \in Nat
  BY AppendIs
<1>2. Len(t) + 1 \in 1 .. Len(t) + 1 /\ Len(t) + 1 <= Len(t) + 1
  BY <1>1
<1>. QED  BY <1>1, <1>2 DEF Diverge

-----------------------------------------------------------------------------
(* The inductive invariant. *)

Boxed ==
    /\ sendBuf \in [Ids -> Seq(Held)]
    /\ recvBuf \in [Ids -> Seq(Held)]

(* Where packets lie, and the ways they have come there. *)
Box(s) == IF s[1] = "send" THEN sendBuf[s[2]] ELSE recvBuf[s[2]]
Seats == {s \in {"send", "recv"} \X Ids \X Nat : s[3] \in 1 .. Len(Box(s))}
Way(s) ==
    LET trail == Box(s)[s[3]].copy.trail
    IN IF s[1] = "send" THEN trail ELSE Append(trail, s[2])

Apart == \A s, t \in Seats : s # t => Diverge(Way(s), Way(t))

Sided ==
    \A n \in Ids :
       /\ \A i \in 1 .. Len(sendBuf[n]) : Last(sendBuf[n][i].copy.trail) = n
       /\ \A i \in 1 .. Len(recvBuf[n]) : Last(recvBuf[n][i].copy.trail) # n

Empty == \A n \in Ids : sendBuf[n] = <<>> /\ recvBuf[n] = <<>>
Idle == waiting = {} \/ (Empty /\ \E o \in Originals : waiting = {o})

CInv == Boxed /\ Apart /\ Sided /\ Idle

SeatLayout ==
    /\ \A n \in Ids : \A i \in 1 .. Len(sendBuf[n]) : <<"send", n, i>> \in Seats
    /\ \A n \in Ids : \A i \in 1 .. Len(recvBuf[n]) : <<"recv", n, i>> \in Seats
    /\ \A s \in Seats :
          \/ \E n \in Ids : \E i \in 1 .. Len(sendBuf[n]) : s = <<"send", n, i>>
          \/ \E n \in Ids : \E i \in 1 .. Len(recvBuf[n]) : s = <<"recv", n, i>>
    /\ \A n, i : Way(<<"send", n, i>>) = sendBuf[n][i].copy.trail
    /\ \A n, i : Way(<<"recv", n, i>>) = Append(recvBuf[n][i].copy.trail, n)

(* Where packets lie, spelt out. *)
LEMMA SeatsAre == SeatLayout
<1>0. \A n, i : /\ Box(<<"send", n, i>>) = sendBuf[n]
                /\ Box(<<"recv", n, i>>) = recvBuf[n]
  BY DEF Box
<1>1. ASSUME NEW n \in Ids, NEW i \in 1 .. Len(sendBuf[n])
      PROVE  <<"send", n, i>> \in Seats
  <2>1. i \in Nat
    OBVIOUS
  <2>. QED  BY <1>0, <2>1 DEF Seats
<1>2. ASSUME NEW n \in Ids, NEW i \in 1 .. Len(recvBuf[n])
      PROVE  <<"recv", n, i>> \in Seats
  <2>1. i \in Nat
    OBVIOUS
  <2>. QED  BY <1>0, <2>1 DEF Seats
<1>3. ASSUME NEW s \in Seats
      PROVE  \/ \E n \in Ids : \E i \in 1 .. Len(sendBuf[n]) : s = <<"send", n, i>>
             \/ \E n \in Ids : \E i \in 1 .. Len(recvBuf[n]) : s = <<"recv", n, i>>
  <2>1. /\ s = <<s[1], s[2], s[3]>> /\ s[1] \in {"send", "recv"} /\ s[2] \in Ids
        /\ s[3] \in 1 .. Len(Box(s))
    BY DEF Seats
  <2>2. CASE s[1] = "send"
    BY <2>1, <2>2 DEF Box
  <2>3. CASE s[1] = "recv"
    BY <2>1, <2>3 DEF Box
  <2>. QED  BY <2>1, <2>2, <2>3
<1>4. \A n, i : Way(<<"send", n, i>>) = sendBuf[n][i].copy.trail
  BY <1>0 DEF Way
<1>5. \A n, i : Way(<<"recv", n, i>>) = Append(recvBuf[n][i].copy.trail, n)
  BY <1>0 DEF Way
<1>. QED  BY <1>1, <1>2, <1>3, <1>4, <1>5 DEF SeatLayout

(* A packet that is held carries a good copy. *)
LEMMA HeldIs ==
    ASSUME Own, NEW x \in Held
    PROVE  /\ x.copy.trail \in Seq(Ids) /\ x.copy.trail # <<>>
           /\ FP!Good(x.copy) /\ x.copy \in FP!Message
  BY GoodIs DEF Held, FP!Good

(* Ways are sequences of devices. *)
LEMMA WaysAre == Own /\ Boxed => \A s \in Seats : Way(s) \in Seq(Ids)
<1>. SUFFICES ASSUME Own, Boxed, NEW s \in Seats
              PROVE  Way(s) \in Seq(Ids)
  OBVIOUS
<1>1. ASSUME NEW n \in Ids, NEW i \in 1 .. Len(sendBuf[n]), s = <<"send", n, i>>
      PROVE  Way(s) \in Seq(Ids)
  <2>1. sendBuf[n][i] \in Held
    BY DEF Boxed
  <2>. QED  BY <1>1, <2>1, HeldIs, SeatsAre DEF SeatLayout
<1>2. ASSUME NEW n \in Ids, NEW i \in 1 .. Len(recvBuf[n]), s = <<"recv", n, i>>
      PROVE  Way(s) \in Seq(Ids)
  <2>1. recvBuf[n][i] \in Held
    BY DEF Boxed
  <2>2. recvBuf[n][i].copy.trail \in Seq(Ids)
    BY <2>1, HeldIs
  <2>3. Append(recvBuf[n][i].copy.trail, n) \in Seq(Ids)
    BY <2>2, AppendIs
  <2>. QED  BY <1>2, <2>3, SeatsAre DEF SeatLayout
<1>. QED  BY <1>1, <1>2, SeatsAre DEF SeatLayout

(* Packets stay apart if each new way goes on from an old one (f), and     *)
(* different new ways that go on from the same old one diverge.            *)
LEMMA KeptApart ==
    ASSUME Own, Boxed, Boxed', Apart, NEW f \in [Seats' -> Seats],
           \A s \in Seats' : GoesOn(Way(f[s]), Way(s)'),
           \A s, t \in Seats' : s # t /\ f[s] = f[t] => Diverge(Way(s)', Way(t)')
    PROVE  Apart'
<1>0. \A s \in Seats' : Way(s)' \in Seq(Ids)
  <2>1. (Own /\ Boxed => \A s \in Seats : Way(s) \in Seq(Ids))'
    BY WaysAre, PTL
  <2>2. Own'
    BY DEF Own
  <2>. QED  BY <2>1, <2>2
<1>. SUFFICES ASSUME NEW s \in Seats', NEW t \in Seats', s # t, f[s] # f[t]
              PROVE  Diverge(Way(s)', Way(t)')
  BY DEF Apart
<1>1. f[s] \in Seats /\ f[t] \in Seats
  OBVIOUS
<1>2. Way(f[s]) \in Seq(Ids) /\ Way(f[t]) \in Seq(Ids) /\ Diverge(Way(f[s]), Way(f[t]))
  <2>1. \A r \in Seats : Way(r) \in Seq(Ids)
    BY WaysAre
  <2>2. Diverge(Way(f[s]), Way(f[t]))
    BY <1>1, Zenon DEF Apart
  <2>. QED  BY <1>1, <2>1, <2>2
<1>3. Way(s)' \in Seq(Ids) /\ Way(t)' \in Seq(Ids)
  BY <1>0
<1>4. GoesOn(Way(f[s]), Way(s)') /\ GoesOn(Way(f[t]), Way(t)')
  OBVIOUS
<1>. QED  BY ONLY <1>2, <1>3, <1>4, DivergeOn

-----------------------------------------------------------------------------
(* Steps keep it. *)

(* The send task moves the first packet of its box to those who hear it.   *)
LEMMA SendKeeps ==
    ASSUME Own, CInv, NEW n \in Ids, Send(n)
    PROVE  CInv'
<1>. DEFINE p == Head(sendBuf[n])
            t == p.copy.trail
<1>1. PICK R \in SUBSET Links[n] :
         recvBuf' = [k \in Ids |-> IF k \in R THEN Pushed(recvBuf[k], p) ELSE recvBuf[k]]
  BY DEF Send
<1>2. /\ sendBuf' = [sendBuf EXCEPT ![n] = Tail(@)] /\ UNCHANGED waiting
      /\ sendBuf[n] \in Seq(Held) /\ sendBuf[n] # <<>>
  BY DEF Send, CInv, Boxed
<1>3. /\ p = sendBuf[n][1] /\ p \in Held /\ 1 \in 1 .. Len(sendBuf[n])
      /\ sendBuf'[n] \in Seq(Held)
      /\ \A i \in 1 .. Len(sendBuf'[n]) :
            i + 1 \in 1 .. Len(sendBuf[n]) /\ sendBuf'[n][i] = sendBuf[n][i + 1]
  <2>1. sendBuf'[n] = Tail(sendBuf[n])
    BY <1>2 DEF CInv, Boxed
  <2>2. sendBuf[n] \in Seq(Held) /\ sendBuf[n] # <<>>
    BY <1>2
  <2>3. /\ Head(sendBuf[n]) = sendBuf[n][1] /\ Head(sendBuf[n]) \in Held
        /\ 1 \in 1 .. Len(sendBuf[n]) /\ Tail(sendBuf[n]) \in Seq(Held)
        /\ \A i \in 1 .. Len(Tail(sendBuf[n])) :
              i + 1 \in 1 .. Len(sendBuf[n]) /\ Tail(sendBuf[n])[i] = sendBuf[n][i + 1]
    BY ONLY <2>2, Taken
  <2>. QED  BY <2>1, <2>3
<1>4. \A k \in Ids \ {n} : sendBuf'[k] = sendBuf[k]
  BY <1>2 DEF CInv, Boxed
<1>5. \A k \in Ids :
         /\ recvBuf'[k] \in Seq(Held)
         /\ \/ recvBuf'[k] = recvBuf[k]
            \/ /\ k \in Links[n]
               /\ Len(recvBuf'[k]) = Len(recvBuf[k]) + 1
               /\ recvBuf'[k][Len(recvBuf[k]) + 1] = p
               /\ \A i \in 1 .. Len(recvBuf[k]) : recvBuf'[k][i] = recvBuf[k][i]
  <2>. SUFFICES ASSUME NEW k \in Ids
                PROVE  /\ recvBuf'[k] \in Seq(Held)
                       /\ \/ recvBuf'[k] = recvBuf[k]
                          \/ /\ k \in Links[n]
                             /\ Len(recvBuf'[k]) = Len(recvBuf[k]) + 1
                             /\ recvBuf'[k][Len(recvBuf[k]) + 1] = p
                             /\ \A i \in 1 .. Len(recvBuf[k]) :
                                   recvBuf'[k][i] = recvBuf[k][i]
    OBVIOUS
  <2>1. recvBuf[k] \in Seq(Held)
    BY DEF CInv, Boxed
  <2>. HIDE DEF p
  <2>2. CASE k \in R
    <3>1. recvBuf'[k] = Pushed(recvBuf[k], p) /\ k \in Links[n]
      BY <1>1, <2>2
    <3>2. p \in Held
      BY <1>3
    <3>3. /\ Pushed(recvBuf[k], p) \in Seq(Held)
          /\ \/ Pushed(recvBuf[k], p) = recvBuf[k]
             \/ Grown(recvBuf[k], p, Pushed(recvBuf[k], p))
      BY ONLY <2>1, <3>2, Put
    <3>. QED  BY <3>1, <3>3 DEF Grown
  <2>3. CASE k \notin R
    BY <1>1, <2>1, <2>3
  <2>. QED  BY <2>2, <2>3
<1>. HIDE DEF p
<1>6. Boxed'
  <2>1. \A k \in Ids : sendBuf'[k] \in Seq(Held)
    BY <1>3, <1>4 DEF CInv, Boxed
  <2>2. sendBuf' = [k \in Ids |-> sendBuf'[k]] /\ recvBuf' = [k \in Ids |-> recvBuf'[k]]
    BY <1>1, <1>2 DEF CInv, Boxed
  <2>3. sendBuf' \in [Ids -> Seq(Held)]
    BY <2>1, <2>2
  <2>4. recvBuf' \in [Ids -> Seq(Held)]
    BY <1>5, <2>2
  <2>5. Held = Held'
    BY DEF Held, Wires, Carried, FP!Message, FP!Good
  <2>. QED  BY <2>3, <2>4, <2>5 DEF Boxed
<1>7. Sided'
  <2>1. Last(t) = n
    BY <1>3 DEF CInv, Sided
  <2>2. ASSUME NEW k \in Ids, NEW i \in 1 .. Len(sendBuf'[k])
        PROVE  Last(sendBuf'[k][i].copy.trail) = k
    <3>1. CASE k = n
      BY <1>3, <3>1 DEF CInv, Sided
    <3>2. CASE k # n
      BY <1>4, <3>2 DEF CInv, Sided
    <3>. QED  BY <3>1, <3>2
  <2>3. ASSUME NEW k \in Ids, NEW i \in 1 .. Len(recvBuf'[k])
        PROVE  Last(recvBuf'[k][i].copy.trail) # k
    <3>1. CASE i \in 1 .. Len(recvBuf[k]) /\ recvBuf'[k][i] = recvBuf[k][i]
      BY <3>1 DEF CInv, Sided
    <3>2. CASE recvBuf'[k][i] = p /\ k \in Links[n]
      BY <2>1, <3>2, LinksAssumption
    <3>3. Len(recvBuf[k]) \in Nat /\ i \in Nat
      BY DEF CInv, Boxed
    <3>4. \/ i \in 1 .. Len(recvBuf[k]) /\ recvBuf'[k][i] = recvBuf[k][i]
          \/ recvBuf'[k][i] = p /\ k \in Links[n]
      <4>1. CASE recvBuf'[k] = recvBuf[k]
        BY <4>1
      <4>2. CASE recvBuf'[k] # recvBuf[k]
        <5>1. i \in 1 .. Len(recvBuf[k]) \/ i = Len(recvBuf[k]) + 1
          BY <1>5, <3>3, <4>2
        <5>. QED  BY <1>5, <4>2, <5>1
      <4>. QED  BY <4>1, <4>2
    <3>. QED  BY <3>1, <3>2, <3>4
  <2>. QED  BY <2>2, <2>3 DEF Sided
<1>8. Idle'
  BY <1>2 DEF CInv, Idle, Empty
<1>9. Apart'
  <2>. DEFINE first == <<"send", n, 1>>
              f == [s \in Seats' |->
                      IF s[1] = "send" /\ s[2] = n THEN <<"send", n, s[3] + 1>>
                      ELSE IF s[1] = "recv" /\ s[3] > Len(recvBuf[s[2]]) THEN first
                      ELSE s]
              g(r) == IF r[1] = "send" /\ r[2] = n THEN <<"send", n, r[3] - 1>> ELSE r
  <2>1. SeatLayout /\ SeatLayout'
    BY SeatsAre, PTL
  <2>2. t \in Seq(Ids)
    BY <1>3, HeldIs
  <2>3. \A s \in Seats' :
           /\ f[s] \in Seats
           /\ \/ /\ f[s] # first /\ s = g(f[s])
                 /\ Way(s)' = Way(f[s])
              \/ /\ f[s] = first
                 /\ \E k \in Ids : /\ s = <<"recv", k, Len(recvBuf[k]) + 1>>
                                   /\ Way(s)' = Append(t, k)
    <3>1. ASSUME NEW i \in 1 .. Len(sendBuf'[n]), NEW s \in Seats', s = <<"send", n, i>>
          PROVE  /\ f[s] \in Seats /\ f[s] # first /\ s = g(f[s])
                 /\ Way(s)' = Way(f[s])
      <4>1. f[s] = <<"send", n, i + 1>> /\ i + 1 # 1 /\ (i + 1) - 1 = i
        BY <3>1
      <4>2. i + 1 \in 1 .. Len(sendBuf[n]) /\ sendBuf'[n][i] = sendBuf[n][i + 1]
        BY <1>3
      <4>3. <<"send", n, i + 1>> \in Seats
        BY <2>1, <4>2 DEF SeatLayout
      <4>4. Way(s)' = sendBuf'[n][i].copy.trail
        BY <2>1, <3>1 DEF SeatLayout
      <4>5. Way(<<"send", n, i + 1>>) = sendBuf[n][i + 1].copy.trail
        BY <2>1 DEF SeatLayout
      <4>. QED  BY <3>1, <4>1, <4>2, <4>3, <4>4, <4>5
    <3>2. ASSUME NEW k \in Ids \ {n}, NEW i \in 1 .. Len(sendBuf'[k]),
                 NEW s \in Seats', s = <<"send", k, i>>
          PROVE  /\ f[s] \in Seats /\ f[s] # first /\ s = g(f[s])
                 /\ Way(s)' = Way(f[s])
      <4>1. f[s] = s
        BY <3>2
      <4>2. s \in Seats
        BY <1>4, <2>1, <3>2 DEF SeatLayout
      <4>3. Way(s)' = sendBuf'[k][i].copy.trail /\ Way(s) = sendBuf[k][i].copy.trail
        BY <2>1, <3>2 DEF SeatLayout
      <4>. QED  BY <1>4, <3>2, <4>1, <4>2, <4>3
    <3>3. ASSUME NEW k \in Ids, NEW i \in 1 .. Len(recvBuf[k]),
                 recvBuf'[k][i] = recvBuf[k][i],
                 NEW s \in Seats', s = <<"recv", k, i>>
          PROVE  /\ f[s] \in Seats /\ f[s] # first /\ s = g(f[s])
                 /\ Way(s)' = Way(f[s])
      <4>0. Len(recvBuf[k]) \in Nat
        BY DEF CInv, Boxed
      <4>1. f[s] = s
        BY <3>3, <4>0
      <4>2. s \in Seats
        BY <2>1, <3>3 DEF SeatLayout
      <4>3. /\ Way(s)' = Append(recvBuf'[k][i].copy.trail, k)
            /\ Way(s) = Append(recvBuf[k][i].copy.trail, k)
        BY <2>1, <3>3 DEF SeatLayout
      <4>. QED  BY <3>3, <4>1, <4>2, <4>3
    <3>4. ASSUME NEW k \in Ids, recvBuf'[k][Len(recvBuf[k]) + 1] = p,
                 NEW s \in Seats', s = <<"recv", k, Len(recvBuf[k]) + 1>>
          PROVE  f[s] \in Seats /\ f[s] = first /\ Way(s)' = Append(t, k)
      <4>0. Len(recvBuf[k]) \in Nat
        BY DEF CInv, Boxed
      <4>1. f[s] = first
        BY <3>4, <4>0
      <4>2. first \in Seats
        BY <1>3, <2>1 DEF SeatLayout
      <4>3. Way(s)' = Append(recvBuf'[k][Len(recvBuf[k]) + 1].copy.trail, k)
        BY <2>1, <3>4 DEF SeatLayout
      <4>. QED  BY <3>4, <4>1, <4>2, <4>3
    <3>5. ASSUME NEW k \in Ids, NEW i \in 1 .. Len(recvBuf'[k])
          PROVE  \/ i \in 1 .. Len(recvBuf[k]) /\ recvBuf'[k][i] = recvBuf[k][i]
                 \/ i = Len(recvBuf[k]) + 1 /\ recvBuf'[k][i] = p
      <4>1. Len(recvBuf[k]) \in Nat /\ i \in Nat
        BY DEF CInv, Boxed
      <4>2. CASE recvBuf'[k] = recvBuf[k]
        BY <4>2
      <4>3. CASE recvBuf'[k] # recvBuf[k]
        <5>1. i \in 1 .. Len(recvBuf[k]) \/ i = Len(recvBuf[k]) + 1
          BY <1>5, <4>1, <4>3
        <5>. QED  BY <1>5, <4>3, <5>1
      <4>. QED  BY <4>2, <4>3
    <3>. HIDE DEF f, g, first, t
    <3>. SUFFICES ASSUME NEW s \in Seats'
                  PROVE  /\ f[s] \in Seats
                         /\ \/ /\ f[s] # first /\ s = g(f[s])
                               /\ Way(s)' = Way(f[s])
                            \/ /\ f[s] = first
                               /\ \E k \in Ids :
                                     /\ s = <<"recv", k, Len(recvBuf[k]) + 1>>
                                     /\ Way(s)' = Append(t, k)
      OBVIOUS
    <3>6. CASE \E k \in Ids : \E i \in 1 .. Len(sendBuf'[k]) : s = <<"send", k, i>>
      BY <3>1, <3>2, <3>6
    <3>7. CASE \E k \in Ids : \E i \in 1 .. Len(recvBuf'[k]) : s = <<"recv", k, i>>
      <4>1. PICK k \in Ids : \E i \in 1 .. Len(recvBuf'[k]) : s = <<"recv", k, i>>
        BY <3>7
      <4>2. PICK i \in 1 .. Len(recvBuf'[k]) : s = <<"recv", k, i>>
        BY <4>1
      <4>3. CASE i \in 1 .. Len(recvBuf[k]) /\ recvBuf'[k][i] = recvBuf[k][i]
        BY <3>3, <4>2, <4>3
      <4>4. CASE i = Len(recvBuf[k]) + 1 /\ recvBuf'[k][i] = p
        <5>1. f[s] \in Seats /\ f[s] = first /\ Way(s)' = Append(t, k)
          BY <3>4, <4>2, <4>4
        <5>. QED  BY <4>2, <4>4, <5>1
      <4>. QED  BY <3>5, <4>3, <4>4
    <3>. QED  BY <2>1, <3>6, <3>7 DEF SeatLayout
  <2>4. f \in [Seats' -> Seats]
    BY <2>3
  <2>5. Way(first) = t
    BY <1>3, <2>1 DEF SeatLayout
  <2>. HIDE DEF f, g, first, t
  <2>6. \A s \in Seats' : GoesOn(Way(f[s]), Way(s)')
    BY <2>3, <2>5 DEF GoesOn
  <2>7. ASSUME NEW s \in Seats', NEW r \in Seats', s # r, f[s] = f[r]
        PROVE  Diverge(Way(s)', Way(r)')
    <3>1. f[s] = first /\ f[r] = first
      BY <2>3, <2>7
    <3>2. PICK k \in Ids : /\ s = <<"recv", k, Len(recvBuf[k]) + 1>>
                           /\ Way(s)' = Append(t, k)
      BY <2>3, <3>1
    <3>3. PICK l \in Ids : /\ r = <<"recv", l, Len(recvBuf[l]) + 1>>
                           /\ Way(r)' = Append(t, l)
      BY <2>3, <3>1
    <3>4. k # l
      BY <2>7, <3>2, <3>3
    <3>. QED  BY <2>2, <3>2, <3>3, <3>4, DivergeFork
  <2>8. Boxed /\ Apart
    BY DEF CInv
  <2>. QED  BY <1>6, <2>4, <2>6, <2>7, <2>8, KeptApart
<1>. QED  BY <1>6, <1>7, <1>8, <1>9 DEF CInv

(* A device takes the first packet it has received, and may pass on one    *)
(* whose trail goes on to it.                                              *)
Takes(n) ==
    /\ recvBuf[n] # <<>>
    /\ recvBuf' = [recvBuf EXCEPT ![n] = Tail(@)]
    /\ \/ UNCHANGED sendBuf
       \/ \E y \in Held :
             /\ y.copy.trail = Append(Head(recvBuf[n]).copy.trail, n)
             /\ sendBuf' = [sendBuf EXCEPT ![n] = Pushed(@, y)]
    /\ UNCHANGED waiting

(* Such a step keeps the invariant, whether it is hc_forward's success or  *)
(* an early return.                                                        *)
LEMMA TakeKeeps ==
    ASSUME Own, CInv, NEW n \in Ids, Takes(n)
    PROVE  CInv'
<1>. DEFINE t == Head(recvBuf[n]).copy.trail
            l == Len(sendBuf[n])
<1>1. recvBuf[n] \in Seq(Held) /\ sendBuf[n] \in Seq(Held) /\ l \in Nat
  BY DEF CInv, Boxed
<1>2. /\ Head(recvBuf[n]) = recvBuf[n][1] /\ Head(recvBuf[n]) \in Held
      /\ 1 \in 1 .. Len(recvBuf[n])
      /\ recvBuf'[n] \in Seq(Held)
      /\ \A i \in 1 .. Len(recvBuf'[n]) :
            i + 1 \in 1 .. Len(recvBuf[n]) /\ recvBuf'[n][i] = recvBuf[n][i + 1]
  <2>1. recvBuf'[n] = Tail(recvBuf[n])
    BY DEF CInv, Boxed, Takes
  <2>2. recvBuf[n] # <<>>
    BY DEF Takes
  <2>. QED  BY ONLY <1>1, <2>1, <2>2, Taken
<1>3. \A k \in Ids \ {n} : recvBuf'[k] = recvBuf[k] /\ sendBuf'[k] = sendBuf[k]
  BY DEF CInv, Boxed, Takes
<1>4. /\ sendBuf'[n] \in Seq(Held)
      /\ \/ sendBuf'[n] = sendBuf[n]
         \/ /\ Len(sendBuf'[n]) = l + 1
            /\ sendBuf'[n][l + 1].copy.trail = Append(t, n)
            /\ \A i \in 1 .. l : sendBuf'[n][i] = sendBuf[n][i]
  <2>1. CASE UNCHANGED sendBuf
    BY <1>1, <2>1
  <2>2. ASSUME NEW y \in Held, y.copy.trail = Append(t, n),
               sendBuf' = [sendBuf EXCEPT ![n] = Pushed(@, y)]
        PROVE  /\ sendBuf'[n] \in Seq(Held)
               /\ \/ sendBuf'[n] = sendBuf[n]
                  \/ /\ Len(sendBuf'[n]) = l + 1
                     /\ sendBuf'[n][l + 1].copy.trail = Append(t, n)
                     /\ \A i \in 1 .. l : sendBuf'[n][i] = sendBuf[n][i]
    <3>1. sendBuf'[n] = Pushed(sendBuf[n], y)
      BY <2>2 DEF CInv, Boxed
    <3>2. /\ Pushed(sendBuf[n], y) \in Seq(Held)
          /\ \/ Pushed(sendBuf[n], y) = sendBuf[n]
             \/ Grown(sendBuf[n], y, Pushed(sendBuf[n], y))
      BY ONLY <1>1, y \in Held, Put
    <3>. HIDE DEF t
    <3>. QED  BY <2>2, <3>1, <3>2 DEF Grown
  <2>3. \/ UNCHANGED sendBuf
        \/ \E y \in Held : /\ y.copy.trail = Append(t, n)
                          /\ sendBuf' = [sendBuf EXCEPT ![n] = Pushed(@, y)]
    BY Zenon DEF Takes
  <2>. HIDE DEF t, l
  <2>. QED  BY ONLY <2>1, <2>2, <2>3, Zenon
<1>5. \A i \in 1 .. Len(sendBuf'[n]) :
         \/ i \in 1 .. l /\ sendBuf'[n][i] = sendBuf[n][i]
         \/ i = l + 1 /\ sendBuf'[n][i].copy.trail = Append(t, n)
  <2>. SUFFICES ASSUME NEW i \in 1 .. Len(sendBuf'[n])
                PROVE  \/ i \in 1 .. l /\ sendBuf'[n][i] = sendBuf[n][i]
                       \/ i = l + 1 /\ sendBuf'[n][i].copy.trail = Append(t, n)
    OBVIOUS
  <2>. HIDE DEF t
  <2>1. CASE sendBuf'[n] = sendBuf[n]
    BY <2>1
  <2>2. CASE sendBuf'[n] # sendBuf[n]
    <3>. HIDE DEF l
    <3>1. i \in 1 .. l \/ i = l + 1
      BY <1>1, <1>4, <2>2
    <3>. QED  BY <1>4, <2>2, <3>1
  <2>. QED  BY <2>1, <2>2
<1>6. t \in Seq(Ids) /\ Append(t, n) \in Seq(Ids) /\ Last(Append(t, n)) = n
  <2>1. t \in Seq(Ids)
    BY <1>2, HeldIs
  <2>. HIDE DEF t
  <2>2. /\ Append(t, n) \in Seq(Ids) /\ Len(Append(t, n)) = Len(t) + 1
        /\ Append(t, n)[Len(t) + 1] = n
    BY <2>1, AppendIs
  <2>. QED  BY <2>1, <2>2 DEF Last
<1>. HIDE DEF t
<1>7. Boxed'
  <2>1. \A k \in Ids : sendBuf'[k] \in Seq(Held) /\ recvBuf'[k] \in Seq(Held)
    BY <1>2, <1>3, <1>4 DEF CInv, Boxed
  <2>2. sendBuf' = [k \in Ids |-> sendBuf'[k]] /\ recvBuf' = [k \in Ids |-> recvBuf'[k]]
    BY DEF CInv, Boxed, Takes
  <2>3. sendBuf' \in [Ids -> Seq(Held)]
    BY <2>1, <2>2
  <2>4. recvBuf' \in [Ids -> Seq(Held)]
    BY <2>1, <2>2
  <2>5. Held = Held'
    BY DEF Held, Wires, Carried, FP!Message, FP!Good
  <2>. QED  BY <2>3, <2>4, <2>5 DEF Boxed
<1>8. Sided'
  <2>1. ASSUME NEW k \in Ids, NEW i \in 1 .. Len(sendBuf'[k])
        PROVE  Last(sendBuf'[k][i].copy.trail) = k
    <3>1. CASE k = n
      BY <1>5, <1>6, <3>1 DEF CInv, Sided
    <3>2. CASE k # n
      BY <1>3, <3>2 DEF CInv, Sided
    <3>. QED  BY <3>1, <3>2
  <2>2. ASSUME NEW k \in Ids, NEW i \in 1 .. Len(recvBuf'[k])
        PROVE  Last(recvBuf'[k][i].copy.trail) # k
    <3>1. CASE k = n
      <4>1. i + 1 \in 1 .. Len(recvBuf[n]) /\ recvBuf'[n][i] = recvBuf[n][i + 1]
        BY <1>2, <3>1
      <4>2. \A j \in 1 .. Len(recvBuf[n]) : Last(recvBuf[n][j].copy.trail) # n
        BY DEF CInv, Sided
      <4>. QED  BY <3>1, <4>1, <4>2
    <3>2. CASE k # n
      BY <1>3, <3>2 DEF CInv, Sided
    <3>. QED  BY <3>1, <3>2
  <2>. QED  BY <2>1, <2>2 DEF Sided
<1>9. Idle'
  BY DEF CInv, Idle, Empty, Takes
<1>10. Apart'
  <2>. DEFINE first == <<"recv", n, 1>>
              f == [s \in Seats' |->
                      IF s[1] = "recv" /\ s[2] = n THEN <<"recv", n, s[3] + 1>>
                      ELSE IF s = <<"send", n, l + 1>> THEN first
                      ELSE s]
              g(r) == IF r = first THEN <<"send", n, l + 1>>
                      ELSE IF r[1] = "recv" /\ r[2] = n THEN <<"recv", n, r[3] - 1>>
                      ELSE r
  <2>1. SeatLayout /\ SeatLayout'
    BY SeatsAre, PTL
  <2>2. \A s \in Seats' :
           f[s] \in Seats /\ s = g(f[s]) /\ Way(s)' = Way(f[s])
    <3>1. ASSUME NEW i \in 1 .. Len(recvBuf'[n]), NEW s \in Seats', s = <<"recv", n, i>>
          PROVE  f[s] \in Seats /\ s = g(f[s]) /\ Way(s)' = Way(f[s])
      <4>1. f[s] = <<"recv", n, i + 1>> /\ i + 1 # 1 /\ (i + 1) - 1 = i
        BY <3>1
      <4>2. i + 1 \in 1 .. Len(recvBuf[n]) /\ recvBuf'[n][i] = recvBuf[n][i + 1]
        BY <1>2
      <4>3. <<"recv", n, i + 1>> \in Seats
        BY <2>1, <4>2 DEF SeatLayout
      <4>4. Way(s)' = Append(recvBuf'[n][i].copy.trail, n)
        BY <2>1, <3>1 DEF SeatLayout
      <4>5. Way(<<"recv", n, i + 1>>) = Append(recvBuf[n][i + 1].copy.trail, n)
        BY <2>1 DEF SeatLayout
      <4>. QED  BY <3>1, <4>1, <4>2, <4>3, <4>4, <4>5
    <3>2. ASSUME NEW k \in Ids \ {n}, NEW i \in 1 .. Len(recvBuf'[k]),
                 NEW s \in Seats', s = <<"recv", k, i>>
          PROVE  f[s] \in Seats /\ s = g(f[s]) /\ Way(s)' = Way(f[s])
      <4>1. f[s] = s
        BY <3>2
      <4>2. s \in Seats
        BY <1>3, <2>1, <3>2 DEF SeatLayout
      <4>3. /\ Way(s)' = Append(recvBuf'[k][i].copy.trail, k)
            /\ Way(s) = Append(recvBuf[k][i].copy.trail, k)
        BY <2>1, <3>2 DEF SeatLayout
      <4>. QED  BY <1>3, <3>2, <4>1, <4>2, <4>3
    <3>3. ASSUME NEW k \in Ids, NEW i \in 1 .. Len(sendBuf[k]),
                 sendBuf'[k][i] = sendBuf[k][i],
                 NEW s \in Seats', s = <<"send", k, i>>
          PROVE  f[s] \in Seats /\ s = g(f[s]) /\ Way(s)' = Way(f[s])
      <4>0. k = n => i # l + 1
        BY <1>1
      <4>1. f[s] = s /\ s # first
        BY <3>3, <4>0
      <4>2. s \in Seats
        BY <2>1, <3>3 DEF SeatLayout
      <4>3. /\ Way(s)' = sendBuf'[k][i].copy.trail
            /\ Way(s) = sendBuf[k][i].copy.trail
        BY <2>1, <3>3 DEF SeatLayout
      <4>. QED  BY <3>3, <4>1, <4>2, <4>3
    <3>4. ASSUME sendBuf'[n][l + 1].copy.trail = Append(t, n),
                 NEW s \in Seats', s = <<"send", n, l + 1>>
          PROVE  f[s] \in Seats /\ s = g(f[s]) /\ Way(s)' = Way(f[s])
      <4>1. f[s] = first /\ g(first) = s
        BY <3>4
      <4>2. first \in Seats
        BY <1>2, <2>1 DEF SeatLayout
      <4>3. Way(s)' = Append(t, n)
        BY <2>1, <3>4 DEF SeatLayout
      <4>4. Way(first) = Append(recvBuf[n][1].copy.trail, n)
        BY <2>1 DEF SeatLayout
      <4>. QED  BY <1>2, <4>1, <4>2, <4>3, <4>4 DEF t
    <3>. HIDE DEF f, g, first, l
    <3>. SUFFICES ASSUME NEW s \in Seats'
                  PROVE  f[s] \in Seats /\ s = g(f[s]) /\ Way(s)' = Way(f[s])
      OBVIOUS
    <3>5. CASE \E k \in Ids : \E i \in 1 .. Len(recvBuf'[k]) : s = <<"recv", k, i>>
      BY <3>1, <3>2, <3>5
    <3>6. CASE \E k \in Ids : \E i \in 1 .. Len(sendBuf'[k]) : s = <<"send", k, i>>
      <4>1. PICK k \in Ids : \E i \in 1 .. Len(sendBuf'[k]) : s = <<"send", k, i>>
        BY <3>6
      <4>2. PICK i \in 1 .. Len(sendBuf'[k]) : s = <<"send", k, i>>
        BY <4>1
      <4>3. CASE i \in 1 .. Len(sendBuf[k]) /\ sendBuf'[k][i] = sendBuf[k][i]
        BY <3>3, <4>2, <4>3
      <4>4. CASE k = n /\ i = l + 1 /\ sendBuf'[n][i].copy.trail = Append(t, n)
        BY <3>4, <4>2, <4>4
      <4>5. \/ i \in 1 .. Len(sendBuf[k]) /\ sendBuf'[k][i] = sendBuf[k][i]
            \/ k = n /\ i = l + 1 /\ sendBuf'[n][i].copy.trail = Append(t, n)
        <5>1. CASE k = n
          BY <1>5, <5>1 DEF l
        <5>2. CASE k # n
          BY <1>3, <5>2
        <5>. QED  BY <5>1, <5>2
      <4>. QED  BY <4>3, <4>4, <4>5
    <3>. QED  BY <2>1, <3>5, <3>6 DEF SeatLayout
  <2>3. f \in [Seats' -> Seats]
    BY <2>2
  <2>. HIDE DEF f, g, first
  <2>4. \A s \in Seats' : GoesOn(Way(f[s]), Way(s)')
    BY <2>2 DEF GoesOn
  <2>5. \A s, r \in Seats' : f[s] = f[r] => s = r
    BY <2>2
  <2>6. \A s, r \in Seats' : s # r /\ f[s] = f[r] => Diverge(Way(s)', Way(r)')
    BY <2>5
  <2>7. Boxed /\ Apart
    BY DEF CInv
  <2>. QED  BY <1>7, <2>3, <2>4, <2>6, <2>7, KeptApart
<1>. QED  BY <1>7, <1>8, <1>9, <1>10 DEF CInv

-----------------------------------------------------------------------------
(* Steps are steps of the flood. *)

(* ... whichever instance names it. *)
LEMMA SameFlood == FP!Spec => FloodSpec
<1>1. FP!Init => Flood!Init
  BY DEF FP!Init, Flood!Init
<1>2. [FP!Next]_FP!vars => [Flood!Next]_Flood!vars
  BY DEF FP!Next, FP!vars, FP!Lose, FP!Relay, FP!Start, FP!Spread, FP!On, FP!Passed,
         FP!Fresh, Flood!Next, Flood!vars, Flood!Lose, Flood!Relay, Flood!Start,
         Flood!Spread, Flood!On, Flood!Passed, Flood!Fresh
<1>. QED  BY <1>1, <1>2, PTL DEF FP!Spec, Flood!Spec, FloodSpec

AirLayout ==
    /\ Air = [k \in Ids |-> Air[k]]
    /\ \A k \in Ids : \A c :
          c \in Air[k] <=> \/ \E p \in ToSet(recvBuf[k]) : c = p.copy
                           \/ \E l \in Ids : /\ k \in Links[l]
                                             /\ \E p \in ToSet(sendBuf[l]) : c = p.copy

(* Copies on the way to a device, spelt out. *)
LEMMA AirIs == AirLayout
<1>1. Air = [k \in Ids |-> Air[k]]
  BY DEF Air
<1>2. ASSUME NEW k \in Ids, NEW c
      PROVE  c \in Air[k] <=>
               \/ \E p \in ToSet(recvBuf[k]) : c = p.copy
               \/ \E l \in Ids : k \in Links[l] /\ \E p \in ToSet(sendBuf[l]) : c = p.copy
  <2>1. Air[k] = {p.copy : p \in ToSet(recvBuf[k]) \cup
                             UNION {ToSet(sendBuf[j]) : j \in {l \in Ids : k \in Links[l]}}}
    BY DEF Air
  <2>. HIDE DEF Air
  <2>. QED  BY <2>1
<1>. QED  BY <1>1, <1>2 DEF AirLayout

(* What is sent has reached nobody new. *)
LEMMA SendLoses ==
    ASSUME CInv, NEW n \in Ids, Send(n)
    PROVE  FP!Lose
<1>. DEFINE p == Head(sendBuf[n])
<1>1. AirLayout /\ AirLayout'
  BY AirIs, PTL
<1>2. PICK R \in SUBSET Links[n] :
         recvBuf' = [k \in Ids |-> IF k \in R THEN Pushed(recvBuf[k], p) ELSE recvBuf[k]]
  BY DEF Send
<1>3. /\ sendBuf' = [sendBuf EXCEPT ![n] = Tail(@)] /\ UNCHANGED got
      /\ sendBuf[n] \in Seq(Held) /\ sendBuf[n] # <<>>
  BY DEF Send, CInv, Boxed
<1>4. p \in Held /\ ToSet(sendBuf[n]) = {p} \cup ToSet(Tail(sendBuf[n]))
  BY ONLY <1>3, Taken
<1>5. \A l \in Ids : ToSet(sendBuf'[l]) \subseteq ToSet(sendBuf[l])
  BY <1>3, <1>4 DEF CInv, Boxed
<1>6. \A k \in Ids : \/ ToSet(recvBuf'[k]) \subseteq ToSet(recvBuf[k])
                     \/ k \in Links[n] /\ ToSet(recvBuf'[k]) = ToSet(recvBuf[k]) \cup {p}
  <2>. SUFFICES ASSUME NEW k \in R, k \in Ids
                PROVE  \/ ToSet(recvBuf'[k]) \subseteq ToSet(recvBuf[k])
                       \/ ToSet(recvBuf'[k]) = ToSet(recvBuf[k]) \cup {p}
    BY <1>2
  <2>. HIDE DEF p
  <2>1. recvBuf'[k] = Pushed(recvBuf[k], p) /\ recvBuf[k] \in Seq(Held)
    BY <1>2 DEF CInv, Boxed
  <2>2. Pushed(recvBuf[k], p) = recvBuf[k] \/ Grown(recvBuf[k], p, Pushed(recvBuf[k], p))
    BY ONLY <1>4, <2>1, Put
  <2>. QED  BY <2>1, <2>2 DEF Grown
<1>. HIDE DEF p
<1>7. ASSUME NEW k \in Ids, NEW c \in Air'[k]
      PROVE  c \in Air[k]
  <2>1. CASE \E l \in Ids : k \in Links[l] /\ \E x \in ToSet(sendBuf'[l]) : c = x.copy
    BY <1>1, <1>5, <2>1 DEF AirLayout
  <2>2. CASE \E x \in ToSet(recvBuf'[k]) : c = x.copy
    <3>1. PICK x \in ToSet(recvBuf'[k]) : c = x.copy
      BY <2>2
    <3>2. CASE x \in ToSet(recvBuf[k])
      BY <1>1, <3>1, <3>2 DEF AirLayout
    <3>3. CASE k \in Links[n] /\ x = p
      BY <1>1, <1>4, <3>1, <3>3 DEF AirLayout
    <3>. QED  BY <1>6, <3>1, <3>2, <3>3
  <2>. QED  BY <1>1, <2>1, <2>2 DEF AirLayout
<1>8. Air' = [k \in Ids |-> Air'[k]]
  BY <1>1 DEF AirLayout
<1>. QED  BY <1>3, <1>7, <1>8 DEF FP!Lose

(* A device that takes a packet and sends nothing on loses a copy. *)
LEMMA BounceLoses ==
    ASSUME CInv, NEW n \in Ids, Bounce(n)
    PROVE  FP!Lose
<1>1. AirLayout /\ AirLayout'
  BY AirIs, PTL
<1>2. /\ recvBuf' = [recvBuf EXCEPT ![n] = Tail(@)] /\ UNCHANGED <<got, sendBuf>>
      /\ recvBuf[n] \in Seq(Held) /\ recvBuf[n] # <<>>
  BY DEF Bounce, CInv, Boxed
<1>3. ToSet(recvBuf[n]) = {Head(recvBuf[n])} \cup ToSet(Tail(recvBuf[n]))
  <2>1. recvBuf[n] \in Seq(Held) /\ recvBuf[n] # <<>>
    BY <1>2
  <2>. QED  BY ONLY <2>1, Taken
<1>4. \A k \in Ids : ToSet(recvBuf'[k]) \subseteq ToSet(recvBuf[k])
  <2>1. recvBuf'[n] = Tail(recvBuf[n]) /\ \A k \in Ids \ {n} : recvBuf'[k] = recvBuf[k]
    BY <1>2 DEF CInv, Boxed
  <2>. QED  BY <1>3, <2>1
<1>5. ASSUME NEW k \in Ids, NEW c \in Air'[k]
      PROVE  c \in Air[k]
  <2>1. sendBuf' = sendBuf
    BY <1>2
  <2>. QED  BY ONLY <1>1, <1>4, <1>5, <2>1 DEF AirLayout
<1>6. Air' = [k \in Ids |-> Air'[k]]
  BY <1>1 DEF AirLayout
<1>. QED  BY <1>2, <1>5, <1>6 DEF FP!Lose

(* n takes in the first packet it has received and passes y on. *)
Relays(n, y) ==
    LET h == Head(recvBuf[n]) IN
    /\ recvBuf[n] # <<>>
    /\ recvBuf' = [recvBuf EXCEPT ![n] = Tail(@)]
    /\ ~FP!On(n, h.copy.trail)
    /\ y.copy = FP!Passed(n, h.copy)
    /\ sendBuf' = [sendBuf EXCEPT ![n] = Pushed(@, y)]
    /\ got' = [got EXCEPT ![n] = got[n] \cup {h.copy.payload}]
    /\ UNCHANGED waiting

(* hc_forward relays: the packet it encodes carries the copy passed on. *)
LEMMA ForwardRelays ==
    ASSUME Own, CInv, NEW n \in Ids, Forward(n)
    PROVE  \E y \in Held : Relays(n, y)
<1>. DEFINE h == Head(recvBuf[n])
            m == Parse(h.wire)
            y == Noted(Encode[Forwarded(m, n)])
<1>1. /\ recvBuf[n] # <<>>
      /\ Accepted(n, m)
      /\ recvBuf' = [recvBuf EXCEPT ![n] = Tail(@)]
      /\ sendBuf' = [sendBuf EXCEPT ![n] = Pushed(@, y)]
      /\ got' = [got EXCEPT ![n] = @ \cup {Retrieve(m.ext, Payload).data}]
      /\ UNCHANGED waiting
  BY DEF Forward
<1>2. h \in Held /\ Last(h.copy.trail) # n
  <2>1. recvBuf[n] \in Seq(Held)
    BY DEF CInv, Boxed
  <2>2. h = recvBuf[n][1] /\ h \in Held /\ 1 \in 1 .. Len(recvBuf[n])
    BY ONLY <1>1, <2>1, Taken
  <2>. HIDE DEF h
  <2>. QED  BY <2>2 DEF CInv, Sided
<1>3. ~OnRecord(m, n)
  BY <1>1 DEF Accepted
<1>4. /\ ~FP!On(n, h.copy.trail)
      /\ Retrieve(m.ext, Payload).data = h.copy.payload
      /\ y \in Held /\ y.copy = FP!Passed(n, h.copy)
  <2>. HIDE DEF h
  <2>. QED  BY <1>2, <1>3, Passing
<1>. HIDE DEF m, y
<1>5. got' = [got EXCEPT ![n] = got[n] \cup {h.copy.payload}]
  BY <1>1, <1>4
<1>. QED  BY <1>1, <1>4, <1>5 DEF Relays

(* To relay is to take. *)
LEMMA RelayTakes ==
    ASSUME NEW n \in Ids, NEW y \in Held, Relays(n, y)
    PROVE  Takes(n)
<1>1. FP!Passed(n, Head(recvBuf[n]).copy).trail = Append(Head(recvBuf[n]).copy.trail, n)
  BY DEF FP!Passed
<1>. QED  BY <1>1 DEF Relays, Takes

(* No other copy on the way to n is the one it takes. *)
LEMMA TakenOnce ==
    ASSUME Own, CInv, NEW n \in Ids, recvBuf[n] # <<>>
    PROVE  LET c == Head(recvBuf[n]).copy IN
           /\ \A i \in 1 .. Len(Tail(recvBuf[n])) : Tail(recvBuf[n])[i].copy # c
           /\ \A l \in Ids : \A i \in 1 .. Len(sendBuf[l]) : sendBuf[l][i].copy # c
<1>. DEFINE h == Head(recvBuf[n])
            c == h.copy
            first == <<"recv", n, 1>>
<1>1. recvBuf[n] \in Seq(Held) /\ recvBuf[n] # <<>>
  BY DEF CInv, Boxed
<1>2. /\ h = recvBuf[n][1] /\ h \in Held /\ 1 \in 1 .. Len(recvBuf[n])
      /\ \A i \in 1 .. Len(Tail(recvBuf[n])) :
            i + 1 \in 1 .. Len(recvBuf[n]) /\ Tail(recvBuf[n])[i] = recvBuf[n][i + 1]
  BY ONLY <1>1, Taken
<1>3. SeatLayout
  BY SeatsAre
<1>4. first \in Seats /\ Way(first) = Append(c.trail, n) /\ c.trail \in Seq(Ids)
  BY <1>2, <1>3, HeldIs DEF SeatLayout
<1>. HIDE DEF h
<1>5. ASSUME NEW i \in 1 .. Len(Tail(recvBuf[n])), Tail(recvBuf[n])[i].copy = c
      PROVE  FALSE
  <2>. DEFINE s == <<"recv", n, i + 1>>
  <2>1. s \in Seats /\ Way(s) = Append(c.trail, n) /\ s # first
    <3>1. i + 1 \in 1 .. Len(recvBuf[n]) /\ recvBuf[n][i + 1].copy = c /\ i + 1 # 1
      BY <1>2, <1>5
    <3>. QED  BY <1>3, <3>1 DEF SeatLayout
  <2>. HIDE DEF s, first
  <2>2. Diverge(Way(s), Way(first))
    BY <1>4, <2>1, Zenon DEF CInv, Apart
  <2>. QED  BY <1>4, <2>1, <2>2 DEF Diverge
<1>6. ASSUME NEW l \in Ids, NEW i \in 1 .. Len(sendBuf[l]), sendBuf[l][i].copy = c
      PROVE  FALSE
  <2>. DEFINE s == <<"send", l, i>>
  <2>1. s \in Seats /\ Way(s) = c.trail /\ s # first
    BY <1>3, <1>6 DEF SeatLayout
  <2>. HIDE DEF s, first
  <2>2. Diverge(c.trail, Append(c.trail, n))
    <3>1. Diverge(Way(s), Way(first))
      BY <1>4, <2>1, Zenon DEF CInv, Apart
    <3>. QED  BY <1>4, <2>1, <3>1
  <2>3. \A j \in 1 .. Len(c.trail) : Append(c.trail, n)[j] = c.trail[j]
    BY <1>4, AppendIs
  <2>. QED  BY <2>2, <2>3 DEF Diverge
<1>. QED  BY <1>5, <1>6 DEF h

(* Taking a copy in and passing it on is a step of the flood. *)
LEMMA RelayIsRelay ==
    ASSUME Own, CInv, NEW n \in Ids, NEW y \in Held, Relays(n, y)
    PROVE  \E c \in Air[n] : FP!Relay(n, c)
<1>. DEFINE h == Head(recvBuf[n])
            c == h.copy
<1>1. AirLayout /\ AirLayout'
  BY AirIs, PTL
<1>2. /\ recvBuf[n] # <<>> /\ ~FP!On(n, c.trail)
      /\ y.copy = FP!Passed(n, c)
      /\ got' = [got EXCEPT ![n] = got[n] \cup {c.payload}]
      /\ recvBuf[n] \in Seq(Held) /\ sendBuf[n] \in Seq(Held) /\ y \in Held
      /\ recvBuf'[n] = Tail(recvBuf[n]) /\ sendBuf'[n] = Pushed(sendBuf[n], y)
      /\ \A k \in Ids \ {n} : recvBuf'[k] = recvBuf[k] /\ sendBuf'[k] = sendBuf[k]
  BY DEF Relays, CInv, Boxed
<1>3. /\ ToSet(recvBuf[n]) = {h} \cup ToSet(recvBuf'[n])
      /\ recvBuf'[n] \in Seq(Held)
  BY ONLY <1>2, Taken
<1>4. ToSet(sendBuf'[n]) = ToSet(sendBuf[n]) \/ ToSet(sendBuf'[n]) = ToSet(sendBuf[n]) \cup {y}
  <2>1. Pushed(sendBuf[n], y) = sendBuf[n] \/ Grown(sendBuf[n], y, Pushed(sendBuf[n], y))
    BY ONLY <1>2, Put
  <2>. QED  BY <1>2, <2>1 DEF Grown
<1>5. /\ \A p \in ToSet(recvBuf'[n]) : p.copy # c
      /\ \A l \in Ids : \A p \in ToSet(sendBuf[l]) : p.copy # c
  <2>1. /\ \A i \in 1 .. Len(recvBuf'[n]) : recvBuf'[n][i].copy # c
        /\ \A l \in Ids : \A i \in 1 .. Len(sendBuf[l]) : sendBuf[l][i].copy # c
    BY <1>2, TakenOnce
  <2>2. \A s \in Seq(Held) : ToSet(s) = {s[i] : i \in 1 .. Len(s)}
    BY DEF ToSet
  <2>3. ToSet(recvBuf'[n]) = {recvBuf'[n][i] : i \in 1 .. Len(recvBuf'[n])}
    BY <1>3, <2>2
  <2>4. \A l \in Ids : ToSet(sendBuf[l]) = {sendBuf[l][i] : i \in 1 .. Len(sendBuf[l])}
    BY <2>2 DEF CInv, Boxed
  <2>. HIDE DEF c
  <2>5. \A p \in ToSet(recvBuf'[n]) : p.copy # c
    BY <2>1, <2>3
  <2>6. ASSUME NEW l \in Ids, NEW p \in ToSet(sendBuf[l]) PROVE p.copy # c
    <3>1. PICK i \in 1 .. Len(sendBuf[l]) : p = sendBuf[l][i]
      BY <2>4
    <3>. QED  BY <2>1, <3>1
  <2>. QED  BY <2>5, <2>6
<1>. HIDE DEF h
<1>6. c \in Air[n] /\ c \notin Air'[n]
  <2>1. c \in Air[n]
    BY <1>1, <1>3 DEF AirLayout
  <2>2. \A l \in Ids : n \in Links[l] => ToSet(sendBuf'[l]) = ToSet(sendBuf[l])
    BY <1>2, LinksAssumption
  <2>. HIDE DEF c
  <2>. QED  BY <1>1, <1>5, <2>1, <2>2 DEF AirLayout
<1>7. Air'[n] = Air[n] \ {c}
  <2>1. \A l \in Ids : n \in Links[l] => ToSet(sendBuf'[l]) = ToSet(sendBuf[l])
    BY <1>2, LinksAssumption
  <2>2. ASSUME NEW d PROVE d \in Air'[n] \/ d = c <=> d \in Air[n]
    BY <1>1, <1>3, <2>1 DEF AirLayout
  <2>. QED  BY <1>6, <2>2
<1>8. ASSUME NEW k \in Ids \ {n}
      PROVE  Air'[k] = Air[k] \/ (k \in Links[n] /\ Air'[k] = Air[k] \cup {y.copy})
  <2>1. CASE k \notin Links[n] \/ ToSet(sendBuf'[n]) = ToSet(sendBuf[n])
    <3>1. \A l \in Ids : k \in Links[l] => ToSet(sendBuf'[l]) = ToSet(sendBuf[l])
      BY <1>2, <2>1
    <3>2. ASSUME NEW d PROVE d \in Air'[k] <=> d \in Air[k]
      BY <1>1, <1>2, <3>1 DEF AirLayout
    <3>. QED  BY <3>2
  <2>2. CASE k \in Links[n] /\ ToSet(sendBuf'[n]) = ToSet(sendBuf[n]) \cup {y}
    <3>1. ASSUME NEW d PROVE d \in Air'[k] <=> d \in Air[k] \/ d = y.copy
      <4>1. (\E l \in Ids : k \in Links[l] /\ \E p \in ToSet(sendBuf'[l]) : d = p.copy)
              <=> \/ \E l \in Ids : k \in Links[l] /\ \E p \in ToSet(sendBuf[l]) : d = p.copy
                  \/ d = y.copy
        BY <1>2, <2>2
      <4>2. recvBuf'[k] = recvBuf[k]
        BY <1>2
      <4>. QED  BY <1>1, <4>1, <4>2 DEF AirLayout
    <3>. QED  BY <2>2, <3>1
  <2>. QED  BY <1>4, <2>1, <2>2
<1>9. Air' = [k \in Ids |-> Air'[k]]
  BY <1>1 DEF AirLayout
<1>10. FP!Spread(n, {c}, FP!Passed(n, c))
  <2>. HIDE DEF c
  <2>. QED  BY <1>2, <1>7, <1>8, <1>9 DEF FP!Spread
<1>. QED  BY <1>2, <1>6, <1>10 DEF FP!Relay

(* A message is sent into an empty network. *)
LEMMA OriginateSends ==
    ASSUME Own, CInv, NEW o \in Originals, Originate(o)
    PROVE  \E y \in Held :
              /\ o.source \in Ids /\ o.payload \in Payloads
              /\ y.copy = FP!Fresh(o.source, o.payload)
              /\ \A n \in Ids : sendBuf[n] = <<>> /\ recvBuf[n] = <<>>
              /\ sendBuf' = [sendBuf EXCEPT ![o.source] = Pushed(@, y)]
              /\ UNCHANGED <<recvBuf, got>> /\ waiting' = {}
<1>. DEFINE y == Noted(Encode[Compose(o)])
<1>1. /\ y \in Held /\ y.copy = FP!Fresh(o.source, o.payload)
      /\ o.source \in Ids /\ o.payload \in Payloads
  BY Originated
<1>. HIDE DEF y
<1>2. /\ sendBuf' = [sendBuf EXCEPT ![o.source] = Pushed(@, y)]
      /\ UNCHANGED <<recvBuf, got>> /\ o \in waiting /\ waiting' = waiting \ {o}
  BY DEF Originate, y
<1>3. Empty /\ waiting = {o}
  BY <1>2 DEF CInv, Idle
<1>. QED  BY <1>1, <1>2, <1>3 DEF Empty

(* A single packet is apart from all others. *)
LEMMA OriginateKeeps ==
    ASSUME Own, CInv, NEW o \in Originals, Originate(o)
    PROVE  CInv'
<1>. DEFINE s == o.source
<1>1. PICK y \in Held :
         /\ o.source \in Ids /\ o.payload \in Payloads
         /\ y.copy = FP!Fresh(o.source, o.payload)
         /\ \A n \in Ids : sendBuf[n] = <<>> /\ recvBuf[n] = <<>>
         /\ sendBuf' = [sendBuf EXCEPT ![o.source] = Pushed(@, y)]
         /\ UNCHANGED <<recvBuf, got>> /\ waiting' = {}
  BY OriginateSends
<1>2. Pushed(<<>>, y) = <<>> \/ Pushed(<<>>, y) = <<y>>
  BY DEF Pushed
<1>3. /\ \A n \in Ids : recvBuf'[n] = <<>>
      /\ \A n \in Ids \ {s} : sendBuf'[n] = <<>>
      /\ sendBuf'[s] = <<>> \/ sendBuf'[s] = <<y>>
  BY <1>1, <1>2 DEF CInv, Boxed
<1>4. ASSUME NEW n \in Ids, NEW i \in 1 .. Len(sendBuf'[n])
      PROVE  n = s /\ i = 1 /\ sendBuf'[n][i] = y
  <2>1. Len(<<>>) = 0 /\ Len(<<y>>) = 1 /\ <<y>>[1] = y
    OBVIOUS
  <2>2. sendBuf'[n] # <<>>
    BY <2>1
  <2>3. n = s /\ sendBuf'[n] = <<y>>
    BY <1>3, <2>2
  <2>. QED  BY <2>1, <2>3
<1>5. Boxed'
  <2>1. <<>> \in Seq(Held) /\ <<y>> \in Seq(Held)
    OBVIOUS
  <2>2. \A n \in Ids : sendBuf'[n] \in Seq(Held)
    BY <1>3, <2>1
  <2>3. sendBuf' = [n \in Ids |-> sendBuf'[n]]
    BY <1>1 DEF CInv, Boxed
  <2>4. sendBuf' \in [Ids -> Seq(Held)]
    BY <2>2, <2>3
  <2>5. recvBuf' \in [Ids -> Seq(Held)]
    BY <1>1 DEF CInv, Boxed
  <2>6. Held = Held'
    BY DEF Held, Wires, Carried, FP!Message, FP!Good
  <2>. QED  BY <2>4, <2>5, <2>6 DEF Boxed
<1>6. Sided'
  <2>1. y.copy.trail = <<s>>
    BY <1>1 DEF FP!Fresh
  <2>2. Last(<<s>>) = s
    BY DEF Last
  <2>3. \A n \in Ids : Len(recvBuf'[n]) = 0
    BY <1>3
  <2>4. \A n \in Ids : 1 .. Len(recvBuf'[n]) = {}
    BY <2>3
  <2>. QED  BY <1>4, <2>1, <2>2, <2>4 DEF Sided
<1>7. Idle'
  BY <1>1 DEF Idle
<1>8. Apart'
  <2>1. SeatLayout'
    BY SeatsAre, PTL
  <2>2. \A n \in Ids : 1 .. Len(recvBuf'[n]) = {}
    <3>1. \A n \in Ids : Len(recvBuf'[n]) = 0
      BY <1>3
    <3>. QED  BY <3>1
  <2>3. ASSUME NEW r \in Seats' PROVE r = <<"send", s, 1>>
    <3>1. PICK n \in Ids : \E i \in 1 .. Len(sendBuf'[n]) : r = <<"send", n, i>>
      BY <2>1, <2>2 DEF SeatLayout
    <3>. QED  BY <1>4, <3>1
  <2>. QED  BY <2>3 DEF Apart
<1>. QED  BY <1>5, <1>6, <1>7, <1>8 DEF CInv

(* It is the start of a flood. *)
LEMMA OriginateStarts ==
    ASSUME Own, CInv, NEW o \in Originals, Originate(o)
    PROVE  o.source \in Ids /\ o.payload \in Payloads /\ FP!Start(o.source, o.payload)
<1>. DEFINE s == o.source
            c == FP!Fresh(s, o.payload)
<1>1. PICK y \in Held :
         /\ o.source \in Ids /\ o.payload \in Payloads
         /\ y.copy = FP!Fresh(o.source, o.payload)
         /\ \A n \in Ids : sendBuf[n] = <<>> /\ recvBuf[n] = <<>>
         /\ sendBuf' = [sendBuf EXCEPT ![o.source] = Pushed(@, y)]
         /\ UNCHANGED <<recvBuf, got>> /\ waiting' = {}
  BY OriginateSends
<1>2. AirLayout /\ AirLayout'
  BY AirIs, PTL
<1>3. ToSet(<<>>) = {} /\ ToSet(<<y>>) = {y}
  BY DEF ToSet
<1>4. \A k \in Ids : Air[k] = {}
  BY <1>1, <1>2, <1>3 DEF AirLayout
<1>5. /\ \A n \in Ids : recvBuf'[n] = <<>>
      /\ \A n \in Ids \ {s} : sendBuf'[n] = <<>>
      /\ sendBuf'[s] = <<>> \/ sendBuf'[s] = <<y>>
  <2>1. Pushed(<<>>, y) = <<>> \/ Pushed(<<>>, y) = <<y>>
    BY DEF Pushed
  <2>. QED  BY <1>1, <2>1 DEF CInv, Boxed
<1>. HIDE DEF c
<1>6. ASSUME NEW k \in Ids
      PROVE  Air'[k] = {} \/ (k \in Links[s] /\ Air'[k] = {c})
  <2>1. CASE sendBuf'[s] = <<>> \/ k \notin Links[s]
    <3>1. \A l \in Ids : k \in Links[l] => sendBuf'[l] = <<>>
      BY <1>5, <2>1
    <3>2. \A d : d \notin Air'[k]
      BY <1>2, <1>3, <1>5, <3>1 DEF AirLayout
    <3>. QED  BY <3>2
  <2>2. CASE sendBuf'[s] = <<y>> /\ k \in Links[s]
    <3>1. ASSUME NEW d PROVE d \in Air'[k] <=> d = c
      <4>1. \A l \in Ids : l # s => sendBuf'[l] = <<>>
        BY <1>5
      <4>. QED  BY <1>1, <1>2, <1>3, <1>5, <2>2, <4>1 DEF AirLayout, c
    <3>. QED  BY <2>2, <3>1
  <2>. QED  BY <1>5, <2>1, <2>2
<1>7. Air' = [k \in Ids |-> Air'[k]]
  BY <1>2 DEF AirLayout
<1>8. FP!Spread(s, {}, c)
  BY <1>4, <1>6, <1>7 DEF FP!Spread
<1>. QED  BY <1>1, <1>8 DEF FP!Start, c

(* The invariant holds initially, ... *)
LEMMA CInit == Init => CInv
<1>. SUFFICES ASSUME Init PROVE CInv
  OBVIOUS
<1>1. Empty
  BY DEF Init, Empty
<1>2. Boxed
  <2>1. <<>> \in Seq(Held)
    OBVIOUS
  <2>. QED  BY <2>1 DEF Init, Boxed
<1>3. \A n \in Ids : 1 .. Len(sendBuf[n]) = {} /\ 1 .. Len(recvBuf[n]) = {}
  <2>1. \A n \in Ids : Len(sendBuf[n]) = 0 /\ Len(recvBuf[n]) = 0
    BY <1>1 DEF Empty
  <2>. QED  BY <2>1
<1>4. Sided
  BY <1>3 DEF Sided
<1>5. Apart
  BY <1>3, SeatsAre DEF SeatLayout, Apart
<1>6. Idle
  BY <1>1 DEF Init, Idle
<1>. QED  BY <1>2, <1>4, <1>5, <1>6 DEF CInv

(* ... every step keeps it, ... *)
LEMMA CNext ==
    ASSUME Own, CInv, [Next]_vars
    PROVE  CInv'
<1>1. ASSUME NEW o \in Originals, Originate(o)
      PROVE  CInv'
  BY <1>1, OriginateKeeps
<1>2. ASSUME NEW n \in Ids, Send(n)
      PROVE  CInv'
  BY <1>2, SendKeeps
<1>3. ASSUME NEW n \in Ids, Forward(n)
      PROVE  CInv'
  BY <1>3, ForwardRelays, RelayTakes, TakeKeeps
<1>4. ASSUME NEW n \in Ids, Bounce(n)
      PROVE  CInv'
  <2>1. Takes(n)
    BY <1>4 DEF Bounce, Takes
  <2>. QED  BY <2>1, TakeKeeps
<1>5. ASSUME UNCHANGED <<sendBuf, recvBuf, waiting>>
      PROVE  CInv'
  <2>1. Boxed'
    BY <1>5 DEF CInv, Boxed, Held, Wires, Carried, FP!Message, FP!Good
  <2>2. Apart'
    BY <1>5 DEF CInv, Apart, Seats, Way, Box
  <2>3. Sided' /\ Idle'
    BY <1>5 DEF CInv, Sided, Idle, Empty
  <2>. QED  BY <2>1, <2>2, <2>3 DEF CInv
<1>6. ASSUME NEW n \in Ids, Retrust(n)
      PROVE  CInv'
  BY <1>5, <1>6 DEF Retrust
<1>7. CASE UNCHANGED vars
  BY <1>5, <1>7 DEF vars
<1>. QED  BY <1>1, <1>2, <1>3, <1>4, <1>6, <1>7 DEF Next

(* ... and under it every step is one of the flood's, or a stutter. *)
LEMMA CodeStep ==
    ASSUME Own, CInv, [Next]_vars
    PROVE  [FP!Next]_FP!vars
<1>1. ASSUME NEW o \in Originals, Originate(o)
      PROVE  FP!Next
  BY <1>1, OriginateStarts DEF FP!Next
<1>2. ASSUME NEW n \in Ids, Send(n)
      PROVE  FP!Next
  BY <1>2, SendLoses DEF FP!Next
<1>3. ASSUME NEW n \in Ids, Forward(n)
      PROVE  FP!Next
  BY <1>3, ForwardRelays, RelayIsRelay DEF FP!Next
<1>4. ASSUME NEW n \in Ids, Bounce(n)
      PROVE  FP!Next
  BY <1>4, BounceLoses DEF FP!Next
<1>5. ASSUME UNCHANGED <<sendBuf, recvBuf, got>>
      PROVE  UNCHANGED FP!vars
  BY <1>5 DEF FP!vars, Air
<1>6. ASSUME NEW n \in Ids, Retrust(n)
      PROVE  UNCHANGED FP!vars
  BY <1>5, <1>6 DEF Retrust
<1>7. CASE UNCHANGED vars
  BY <1>5, <1>7 DEF vars
<1>. QED  BY <1>1, <1>2, <1>3, <1>4, <1>6, <1>7 DEF Next

(* The network begins as a flood does. *)
LEMMA CodeInit == Init => FP!Init
<1>. SUFFICES ASSUME Init PROVE FP!Init
  OBVIOUS
<1>1. AirLayout
  BY AirIs
<1>2. ToSet(<<>>) = {}
  BY DEF ToSet
<1>3. \A k \in Ids : \A c : c \notin Air[k]
  BY <1>1, <1>2 DEF AirLayout, Init
<1>4. Air = [k \in Ids |-> {}]
  BY <1>1, <1>3 DEF AirLayout
<1>. QED  BY <1>4 DEF Init, FP!Init

(* The invariant always holds. *)
LEMMA CInvariance == ASSUME Own PROVE Spec => []CInv
<1>1. CInv /\ [Next]_vars => CInv'
  BY CNext
<1>. QED  BY <1>1, CInit, PTL DEF Spec

(* The network implements the flood ... *)
LEMMA CodeFloodsFP == ASSUME Own PROVE Spec => FP!Spec
<1>1. CInv /\ [Next]_vars => [FP!Next]_FP!vars
  BY CodeStep
<1>. QED  BY <1>1, CodeInit, CInvariance, PTL DEF Spec, FP!Spec

-----------------------------------------------------------------------------
(* Through encoding and parsing at every hop, the network floods: each     *)
(* device that takes a payload in passes on that payload, its trail and    *)
(* itself, and takes every copy in once (hc_engine.c:66-110).              *)
THEOREM NetworkFloods == ASSUME Own PROVE Spec => FloodSpec
  BY CodeFloodsFP, SameFlood, PTL

(* No packet in any buffer carries a copy that has come by a device twice  *)
(* (hc_engine.c:84-90): what is true of floods is true of the network.     *)
THEOREM NetworkTrailsSimple == ASSUME Own PROVE Spec => []TrailsSimple
<1>1. FP!Spec => []FP!TrailsSimple
  BY FP!NoCopyCirculates, FPAssumptions, FloodsAssumption, LinksAssumption, PTL
<1>2. FP!TrailsSimple => TrailsSimple
  BY DEF TrailsSimple, Flood!TrailsSimple, Flood!Simple, FP!TrailsSimple, FP!Simple
<1>. QED  BY <1>1, <1>2, CodeFloodsFP, PTL

(* The unchecked, wrapping hopLimit (hc_engine.c:94) counts the hops of    *)
(* every packet.                                                           *)
THEOREM NetworkHopsCounted == ASSUME Own PROVE Spec => []HopsCounted
<1>1. FP!Spec => []FP!HopsCounted
  BY FP!HopLimitHolds, FPAssumptions, FloodsAssumption, LinksAssumption, PTL
<1>2. FP!HopsCounted => HopsCounted
  BY DEF HopsCounted, Flood!HopsCounted, FP!HopsCounted
<1>. QED  BY <1>1, <1>2, CodeFloodsFP, PTL
=============================================================================
