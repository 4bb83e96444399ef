--------------------------- MODULE FloodingProofs ---------------------------
(***************************************************************************)
(* No copy comes by a device twice, so none comes by more devices than     *)
(* there are, and the hop limit never runs out. Inductive: what is in the  *)
(* air is Good, a fresh copy is, and so is a copy passed on by a device    *)
(* that is not on its trail.                                               *)
(***************************************************************************)
EXTENDS Flooding, FiniteSetTheorems, TLAPS

Good(m) ==
    /\ m \in Message
    /\ m.trail # <<>>
    /\ m.trail[1] = m.source
    /\ Simple(m.trail)
    /\ m.hops = HopLimit + 1 - Len(m.trail)

IInv ==
    /\ TypeOK
    /\ \A n \in Ids : \A m \in air[n] : Good(m)

-----------------------------------------------------------------------------
(* A fresh copy's trail is its source. *)
LEMMA FreshGood ==
    ASSUME NEW s \in Ids, NEW p \in Payloads
    PROVE  Good(Fresh(s, p))
<1>1. Fresh(s, p) \in Message
  BY FloodsAssumption DEF Fresh, Message
<1>2. Len(<<s>>) = 1 /\ <<s>>[1] = s /\ <<s>> # <<>>
  OBVIOUS
<1>. QED
  BY <1>1, <1>2, FloodsAssumption DEF Good, Fresh, Simple

(* A copy stays good when a device that is not on its trail passes it on.  *)
LEMMA PassedGood ==
    ASSUME NEW n \in Ids, NEW m, Good(m), ~On(n, m.trail)
    PROVE  Good(Passed(n, m))
<1>. DEFINE t == m.trail
            u == Append(t, n)
<1>1. t \in Seq(Ids) /\ m.hops \in Int
  BY DEF Good, Message
<1>2. /\ u \in Seq(Ids)
      /\ Len(u) = Len(t) + 1
      /\ \A i \in 1 .. Len(t) : u[i] = t[i]
      /\ u[Len(t) + 1] = n
  BY <1>1
<1>4. Passed(n, m) \in Message
  BY <1>1, <1>2 DEF Passed, Good, Message
<1>5. /\ Passed(n, m).trail = u
      /\ Passed(n, m).hops = m.hops - 1
      /\ Passed(n, m).source = m.source
  BY DEF Passed
<1>6. Len(t) > 0
  BY <1>1 DEF Good
<1>7. u # <<>> /\ u[1] = m.source
  BY <1>1, <1>2, <1>6 DEF Good
<1>8. Simple(u)
  <2>. SUFFICES ASSUME NEW i \in 1 .. Len(u), NEW j \in 1 .. Len(u), u[i] = u[j]
                PROVE  i = j
    BY DEF Simple
  <2>1. \A k \in 1 .. Len(t) : t[k] # n
    BY DEF On
  <2>2. CASE i \in 1 .. Len(t) /\ j \in 1 .. Len(t)
    BY <1>2, <2>2 DEF Good, Simple
  <2>3. CASE i \notin 1 .. Len(t) \/ j \notin 1 .. Len(t)
    BY <1>1, <1>2, <2>1, <2>3
  <2>. QED  BY <2>2, <2>3
<1>9. m.hops - 1 = HopLimit + 1 - Len(u)
  BY <1>1, <1>2, FloodsAssumption DEF Good
<1>. QED
  BY <1>4, <1>5, <1>7, <1>8, <1>9 DEF Good

(* What a step puts in the air was there before or is the one new copy. *)
LEMMA SpreadKeeps ==
    ASSUME IInv, NEW n \in Ids, NEW M, NEW c, Good(c), Spread(n, M, c)
    PROVE  /\ air' \in [Ids -> SUBSET Message]
           /\ \A k \in Ids : \A m \in air'[k] : Good(m)
<1>1. \A k \in Ids : air'[k] \subseteq air[k] \cup {c}
  BY DEF Spread
<1>2. \A k \in Ids : \A m \in air'[k] : Good(m)
  BY <1>1 DEF IInv
<1>3. \A k \in Ids : air'[k] \in SUBSET Message
  BY <1>2 DEF Good
<1>4. air' = [k \in Ids |-> air'[k]]
  BY DEF Spread
<1>. QED
  BY <1>2, <1>3, <1>4

(* A trail without repeats is no longer than there are devices, of which   *)
(* there are no more than the hop limit.                                   *)
LEMMA SimpleIsShort ==
    ASSUME NEW t \in Seq(Ids), Simple(t)
    PROVE  Len(t) <= Cardinality(Ids) /\ Len(t) <= HopLimit
<1>. DEFINE D == 1 .. Len(t)
<1>1. IsFiniteSet(D) /\ Cardinality(D) = Len(t)
  <2>1. Len(t) \in Nat
    OBVIOUS
  <2>2. 1 \in Int /\ Len(t) \in Int
    BY <2>1
  <2>3. /\ IsFiniteSet(1 .. Len(t))
        /\ Cardinality(1 .. Len(t)) = IF 1 > Len(t) THEN 0 ELSE Len(t) - 1 + 1
    BY <2>2, FS_Interval
  <2>. QED  BY <2>1, <2>3
<1>2. t \in [D -> Ids]
  OBVIOUS
<1>3. t \in Injection(D, Ids)
  BY <1>2 DEF Simple, Injection, IsInjective
<1>4. Cardinality(D) <= Cardinality(Ids)
  BY <1>1, <1>3, FS_Injection, FloodsAssumption DEF ExistsInjection
<1>5. Cardinality(Ids) \in Nat
  BY FS_CardinalityType, FloodsAssumption
<1>. QED
  BY <1>1, <1>4, <1>5, HopsAssumption, FloodsAssumption

LEMMA InvInit == Init => IInv
  BY DEF Init, IInv, TypeOK

LEMMA InvNext == IInv /\ [Next]_vars => IInv'
<1>. SUFFICES ASSUME IInv, [Next]_vars
              PROVE  IInv'
  OBVIOUS
<1>1. CASE Lose
  <2>1. \A n \in Ids : air'[n] \subseteq air[n]
    BY <1>1 DEF Lose
  <2>2. \A n \in Ids : air'[n] \in SUBSET Message
    BY <2>1 DEF IInv, TypeOK
  <2>3. air' \in [Ids -> SUBSET Message]
    BY <1>1, <2>2 DEF Lose
  <2>. QED
    BY <1>1, <2>1, <2>3 DEF Lose, IInv, TypeOK
<1>2. ASSUME NEW n \in Ids, NEW m \in air[n], Relay(n, m)
      PROVE  IInv'
  <2>1. Good(m) /\ ~On(n, m.trail)
    BY <1>2 DEF IInv, Relay
  <2>2. Good(Passed(n, m))
    BY <2>1, PassedGood
  <2>3. /\ air' \in [Ids -> SUBSET Message]
        /\ \A k \in Ids : \A c \in air'[k] : Good(c)
    BY <1>2, <2>2, SpreadKeeps DEF Relay
  <2>4. got' \in [Ids -> SUBSET Payloads]
    BY <1>2, <2>1 DEF Relay, Good, Message, IInv, TypeOK
  <2>. QED
    BY <2>3, <2>4 DEF IInv, TypeOK
<1>3. ASSUME NEW s \in Ids, NEW p \in Payloads, Start(s, p)
      PROVE  IInv'
  <2>1. /\ air' \in [Ids -> SUBSET Message]
        /\ \A k \in Ids : \A c \in air'[k] : Good(c)
    BY <1>3, FreshGood, SpreadKeeps DEF Start
  <2>. QED
    BY <1>3, <2>1 DEF Start, IInv, TypeOK
<1>4. CASE UNCHANGED vars
  BY <1>4 DEF vars, IInv, TypeOK
<1>. QED
  BY <1>1, <1>2, <1>3, <1>4 DEF Next

LEMMA InvImplies == IInv => TrailsSimple /\ HopsCounted
<1>. SUFFICES ASSUME IInv, NEW n \in Ids, NEW m \in air[n]
              PROVE  /\ m.trail # <<>> /\ m.trail[1] = m.source /\ Simple(m.trail)
                     /\ m.hops = HopLimit + 1 - Len(m.trail) /\ m.hops > 0
  BY DEF TrailsSimple, HopsCounted
<1>1. Good(m) /\ m.trail \in Seq(Ids)
  BY DEF IInv, Good, Message
<1>2. Len(m.trail) <= HopLimit /\ Len(m.trail) \in Nat
  BY <1>1, SimpleIsShort DEF Good
<1>3. m.hops > 0
  <2>1. m.hops = HopLimit + 1 - Len(m.trail) /\ HopLimit \in Nat
    BY <1>1, FloodsAssumption DEF Good
  <2>. QED  BY <1>2, <2>1
<1>. QED
  BY <1>1, <1>3 DEF Good

LEMMA Invariance == Spec => []IInv
  BY InvInit, InvNext, PTL DEF Spec

(* Copies in the air and payloads delivered stay in their types: no copy   *)
(* without a source among the devices (hc_engine.c:66-110).                *)
THEOREM FloodTypeCorrect == Spec => []TypeOK
<1>1. IInv => TypeOK
  BY DEF IInv
<1>. QED
  BY <1>1, Invariance, PTL

(* Whatever is lost, reordered or no longer trusted, no copy circulates    *)
(* (hc_engine.c:84-90).                                                    *)
THEOREM NoCopyCirculates == Spec => []TrailsSimple
  BY InvImplies, Invariance, PTL

(* In a network of no more devices than the hop limit of 254, hopLimit     *)
(* counts the hops and never wraps (hc_engine.c:94).                       *)
THEOREM HopLimitHolds == Spec => []HopsCounted
  BY InvImplies, Invariance, PTL
=============================================================================
