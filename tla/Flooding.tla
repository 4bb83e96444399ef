------------------------------ MODULE Flooding ------------------------------
(***************************************************************************)
(* What overlay forwarding promises: a payload spreads from its source, a  *)
(* copy per path. Every copy knows the trail of devices it has come by; a  *)
(* device takes in a copy and passes it on only if it is not on its trail. *)
(* Copies may be lost, or ignored by a device that does not trust the      *)
(* source, at any time.                                                    *)
(***************************************************************************)
EXTENDS Floods, Sequences

VARIABLES
    air,  \* air[n]: copies on their way to n
    got   \* got[n]: payloads handed to n's application

vars == <<air, got>>

Message == [source : Ids, payload : Payloads, trail : Seq(Ids), hops : Int]

On(n, trail) == \E i \in 1 .. Len(trail) : trail[i] = n

Fresh(s, p) ==
    [source |-> s, payload |-> p, trail |-> <<s>>, hops |-> HopLimit]

(* The copy that n passes on. *)
Passed(n, m) ==
    [source |-> m.source, payload |-> m.payload,
     trail |-> Append(m.trail, n), hops |-> m.hops - 1]

Init ==
    /\ air = [n \in Ids |-> {}]
    /\ got = [n \in Ids |-> {}]

(* Copies in M, no longer on their way to n itself, are joined by c on the *)
(* way to some of the devices that hear n.                                 *)
Spread(n, M, c) ==
    /\ air' = [k \in Ids |-> air'[k]]
    /\ \A k \in Ids :
          LET kept == IF k = n THEN air[k] \ M ELSE air[k] IN
          air'[k] = kept \/ (k \in Links[n] /\ air'[k] = kept \cup {c})

Start(s, p) ==
    /\ UNCHANGED got
    /\ Spread(s, {}, Fresh(s, p))

(* n takes in m and passes it on. *)
Relay(n, m) ==
    /\ got' = [got EXCEPT ![n] = got[n] \cup {m.payload}]
    /\ ~On(n, m.trail)
    /\ Spread(n, {m}, Passed(n, m))

(* Copies vanish or are ignored. *)
Lose ==
    /\ UNCHANGED got
    /\ air' = [k \in Ids |-> air'[k]]
    /\ \A n \in Ids : air'[n] \subseteq air[n]

Next ==
    \/ Lose
    \/ \E n \in Ids : \E m \in air[n] : Relay(n, m)
    \/ \E s \in Ids, p \in Payloads : Start(s, p)

Spec == Init /\ [][Next]_vars

-----------------------------------------------------------------------------
TypeOK ==
    /\ air \in [Ids -> SUBSET Message]
    /\ got \in [Ids -> SUBSET Payloads]

Simple(trail) ==
    \A i, j \in 1 .. Len(trail) : trail[i] = trail[j] => i = j

(* A copy never comes by the same device twice, and its trail begins at    *)
(* its source: the route record is the only thing that stops a message     *)
(* from circulating (hc_engine.c:84-90).                                   *)
TrailsSimple ==
    \A n \in Ids : \A m \in air[n] :
       m.trail # <<>> /\ m.trail[1] = m.source /\ Simple(m.trail)

(* hopLimit, which is decremented but never tested (hc_engine.c:94), says  *)
(* how far a copy has come, and never passes zero.                         *)
HopsCounted ==
    \A n \in Ids : \A m \in air[n] :
       /\ m.hops = HopLimit + 1 - Len(m.trail)
       /\ m.hops > 0
=============================================================================
