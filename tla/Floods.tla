------------------------------- MODULE Floods -------------------------------
(***************************************************************************)
(* What the overlay network and its abstraction share: the devices, who    *)
(* hears whom, and the numbers an overlay message starts with.             *)
(***************************************************************************)
EXTENDS Integers, FiniteSets

CONSTANTS
    Ids,      \* logical addresses
    Links,    \* Links[n]: the devices a multicast of n gets to
    Payloads, \* what applications send
    HopLimit  \* 254: hopLimit of a fresh message (hc_overlay.c:265)

ASSUME FloodsAssumption ==
    /\ IsFiniteSet(Ids)
    /\ Links \in [Ids -> SUBSET Ids]
    /\ HopLimit \in Nat

(* A device does not hear itself: own packets are filtered by address.     *)
ASSUME LinksAssumption == \A n \in Ids : n \notin Links[n]

(* A message outlives no chain of distinct devices.                        *)
ASSUME HopsAssumption == Cardinality(Ids) <= HopLimit
=============================================================================
