---------------------------- MODULE UnicastLease ----------------------------
(***************************************************************************)
(* What unicast negotiation promises: each message type a master may send  *)
(* to a slave is a lease.  A master offers only what it serves, a slave    *)
(* relies only on what it was offered, and a master ends what it serves    *)
(* only when nobody relies on it or may still come to rely on it.          *)
(***************************************************************************)
CONSTANT Leases

VARIABLES
  offered,      \* the leases whose offer is on its way
  served,       \* the leases the master serves
  relied,       \* the leases the slave counts on
  unreliable    \* masters may fail, and may run out of room

vars == <<offered, served, relied, unreliable>>

Init ==
  /\ offered = {} /\ served = {} /\ relied = {}
  /\ unreliable \in BOOLEAN

Offer(l) == l \in offered' \ offered => l \in served' \/ unreliable

Rely(l) == l \in relied' \ relied => l \in offered

Withdraw(l) ==
  l \in served \ served' => l \notin relied \cup offered \/ unreliable

(* Any number of leases may take a step at once; giving a lease up, and    *)
(* the loss of an offer, need no condition.                                *)
Next ==
  /\ \A l \in Leases : Offer(l) /\ Rely(l) /\ Withdraw(l)
  /\ unreliable' = unreliable

Spec == Init /\ [][Next]_vars
=============================================================================
