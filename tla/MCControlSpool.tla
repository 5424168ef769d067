-------------------------- MODULE MCControlSpool --------------------------
(* Instances of ControlSpool for TLC: one request, one broker, and one warm
   tier, whose leases a launcher can renew after they lapsed. *)
EXTENDS ControlSpool

CONSTANTS p40, r1, b1

Warm == {p40}
MCMin == [t \in Tiers |-> 0]
MCMax == [t \in Tiers |-> 1]
OneRequest == {r1}
===========================================================================
