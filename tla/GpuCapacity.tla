----------------------------- MODULE GpuCapacity -----------------------------
(***************************************************************************)
(* What the lease registry promises of the tiers that scale from zero,     *)
(* with no record, lease or clock in it: a tier is a semaphore of Limit[t] *)
(* permits.  Permits are numbered.  One is taken while fewer than Limit    *)
(* are out, and one that is back, because it was given back or because its *)
(* time was up, is never out again.                                        *)
(***************************************************************************)
EXTENDS Naturals, FiniteSets

CONSTANTS
  Tiers,  \* the tiers that scale from zero
  Limit   \* how many services of a tier there may be, a function on Tiers

VARIABLES
  held,   \* held[t]: the permits of tier t that are out
  issued  \* the number of the last permit

Init ==
  /\ held = [t \in Tiers |-> {}]
  /\ issued = 0

\* A service of a tier takes the next permit.
Acquire(t) ==
  /\ Cardinality(held[t]) < Limit[t]
  /\ issued' = issued + 1
  /\ held' = [held EXCEPT ![t] = @ \cup {issued'}]

\* A number goes to a service of another tier, which this limit does not bind.
Pass ==
  /\ issued' = issued + 1
  /\ UNCHANGED held

\* Permits of any tiers come back.
Release ==
  /\ held' = [t \in Tiers |-> held[t] \cap held'[t]]
  /\ UNCHANGED issued

Next == (\E t \in Tiers : Acquire(t)) \/ Pass \/ Release

Spec == Init /\ [][Next]_<<held, issued>>
=============================================================================
