------------------------- MODULE MCInspectionQuery -------------------------
(* Small instances of InspectionQuery for TLC. *)
EXTENDS InspectionQuery, TLC

CONSTANTS p1, p2, s1, s2

Alike == Permutations({p1, p2})
=============================================================================
