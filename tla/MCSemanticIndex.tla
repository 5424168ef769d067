-------------------------- MODULE MCSemanticIndex --------------------------
(* Small instances of SemanticIndex for TLC. *)
EXTENDS SemanticIndex, TLC

CONSTANTS f1, f2, f3, a, b, d, c1, c2

\* f2 has an edited first chunk, f3 the same chunks as f2.
TwoStates == f1 :> <<a, b>> @@ f2 :> <<d, b>>
ThreeStates == f1 :> <<a, b>> @@ f2 :> <<d, b>> @@ f3 :> <<d, b>>
=============================================================================
