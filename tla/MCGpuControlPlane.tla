-------------------------- MODULE MCGpuControlPlane --------------------------
(* Small deployments of the GPU control plane: a warm and a scale-from-zero  *)
(* tier, of which a configuration takes one or both.                         *)
EXTENDS GpuControlPlane

CONSTANTS p40, v100, m1, m2

OneWarm == {p40}
OneScale == {v100}
NoTiers == {}

MCMin == [t \in Tiers |-> IF t \in WarmTiers THEN 1 ELSE 0]
MCMaxOne == [t \in Tiers |-> 1]
MCMaxTwo == [t \in Tiers |-> IF t \in WarmTiers THEN 2 ELSE 1]
=============================================================================
