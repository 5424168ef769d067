----------------------------- MODULE MCWarmRuns -----------------------------
(* Small instances of WarmRuns for TLC. *)
EXTENDS WarmRuns, TLC

CONSTANTS r1, r2, c1, c2

OneCaller == c1 :> {"submit", "lookup", "cancel"}
SubmitAndCancel == (c1 :> {"submit", "lookup"}) @@ (c2 :> {"cancel"})
=============================================================================
