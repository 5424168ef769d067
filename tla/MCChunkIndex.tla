----------------------------- MODULE MCChunkIndex -----------------------------
(* Instances of ChunkIndex for TLC.                                        *)
EXTENDS ChunkIndex, TLC

CONSTANTS f1, f2

\* Two files, both committed, or the second one absent.
BothFiles == (f1 :> 1) @@ (f2 :> 1)
OneFile == (f1 :> 1) @@ (f2 :> Absent)
=============================================================================
