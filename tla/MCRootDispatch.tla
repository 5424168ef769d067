--------------------------- MODULE MCRootDispatch ---------------------------
(* Small instances of RootDispatch for TLC. *)
EXTENDS RootDispatch, TLC

CONSTANTS s1, s2, s3, c1, c2

TwoChunks == (s1 :> 0) @@ (s2 :> 1)
OneCached == TwoChunks @@ (s3 :> 0)

\* One shard may fail or not, the other fails, the reducer succeeds.
SomeFail == (s1 :> {"succeeded", "failed"}) @@ (s2 :> {"failed"})
            @@ ("reduce" :> {"succeeded"})
AllSucceed == (s1 :> {"succeeded"}) @@ (s2 :> {"succeeded"}) @@ (s3 :> {"succeeded"})
              @@ ("reduce" :> {"succeeded"})

OneCaller == c1 :> {"fanout", "status", "release", "retry"}
OnePoller == c1 :> {"fanout", "status"}
TwoPollers == (c1 :> {"fanout", "status"}) @@ (c2 :> {"status"})
CancelAndPoll == (c1 :> {"fanout", "cancel"}) @@ (c2 :> {"status"})
=============================================================================
