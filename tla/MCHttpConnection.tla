-------------------------- MODULE MCHttpConnection --------------------------
(* Three requests, two of them for the same bucket.                          *)
EXTENDS HttpConnection, TLC

CONSTANTS r1, r2, r3, b1, b2

MCRequests == {r1, r2, r3}
MCBuckets == {b1, b2}
MCBucketOf == (r1 :> b1) @@ (r2 :> b1) @@ (r3 :> b2)
=============================================================================
