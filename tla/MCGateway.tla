----------------------------- MODULE MCGateway -----------------------------
(* Model checking of Gateway: both requests may be in flight together, and    *)
(* one finished generation uses up a token bucket.                            *)
EXTENDS Gateway

MCBucketLimit == [b \in {"reqKey", "reqWs", "tokKey", "tokWs"} |-> IF b \in {"reqKey", "reqWs"} THEN 2 ELSE 1]
=============================================================================
