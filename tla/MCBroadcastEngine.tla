------------------------- MODULE MCBroadcastEngine -------------------------
(* The parameter lists of the bounded instance: one rank with an empty        *)
(* bucket, ranks with as many buckets, and one rank that owns more of them.   *)
EXTENDS BroadcastEngine

MCSizes == { <<1>>, <<2, 2, 1>>, <<2, 1, 2, 1, 2>> }
=============================================================================
