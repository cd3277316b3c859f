---------------------------- MODULE MCRewardLoop ----------------------------
(* A bucket that holds one request and one whose requests cost more than its  *)
(* capacity; the first of two servers is broken.                              *)
EXTENDS RewardLoop

MCLimits == << [cap |-> 3, cost |-> 3], [cap |-> 2, cost |-> 3] >>
MCServers == <<"broken", "live">>
=============================================================================
