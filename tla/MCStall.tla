------------------------------ MODULE MCStall ------------------------------
(***************************************************************************)
(* A part of the behaviours of FullyAsync, small enough to search for the  *)
(* state in which nothing moves any more with a batch of several samples:  *)
(* the feeder is never late, samples are generated and stored as soon as   *)
(* they can be, the oldest first, and the Trainer is never slow to train.  *)
(* Where the processor, the monitor and a synchronisation meet is free.    *)
(* Every step is a step of Next, so what is found here FullyAsync does.    *)
(***************************************************************************)
EXTENDS FullyAsync

SampleMoves(s) == Task(s) \/ Server(s) \/ MQPut(s)
Moving == {s \in Samples : ENABLED SampleMoves(s)}

PromptNext ==
  \/ FeedPut
  \/ /\ ~ENABLED FeedPut
     /\ \E s \in Moving : (\A t \in Moving : s <= t) /\ SampleMoves(s)
  \/ /\ ~ENABLED FeedPut /\ Moving = {}
     /\ IF trn \in {"log", "train"} THEN Trainer ELSE Next

PromptSpec == Init /\ [][PromptNext]_vars

TwoVersions == tver <= 2
=============================================================================
