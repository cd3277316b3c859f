---------------------------- MODULE MCCheckpoint ----------------------------
(* Values of Keep for TLC: a cfg cannot write a function.                  *)
EXTENDS Checkpoint

CONSTANTS ActorKeep, CriticKeep

KeepOf == [r \in Roles |-> IF r = "actor" THEN ActorKeep ELSE CriticKeep]
=============================================================================
