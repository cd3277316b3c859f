----------------------------- MODULE SampleTask -----------------------------
(***************************************************************************)
(* What the Rollouter sees of the generation of one sample: the stages its *)
(* task goes through while cancel() and resume() close and open the LLM    *)
(* servers.  Module FullyAsync takes these steps for every sample; module  *)
(* PartialRollout shows that the servers, the agent loops and the worker   *)
(* that runs the trajectories of a sample take no others.                  *)
(***************************************************************************)
VARIABLES
  stage,    \* of the task, as in FullyAsync
  servers   \* "open", "closing", "closed" or "opening"

vars == <<stage, servers>>

Init == stage = "none" /\ servers = "open"

Submit == stage = "none" /\ stage' = "new" /\ UNCHANGED servers

\* A server accepts a request, which it may do until the last one is closed
\* and again when the first one is open.
Accept ==
  /\ servers # "closed"
  /\ \/ stage = "new" /\ stage' = "gen"
     \/ stage = "ref" /\ stage' = "mix"
  /\ UNCHANGED servers

\* A server refuses a request or interrupts a generation.
Refuse ==
  /\ servers # "open"
  /\ \/ stage = "new" /\ stage' = "ref"
     \/ stage = "gen" /\ stage' = "mix"
  /\ UNCHANGED servers

Finish ==
  /\ \/ stage = "gen" /\ stage' = "ok"
     \/ stage \in {"ref", "mix"} /\ stage' = "cut"
  /\ UNCHANGED servers

Fail ==
  /\ stage \in {"gen", "mix"}
  /\ stage' = "err"
  /\ UNCHANGED servers

\* The task takes the answer.
Collect == stage \in {"ok", "cut", "err"} /\ stage' = "none" /\ UNCHANGED servers

Turn ==
  /\ servers' = CASE servers = "open"    -> "closing"
                  [] servers = "closing" -> "closed"
                  [] servers = "closed"  -> "opening"
                  [] servers = "opening" -> "open"
  /\ UNCHANGED stage

Next == Submit \/ Accept \/ Refuse \/ Finish \/ Fail \/ Collect \/ Turn

Spec == Init /\ [][Next]_vars
=============================================================================
