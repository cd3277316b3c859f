---------------------------- MODULE WeightStream ----------------------------
(* What a weight transfer promises, whichever engine carries it: the         *)
(* parameters of the new version are packed into buckets, each parameter     *)
(* into one, while the transfer goes on; every receiving rank loads the      *)
(* buckets in the order they were packed in, each once and intact; and a     *)
(* rank's transfer call returns only when it has loaded every parameter.     *)
(*                                                                           *)
(* NixlEngine and BroadcastEngine implement this specification.              *)
EXTENDS Naturals, Sequences

CONSTANT Receivers   \* the ranks that load the weights (the rollout workers)

VARIABLES
  params,   \* the parameters of the model
  plan,     \* the buckets packed so far, each a sequence of parameters
  loaded,   \* loaded[r]: the buckets rank r has loaded
  done      \* done[r]: rank r's call has returned
vars == <<params, plan, loaded, done>>

\* No parameter is in two places of the buckets.
Once(buckets) ==
  \A i, k \in DOMAIN buckets: \A j \in DOMAIN buckets[i], l \in DOMAIN buckets[k]:
    buckets[i][j] = buckets[k][l] => i = k /\ j = l

\* The buckets hold every parameter.
Complete(buckets) ==
  \A p \in params: \E i \in DOMAIN buckets: \E j \in DOMAIN buckets[i]: buckets[i][j] = p

Init ==
  /\ plan = <<>>
  /\ loaded = [r \in Receivers |-> <<>>]
  /\ done = [r \in Receivers |-> FALSE]

\* The next bucket (the choice is among those of plan', so that it is not
\* made among all sequences).
Pack ==
  /\ \E i \in DOMAIN plan':
       /\ plan'[i] \in Seq(params)
       /\ plan' = Append(plan, plan'[i])
  /\ Once(plan')
  /\ UNCHANGED <<params, loaded, done>>

Load(r) ==
  /\ Len(loaded[r]) < Len(plan)
  /\ loaded' = [loaded EXCEPT ![r] = Append(@, plan[Len(@) + 1])]
  /\ UNCHANGED <<params, plan, done>>

\* The calls of some ranks return: together, when a barrier ends them.
Return(ranks) ==
  /\ Complete(plan)
  /\ \A r \in ranks: Len(loaded[r]) = Len(plan)
  /\ done' = [r \in Receivers |-> done[r] \/ r \in ranks]
  /\ UNCHANGED <<params, plan, loaded>>

Next ==
  \/ Pack
  \/ \E r \in Receivers: Load(r)
  \/ \E ranks \in SUBSET Receivers: Return(ranks)

\* What may happen, and what must: everything is packed, loaded and returned.
Safety == Init /\ [][Next]_vars

Spec ==
  /\ Safety
  /\ <>Complete(plan)
  /\ \A r \in Receivers: WF_vars(Load(r)) /\ WF_vars(Return({r}))
=============================================================================
