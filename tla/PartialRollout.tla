--------------------------- MODULE PartialRollout ---------------------------
(***************************************************************************)
(* Partial rollout: how one sample of rollout.n trajectories is generated  *)
(* across parameter synchronisations.  An agent loop worker runs one       *)
(* PartialSingleTurnAgentLoop per trajectory; each calls                   *)
(* generate_for_partial of an LLM server, which a cancel() interrupts; the *)
(* trajectories that were interrupted are submitted again with the tokens  *)
(* they have.                                                              *)
(*                                                                         *)
(* A token is its position in the response the engine was continuing and   *)
(* the version of the weights that generated it.  The Rollouter's side of  *)
(* a synchronisation is the one of module FullyAsync.                      *)
(***************************************************************************)
EXTENDS Naturals, Sequences, FiniteSets

CONSTANTS
  Trajectories,   \* rollout.n of them
  Servers,        \* the replicas of the LLM server
  ResponseLength, \* rollout.response_length
  ModelLength,    \* max_model_len less the prompt
  MaxSyncs,       \* bounds the synchronisations in the model
  MaxFailures     \* bounds the generations that raise

ASSUME RolloutAssumption ==
  /\ IsFiniteSet(Trajectories) /\ Trajectories # {}
  /\ IsFiniteSet(Servers) /\ Servers # {}
  /\ ResponseLength \in Nat \ {0}
  /\ ModelLength \in Nat /\ ModelLength >= ResponseLength
  /\ MaxSyncs \in Nat /\ MaxFailures \in Nat

VARIABLES
  sample,    \* "held" by the Rollouter, "running", "done" or "failed"
  ran,       \* non_tensor_batch["param_version"] of its last submission
  output,    \* the AgentLoopOutput of each trajectory
  call,      \* its call of generate_for_partial
  at,        \* the server the call went to
  got,       \* req_output: what the engine has generated for the call
  ended,     \* generation_handle is done
  event,     \* cancel_event is set
  served,    \* the call was accepted by a server
  refusing,  \* the servers that are paused
  unpopped,  \* entries of cancel_event and req_output nobody removes
  sync,      \* where a synchronisation stands
  syncs,     \* how many have begun
  weights,   \* the version of the weights the servers hold
  version,   \* Rollouter.current_param_version
  failures

sampleVars == <<sample, ran>>
callVars == <<call, at, got, ended, event, served>>
syncVars == <<refusing, sync, syncs, weights, version>>
vars == <<sampleVars, output, callVars, unpopped, syncVars, failures>>

AnyServer == CHOOSE v \in Servers : TRUE   \* between calls
NoOutput == [kind |-> "none", tokens |-> <<>>, start |-> 0, end |-> 0]
Tokens == (1..ModelLength) \X (0..MaxSyncs)

Outputs == [kind : {"none", "cancelled", "complete"}, tokens : Seq(Tokens),
            start : 0..MaxSyncs, end : 0..MaxSyncs]

\* The response never grows longer than response_length.
TypeOK ==
  /\ sample \in {"held", "running", "done", "failed"}
  /\ ran \in 0..MaxSyncs
  /\ output \in [Trajectories -> Outputs]
  /\ \A t \in Trajectories : Len(output[t].tokens) <= ResponseLength
  /\ call \in [Trajectories -> {"idle", "sent", "gen", "cut", "full"}]
  /\ at \in [Trajectories -> Servers]
  /\ got \in [Trajectories -> Seq(Tokens)]
  /\ ended \in [Trajectories -> BOOLEAN]
  /\ event \in [Trajectories -> BOOLEAN]
  /\ served \in [Trajectories -> BOOLEAN]
  /\ refusing \subseteq Servers
  /\ unpopped \in Nat
  /\ sync \in {"run", "cancel", "gather", "quiet", "moved", "updated",
               "resume"}
  /\ syncs \in 0..MaxSyncs
  /\ weights \in 0..MaxSyncs /\ version \in 0..MaxSyncs
  /\ failures \in 0..MaxFailures

Init ==
  /\ sample = "held" /\ ran = 0
  /\ output = [t \in Trajectories |-> NoOutput]
  /\ call = [t \in Trajectories |-> "idle"]
  /\ at = [t \in Trajectories |-> AnyServer]
  /\ got = [t \in Trajectories |-> <<>>]
  /\ ended = [t \in Trajectories |-> FALSE]
  /\ event = [t \in Trajectories |-> FALSE]
  /\ served = [t \in Trajectories |-> FALSE]
  /\ refusing = {} /\ unpopped = 0
  /\ sync = "run" /\ syncs = 0 /\ weights = 0 /\ version = 0
  /\ failures = 0

-----------------------------------------------------------------------------
(* _process_single_sample_streaming submits the sample, the worker starts  *)
(* an agent loop for each trajectory that is not complete.  pause(),       *)
(* update_param_version() and resume() have the Rollouter's lock.          *)

LockFree == sync \in {"run", "quiet", "moved", "updated"}

Resumed_NonEmpty ==
  {t \in Trajectories : \/ output[t].kind = "none"
                        \/ /\ output[t].kind = "cancelled"
                           /\ output[t].tokens # <<>>}

Resumed == {t \in Trajectories : output[t].kind # "complete"}

Start(S, choice) ==
  /\ sample = "held" /\ LockFree
  /\ sample' = "running" /\ ran' = version
  /\ call' = [t \in Trajectories |-> IF t \in S THEN "sent" ELSE "idle"]
  /\ at' = [t \in Trajectories |-> IF t \in S THEN choice[t] ELSE at[t]]
  /\ UNCHANGED <<output, got, ended, event, served, unpopped, syncVars,
                 failures>>

Submit(choice) == Start(Resumed, choice)

-----------------------------------------------------------------------------
(* vLLMHttpServerForPartial.                                               *)

serverFrame == <<sampleVars, output, syncVars>>

Accept(t) ==
  /\ call[t] = "sent" /\ at[t] \notin refusing
  /\ call' = [call EXCEPT ![t] = "gen"]
  /\ served' = [served EXCEPT ![t] = TRUE]
  /\ UNCHANGED <<serverFrame, at, got, ended, event, unpopped, failures>>

\* "After cancel, all tasks will return directly."
Refuse(t) ==
  /\ call[t] = "sent" /\ at[t] \in refusing
  /\ call' = [call EXCEPT ![t] = "cut"]
  /\ UNCHANGED <<serverFrame, at, got, ended, event, served, unpopped,
                 failures>>

Context_PromptOnly(t) == <<>>

\* The response ids the prompt of the call ends with.
Context(t) == output[t].tokens

\* One more output of the engine; the weights are what they are now.
Generate(t) ==
  /\ call[t] = "gen" /\ ~ended[t]
  /\ LET position == Len(Context(t)) + Len(got[t]) + 1
     IN /\ position <= ModelLength
        /\ got' = [got EXCEPT ![t] = Append(@, <<position, weights>>)]
  /\ UNCHANGED <<serverFrame, call, at, ended, event, served, unpopped,
                 failures>>

\* The end of the sequence, or of the context.
End(t) ==
  /\ call[t] = "gen" /\ ~ended[t] /\ got[t] # <<>>
  /\ ended' = [ended EXCEPT ![t] = TRUE]
  /\ UNCHANGED <<serverFrame, call, at, got, event, served, unpopped,
                 failures>>

\* Nothing generated: the answer is given before the entries are popped.
Answered(t) ==
  /\ call' = [call EXCEPT ![t] = IF ended[t] THEN "full" ELSE "cut"]
  /\ unpopped' = unpopped + (IF got[t] = <<>> THEN 1 ELSE 0)

\* The first of generation and cancel event is there.
Return(t) ==
  /\ call[t] = "gen" /\ (ended[t] \/ event[t])
  /\ Answered(t)
  /\ UNCHANGED <<serverFrame, at, got, ended, event, served, failures>>

\* The call is over: its locals are gone.
Leave(t) ==
  /\ call' = [call EXCEPT ![t] = "idle"]
  /\ at' = [at EXCEPT ![t] = AnyServer]
  /\ got' = [got EXCEPT ![t] = <<>>]
  /\ ended' = [ended EXCEPT ![t] = FALSE]
  /\ event' = [event EXCEPT ![t] = FALSE]

\* The engine raises.  The worker's gather raises at once, and the agent
\* loops of the other trajectories go on without it.
Fail(t) ==
  /\ call[t] = "gen" /\ ~ended[t]
  /\ failures < MaxFailures
  /\ failures' = failures + 1
  /\ Leave(t)
  /\ unpopped' = unpopped + 1
  /\ sample' = "failed"
  /\ UNCHANGED <<ran, output, served, syncVars>>

-----------------------------------------------------------------------------
(* The rest of run(): the answer is joined to what there was.              *)

Prefix(q, n) == SubSeq(q, 1, IF Len(q) < n THEN Len(q) ELSE n)

Joined_AnswerOnly(t) ==
  [kind   |-> IF call[t] = "cut" /\ Len(got[t]) < ResponseLength
              THEN "cancelled" ELSE "complete",
   tokens |-> Prefix(got[t], ResponseLength),
   start  |-> IF output[t].kind = "cancelled" THEN output[t].start ELSE ran,
   end    |-> ran]

Joined_StartReset(t) ==
  LET all == output[t].tokens \o got[t]
  IN [kind   |-> IF call[t] = "cut" /\ Len(all) < ResponseLength
                 THEN "cancelled" ELSE "complete",
      tokens |-> Prefix(all, ResponseLength),
      start  |-> ran,
      end    |-> ran]

Joined(t) ==
  LET all == output[t].tokens \o got[t]
  IN [kind   |-> IF call[t] = "cut" /\ Len(all) < ResponseLength
                 THEN "cancelled" ELSE "complete",
      tokens |-> Prefix(all, ResponseLength),
      start  |-> IF output[t].kind = "cancelled" THEN output[t].start ELSE ran,
      end    |-> ran]

Join(t) ==
  /\ call[t] \in {"cut", "full"}
  /\ output' = IF sample = "failed" THEN output  \* nobody awaits it
               ELSE [output EXCEPT ![t] = Joined(t)]
  /\ Leave(t)
  /\ UNCHANGED <<sampleVars, served, unpopped, syncVars, failures>>

Settled == \A t \in Trajectories : call[t] = "idle"
SomeCancelled == \E t \in Trajectories : output[t].kind = "cancelled"

\* generate_sequences_no_post returns: one cancelled trajectory sends the
\* whole sample to cancel_queue.
Gathered ==
  /\ sample = "running" /\ Settled
  /\ sample' = IF SomeCancelled THEN "held" ELSE "done"
  /\ served' = [t \in Trajectories |-> FALSE]
  /\ UNCHANGED <<ran, output, call, at, got, ended, event, unpopped, syncVars,
                 failures>>

-----------------------------------------------------------------------------
(* The synchronisation, as the Rollouter and the Trainer drive it.         *)

syncFrame == <<sampleVars, output, call, at, got, ended, served, unpopped,
               failures>>

SyncBegin ==
  /\ sync = "run" /\ syncs < MaxSyncs
  /\ sync' = "cancel" /\ syncs' = syncs + 1
  /\ UNCHANGED <<syncFrame, event, refusing, weights, version>>

\* cancel() of one server.
CancelServer(v) ==
  /\ sync = "cancel" /\ v \notin refusing
  /\ refusing' = refusing \cup {v}
  /\ event' = [t \in Trajectories |-> event[t] \/ (call[t] = "gen" /\ at[t] = v)]
  /\ UNCHANGED <<syncFrame, sync, syncs, weights, version>>

CancelEnd ==
  /\ sync = "cancel" /\ refusing = Servers
  /\ sync' = "gather"
  /\ UNCHANGED <<syncFrame, event, refusing, syncs, weights, version>>

\* pause() has gathered the active tasks.
GatherEnd ==
  /\ sync = "gather" /\ sample # "running"
  /\ sync' = "quiet"
  /\ UNCHANGED <<syncFrame, event, refusing, syncs, weights, version>>

Transfer ==
  /\ sync = "quiet"
  /\ weights' = weights + 1
  /\ sync' = "moved"
  /\ UNCHANGED <<syncFrame, event, refusing, syncs, version>>

Update ==
  /\ sync = "moved"
  /\ version' = weights
  /\ sync' = "updated"
  /\ UNCHANGED <<syncFrame, event, refusing, syncs, weights>>

ResumeBegin ==
  /\ sync = "updated"
  /\ sync' = "resume"
  /\ UNCHANGED <<syncFrame, event, refusing, syncs, weights, version>>

ResumeServer(v) ==
  /\ sync = "resume" /\ v \in refusing
  /\ refusing' = refusing \ {v}
  /\ UNCHANGED <<syncFrame, event, sync, syncs, weights, version>>

ResumeEnd_FirstAnswer ==
  /\ sync = "resume" /\ refusing # Servers
  /\ sync' = "run"
  /\ UNCHANGED <<syncFrame, event, refusing, syncs, weights, version>>

ResumeEnd ==
  /\ sync = "resume" /\ refusing = {}
  /\ sync' = "run"
  /\ UNCHANGED <<syncFrame, event, refusing, syncs, weights, version>>

SyncGoesOn ==
  \/ CancelEnd \/ GatherEnd \/ Transfer \/ Update
  \/ ResumeBegin \/ ResumeEnd
  \/ \E v \in Servers : CancelServer(v) \/ ResumeServer(v)

Trajectory(t) ==
  \/ Accept(t) \/ Refuse(t) \/ Generate(t) \/ End(t) \/ Return(t)
  \/ Fail(t) \/ Join(t)

Next ==
  \/ \E choice \in [Trajectories -> Servers] : Submit(choice)
  \/ \E t \in Trajectories : Trajectory(t)
  \/ Gathered
  \/ SyncBegin \/ SyncGoesOn

Spec == Init /\ [][Next]_vars

(* Every call is answered, every engine goes on, and a sample that is held *)
(* is submitted in the end.                                                *)
Fairness ==
  /\ WF_vars(\E choice \in [Trajectories -> Servers] : Submit(choice))
  /\ \A t \in Trajectories : WF_vars(Trajectory(t))
  /\ WF_vars(Gathered)
  /\ WF_vars(SyncGoesOn)

FairSpec == Spec /\ Fairness

-----------------------------------------------------------------------------
(* What partial rollout promises.                                          *)

\* The response of a trajectory is one text, however often it was interrupted:
\* the engine went on exactly where the tokens kept so far end, and the weights
\* it went on with were never older.
Contiguous ==
  \A t \in Trajectories : \A i \in 1..Len(output[t].tokens) :
    /\ output[t].tokens[i][1] = i
    /\ i > 1 => output[t].tokens[i - 1][2] <= output[t].tokens[i][2]

\* param_version_start and param_version_end enclose the versions of the
\* weights that generated the response, but for one: a sample submitted while
\* the weights are transferred is generated by the next version.
SpanCovers ==
  \A t \in Trajectories : \A i \in 1..Len(output[t].tokens) :
    /\ output[t].start <= output[t].tokens[i][2]
    /\ output[t].tokens[i][2] <= output[t].end + 1

\* No engine generates for a sample while the weights change under it; after a
\* failure the trajectories nobody waits for have at least been told to stop.
QuietTransfer ==
  sync = "quiet" =>
    \A t \in Trajectories : call[t] = "gen" => sample = "failed" /\ event[t]

\* A sample that is done has the whole response of every trajectory; a sample
\* that is held again has something to resume.
HeldOrDone ==
  /\ sample = "done" => Resumed = {}
  /\ sample = "held" => Resumed # {}

\* What a trajectory has is never lost, and a complete one is never generated
\* again when the others of its sample are resumed.
NeverStartedOver ==
  [][\A t \in Trajectories :
       /\ Len(output'[t].tokens) >= Len(output[t].tokens)
       /\ \A i \in 1..Len(output[t].tokens) :
            output'[t].tokens[i] = output[t].tokens[i]
       /\ output[t].kind = "complete" =>
            output'[t] = output[t] /\ call'[t] = "idle"]_vars

\* Whatever the synchronisations interrupt, the sample is done in the end.
SampleEnds == <>(sample \in {"done", "failed"})

-----------------------------------------------------------------------------
(* The task of the sample, as module FullyAsync sees it.                   *)

Doomed ==
  \E t \in Trajectories : IF call[t] = "idle" THEN output[t].kind = "cancelled"
                          ELSE call[t] = "cut" /\ Joined(t).kind = "cancelled"

Stage ==
  CASE sample = "failed"           -> "err"
    [] sample \in {"held", "done"} -> "none"
    [] sample = "running" /\ Settled -> IF SomeCancelled THEN "cut" ELSE "ok"
    [] sample = "running" /\ ~Settled ->
         IF \E t \in Trajectories : served[t]
         THEN IF Doomed THEN "mix" ELSE "gen"
         ELSE IF Doomed THEN "ref" ELSE "new"

Gate ==
  CASE sync = "run"    -> "open"
    [] sync = "cancel" -> "closing"
    [] sync = "resume" -> "opening"
    [] OTHER           -> "closed"

Task == INSTANCE SampleTask WITH stage <- Stage, servers <- Gate

\* The trajectories, the agent loops and the servers together take no step
\* that the task of FullyAsync does not take.
ImplementsTask == Task!Spec
=============================================================================
