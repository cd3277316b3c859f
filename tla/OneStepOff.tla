----------------------------- MODULE OneStepOff -----------------------------
(***************************************************************************)
(* The one step off policy trainer                                         *)
(* (verl/experimental/one_step_off_policy/ray_trainer.py): while step k    *)
(* trains, the batch of step k + 1 is generated by a task of the same      *)
(* event loop.  The task touches the trainer's state only where fit()      *)
(* awaits; the generation itself runs in the rollout servers, beside       *)
(* everything else.  A job may be killed at any point and run again from   *)
(* the last checkpoint, whose parts are written as Checkpoint models; here *)
(* a save is one step.                                                     *)
(***************************************************************************)
EXTENDS Integers, Sequences

CONSTANTS
  BatchesPerEpoch,  \* len(train_dataloader)
  Epochs,           \* trainer.total_epochs
  SaveFreq,         \* trainer.save_freq
  TestFreq,         \* trainer.test_freq
  Warmup,           \* trainer.critic_warmup
  MaxCrashes        \* bound: how often the job is killed

ASSUME EpochsAssumption == BatchesPerEpoch \in Nat \ {0} /\ Epochs \in Nat \ {0}
ASSUME FreqAssumption == SaveFreq \in Nat \ {0} /\ TestFreq \in Nat \ {0}
ASSUME BoundsAssumption == Warmup \in Nat /\ MaxCrashes \in Nat

VARIABLES
  pc,        \* where fit() is
  step,      \* global_steps
  start,     \* the global step this run of the job started from
  fut,       \* batch_data_future: its state, its batch and the weights it
             \* is generated with
  cur,       \* the batch of the step: its place in the data, its weights
  taken,     \* batches the dataloader has handed out, resumes included
  left,      \* batches the continuous iterator still has for this run
  actorV,    \* version of the actor's weights: updates they have seen
  rolloutV,  \* version the rollout servers hold
  trained,   \* the batches the actor's weights have been trained on
  ckpt,      \* the last checkpoint
  crashes    \* how often the job has been killed

vars == <<pc, step, start, fut, cur, taken, left, actorV, rolloutV, trained,
          ckpt, crashes>>

\* total_training_steps, when the configuration does not set it.
TotalSteps == BatchesPerEpoch * Epochs

IsLastStep == step >= TotalSteps

NoFuture == [st |-> "none", batch |-> 0, version |-> 0]
NoBatch  == [batch |-> 0, version |-> 0]
NoCheckpoint == [step |-> 0, version |-> 0, taken |-> 0, trained |-> <<>>]

-----------------------------------------------------------------------------
\* Mutant: the passes that are over are not made again.
Deliverable_Absolute(n) == IF n < TotalSteps THEN TotalSteps - n ELSE 0

\* The iterator goes over the dataloader Epochs times from where it stands: a
\* restored dataloader only finishes its pass before the others begin.
Deliverable(n) ==
  TotalSteps - (IF n = 0 THEN 0 ELSE ((n - 1) % BatchesPerEpoch) + 1)

\* _async_gen_next_batch up to its first suspension: it takes a batch and
\* starts to generate, or ends with None when the iterator is exhausted.
GenNextBatch ==
  IF left = 0
  THEN /\ fut' = [NoFuture EXCEPT !.st = "empty"]
       /\ UNCHANGED <<taken, left>>
  ELSE /\ fut' = [st |-> "generating", batch |-> taken + 1,
                  version |-> rolloutV]
       /\ taken' = taken + 1
       /\ left' = left - 1

Init ==
  /\ pc = "load" /\ step = 0 /\ start = 0
  /\ fut = NoFuture /\ cur = NoBatch
  /\ taken = 0 /\ left = 0
  /\ actorV = 0 /\ rolloutV = 0
  /\ trained = <<>> /\ ckpt = NoCheckpoint
  /\ crashes = 0

\* Mutant: the dataloader's state is not restored.
Load_NoDataloader ==
  /\ pc = "load"
  /\ start' = ckpt.step
  /\ step' = ckpt.step + 1
  /\ actorV' = ckpt.version /\ rolloutV' = ckpt.version
  /\ trained' = ckpt.trained
  /\ taken' = 0
  /\ left' = Deliverable(0)
  /\ pc' = "first"
  /\ UNCHANGED <<fut, cur, ckpt, crashes>>

\* _load_checkpoint, the first sync_rollout_weights and the validation before
\* training, up to the counting of the first step.
Load ==
  /\ pc = "load"
  /\ start' = ckpt.step
  /\ step' = ckpt.step + 1
  /\ actorV' = ckpt.version /\ rolloutV' = ckpt.version
  /\ trained' = ckpt.trained
  /\ taken' = ckpt.taken
  /\ left' = Deliverable(ckpt.taken)
  /\ pc' = "first"
  /\ UNCHANGED <<fut, cur, ckpt, crashes>>

\* The first task is created and the loop awaits it.
First ==
  /\ pc = "first"
  /\ GenNextBatch
  /\ pc' = "await"
  /\ UNCHANGED <<step, start, cur, actorV, rolloutV, trained, ckpt, crashes>>

\* The servers have finished the batch.
GenerationDone ==
  /\ fut.st = "generating"
  /\ fut' = [fut EXCEPT !.st = "ready"]
  /\ UNCHANGED <<pc, step, start, cur, taken, left, actorV, rolloutV, trained,
                 ckpt, crashes>>

\* await batch_data_future
Await ==
  /\ pc = "await" /\ fut.st = "ready"
  /\ cur' = [batch |-> fut.batch, version |-> fut.version]
  /\ fut' = NoFuture
  /\ pc' = "sync"
  /\ UNCHANGED <<step, start, taken, left, actorV, rolloutV, trained, ckpt,
                 crashes>>

\* Mutant: the loop waits for another batch.
AwaitNone_Continue == pc = "await" /\ fut.st = "empty" /\ UNCHANGED vars

\* The task ended with None, and None cannot be unpacked: fit() raises.
AwaitNone ==
  /\ pc = "await" /\ fut.st = "empty"
  /\ pc' = "raised"
  /\ UNCHANGED <<step, start, fut, cur, taken, left, actorV, rolloutV,
                 trained, ckpt, crashes>>

\* Mutant: the weights are synchronised every other step.
Sync_EveryOther ==
  /\ pc = "sync"
  /\ rolloutV' = IF step % 2 = 0 THEN actorV ELSE rolloutV
  /\ pc' = "launch"
  /\ UNCHANGED <<step, start, fut, cur, taken, left, actorV, trained, ckpt,
                 crashes>>

\* sync_rollout_weights and clear_kv_cache
Sync ==
  /\ pc = "sync"
  /\ rolloutV' = actorV
  /\ pc' = "launch"
  /\ UNCHANGED <<step, start, fut, cur, taken, left, actorV, trained, ckpt,
                 crashes>>

\* The next task, which asyncio.sleep(0) lets run to its first suspension;
\* none on the last step.
Launch ==
  /\ pc = "launch"
  /\ IF IsLastStep THEN UNCHANGED <<fut, taken, left>> ELSE GenNextBatch
  /\ pc' = "train"
  /\ UNCHANGED <<step, start, cur, actorV, rolloutV, trained, ckpt, crashes>>

\* Rewards, log probabilities, advantages, the critic's update, and the
\* actor's unless the critic is still warming up.
Train ==
  /\ pc = "train"
  /\ actorV' = IF Warmup <= step THEN actorV + 1 ELSE actorV
  /\ trained' = Append(trained, cur.batch)
  /\ pc' = "validate"
  /\ UNCHANGED <<step, start, fut, cur, taken, left, rolloutV, ckpt, crashes>>

TestDue == IsLastStep \/ step % TestFreq = 0

\* _validate generates with the rollout servers as they are.
Validate ==
  /\ pc = "validate"
  /\ pc' = "save"
  /\ UNCHANGED <<step, start, fut, cur, taken, left, actorV, rolloutV,
                 trained, ckpt, crashes>>

\* _save_checkpoint when it is due or the instance is about to expire (esi),
\* then the end of the step.
Save ==
  /\ pc = "save"
  /\ \E esi \in BOOLEAN :
       ckpt' = IF IsLastStep \/ step % SaveFreq = 0 \/ esi
               THEN [step |-> step, version |-> actorV, taken |-> taken,
                     trained |-> trained]
               ELSE ckpt
  /\ pc' = "log"
  /\ UNCHANGED <<step, start, fut, cur, taken, left, actorV, rolloutV,
                 trained, crashes>>

EndStep ==
  /\ pc = "log"
  /\ step' = step + 1
  /\ pc' = IF IsLastStep THEN "done" ELSE "await"
  /\ UNCHANGED <<start, fut, cur, taken, left, actorV, rolloutV, trained,
                 ckpt, crashes>>

\* The job is killed and submitted again: only the checkpoint survives.
Crash ==
  /\ pc \notin {"load", "done", "raised"} /\ crashes < MaxCrashes
  /\ crashes' = crashes + 1
  /\ pc' = "load"
  /\ fut' = NoFuture /\ cur' = NoBatch
  /\ UNCHANGED <<step, start, taken, left, actorV, rolloutV, trained, ckpt>>

Stopped == pc \in {"done", "raised"} /\ UNCHANGED vars

Fit == \/ Load \/ First \/ Await \/ AwaitNone \/ Sync \/ Launch \/ Train
       \/ Validate \/ Save \/ EndStep

Next == Fit \/ GenerationDone \/ Crash \/ Stopped

\* fit() goes on whenever it can and a generation comes to its end.
Spec == Init /\ [][Next]_vars /\ WF_vars(Fit) /\ WF_vars(GenerationDone)

-----------------------------------------------------------------------------
Futures == [st : {"none", "generating", "ready", "empty"}, batch : Nat,
            version : Nat]

TypeOK ==
  /\ pc \in {"load", "first", "await", "sync", "launch", "train", "validate",
             "save", "log", "done", "raised"}
  /\ step \in Nat /\ start \in Nat
  /\ fut \in Futures
  /\ cur \in [batch : Nat, version : Nat]
  /\ taken \in Nat /\ left \in Nat
  /\ actorV \in Nat /\ rolloutV \in Nat
  /\ trained \in Seq(Nat)
  /\ ckpt \in [step : Nat, version : Nat, taken : Nat, trained : Seq(Nat)]
  /\ crashes \in Nat

\* A batch is trained on by the weights that generated it or by the version
\* after them, and it is the version after unless the run has just begun or
\* the actor was not updated; no generation is under way while weights move;
\* and the validation of a step measures the weights of before its update,
\* because the servers are synchronised in the next step only.
OneStepOffPolicy ==
  /\ pc = "train" =>
       actorV = cur.version
                + (IF step = start + 1 \/ step <= Warmup THEN 0 ELSE 1)
  /\ pc = "sync" => fut.st \notin {"generating", "ready"}
  /\ pc = "validate" /\ TestDue =>
       actorV = rolloutV + (IF Warmup <= step THEN 1 ELSE 0)

\* No batch is trained on twice, whatever restarts, and a restart skips one
\* batch at most, the one that was in flight when the checkpoint was saved.
DataInOrder ==
  /\ \A i \in 1..(Len(trained) - 1) :
       trained[i + 1] \in {trained[i] + 1, trained[i] + 2}
  /\ trained # <<>> =>
       trained[Len(trained)] - Len(trained) \in 0..crashes

\* The trainer runs out of batches, and raises, only in a run that resumed
\* within the first epoch, or from the checkpoint of the last step.
NeverRunsDry ==
  pc = "raised" => start \in 1..(BatchesPerEpoch - 1) \/ start >= TotalSteps

\* The job comes to its end, or to the missing batch.
Ends == <>(pc \in {"done", "raised"})
=============================================================================
