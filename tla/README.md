# Verification of the concurrent and algorithmic core of the trainers

TLA+ models of the parts of the repository that are concurrent, distributed or
combinatorial programs: the fully asynchronous policy trainer with its partial
rollout, its checkpoints and its weight transfer, the one-step-off trainer, the NIXL
checkpoint engine, the reward loop, and one step of the synchronous MOPD trainer
with its balancing and its choice of peers. Everything else the repository contains
is listed below with the reason it is not modelled.

| file | what it is |
|---|---|
| `FullyAsync` | the Rollouter's event loop, the message queue, the LLM servers, the Trainer and the ParameterSynchronizer, composed |
| `SampleTask` | abstract: what the Rollouter sees of the generation of one sample |
| `PartialRollout` | the trajectories of one sample, the agent loops and the servers across synchronisations; implements `SampleTask` |
| `ToolAgentLoop` | abstract: a tool-calling trajectory that is never interrupted |
| `PartialToolAgent` | the tool agent loop with interruptions; implements `ToolAgentLoop` |
| `Checkpoint` | saving, retention, crash and restart |
| `OneStepOff` | the one-step-off trainer with its restarts |
| `WeightStream` | abstract: a transfer of weights from a trainer to rollout ranks |
| `BroadcastEngine` | the broadcast engine of the fully asynchronous trainer; implements `WeightStream` |
| `NixlEngine` | the NIXL checkpoint engine; implements `WeightStream` |
| `RewardLoop` | the rate limited reward manager, the router and its retries |
| `BatchBalance` | Karmarkar-Karp and the micro-batches, as functions |
| `TeacherContext` | what the self-distillation teacher is shown, as sets of possible contexts |
| `MopdStep` | one step of the synchronous trainer, built from the two |
| `FullyAsyncProofs`, `CheckpointProofs`, `PartialRolloutProofs`, `NixlProofs`, `BroadcastProofs`, `PartialToolAgentProofs`, `RewardLoopProofs` | theorems about the module in their name |
| `TrainerProofs` | theorems about the trainers with a controller process of their own, `OneStepOff` and `MopdStep` |
| `MCCheckpoint`, `MCNixlEngine`, `MCBroadcastEngine`, `MCRewardLoop`, `MCMopdStep` | values of the constants that a `.cfg` cannot write |
| `MCStall` | a part of `FullyAsync`'s behaviours, searched by `FullyAsync_stall` |
| `*.cfg` | one per run, named in `PROJECT.json` |

Model-check with `tlc -config FullyAsync_sync.cfg FullyAsync.tla` or
`tlc -config NixlEngine.cfg MCNixlEngine.tla`, prove with `tlapm FullyAsyncProofs.tla`.

## 1. Inventory

The repository is MOPD, a fork of verl: reinforcement learning of language models
on Ray clusters. (`src/verl/` is the library; recipes, data scripts, analyses,
examples and docs are not components, and `src/verl/verl` is a second copy of the
library.) Most of it is sequential tensor code driven by one controller process.
The parts with state that several actors share, or with an order that is hard to
get right, are these.

### 1.1 Fully asynchronous trainer (`verl/experimental/fully_async_policy`)

Five Ray actors and the inference servers.

* **FullyAsyncRollouter** (`fully_async_rollouter.py`), one asyncio event loop.
  State: `pending_queue`, `cancel_queue`, `active_tasks`, the flags `paused`,
  `running`, `monitor_loop_trigger`, the counters `staleness_samples`,
  `current_param_version`, `global_steps`, one `asyncio.Lock` with a condition.
  Coroutines: `_feed_samples`, `_processor_worker`, one
  `_process_single_sample_streaming` per sample, `_streaming_generation_main`,
  `_async_monitor_loop`, and the remote methods `pause`, `resume`,
  `update_param_version`, `save_checkpoint`, `load_checkpoint`.
* **MessageQueue** (`message_queue.py`), an async actor: a bounded queue that drops
  its oldest sample when it is full, and a queue of validation results.
* **FullyAsyncTrainer** (`fully_async_trainer.py`): collects `require_batches`
  mini-batches, trains, and every `trigger_parameter_sync_step` steps asks for a
  synchronisation; saves checkpoints.
* **ParameterSynchronizer** (`param_sync.py`): `pause` the Rollouter, transfer the
  weights, then fire `update_param_version` and `resume` without waiting; the next
  synchronisation waits for them in `wait_last_valid`.
* **LLM servers for partial rollout** (`vllm_rollout/vllm_async_server.py`): a
  `paused` flag, a cancel event and an output per request.
* **Agent loops for partial rollout** (`agent_loop/`): re-submit the interrupted
  trajectories of a sample with the tokens they already have.

They interact by remote calls (answered in any order), by the queue actor, and
inside the Rollouter by the lock, the condition and plain attributes read
before and after awaits.

Hard behaviours: a coroutine tests a flag and acts on it after it has waited for
the lock; `staleness_samples` is recomputed from three places one of which is
awaited; the end signal overtakes or is overtaken by samples; a task that raises
is collected by one of two coroutines, with different effects; the monitor undoes
a pause that a synchronisation relies on.

What makes it correct: no sample is duplicated or forgotten; the number of samples
ahead of the Trainer is bounded (`max_required_samples`), hence the age of what is
trained on; the four copies of the version number never leave their order;
synchronisations do not overlap; nothing is generated while weights change; the
system never stalls and the Trainer comes to its end.

### 1.2 Checkpoints (`fully_async_trainer.py`, `verl/utils/checkpoint`)

State: folders `global_step_<v>` with one subfolder per role, `data.pt`, the file
`latest_checkpointed_iteration.txt`, and in memory `previous_saved_paths` per
manager and `last_ckpt_version`. Operations: `_save_checkpoint` (a dozen steps in
an order), `ensure_checkpoint_capacity`, `register_checkpoint`, `load_checkpoint`,
`find_latest_ckpt_path`. Hard: a crash between any two steps; rank 0 removes old
folders while the other ranks make the new one; a job started again knows nothing of
the older folders. Correct: what the tracker names can be restored, no finished work
is lost, the limits are kept.

### 1.3 One-step-off trainer (`experimental/one_step_off_policy/ray_trainer.py`)

One event loop. State: `global_steps`, the future of the next batch, the iterator
over the dataloader, the versions of actor and servers, the checkpoint. Operations:
`fit()` (await the future, synchronise the weights, launch the next generation,
train, validate, save), `_async_gen_next_batch`, `_load_checkpoint`. Hard: what the
batch in flight was generated with; what a restart does with the dataloader and the
epochs. Correct: every batch is one version late and no later; data are neither
repeated nor lost but for the batch in flight; the run ends.

### 1.4 Weight transfers

* **Broadcast engine** (`fully_async_policy/checkpoint_engine.py`). State: the buckets
  in each actor rank's host memory, a device buffer of two halves, the request and
  the reply between the main and the loader thread of each rank. Operations:
  `register_checkpoint`, `update_checkpoint`, `update_weights_from_ipc_`.
* **NIXL engine** (`checkpoint_engine/nixl_checkpoint_engine.py`). State: two buffers
  per rank, messages and notifications between neighbours, the transfer in progress.
  Operations: `send_weights`, `receive_weights`, `ReadableOperation`, `ReadOperation`.

Hard: a buffer is protected by the order of the waits alone. Correct: nobody writes
what somebody reads; every rank loads every parameter once, intact, and returns.

### 1.5 Reward loop (`experimental/reward_loop`)

State: two token buckets, a semaphore, sleeping rows; `request_counts` of the router,
attempts of router and client. Operations: `AsyncTokenBucket.acquire`, `run_single`,
`_post_request`, `_select_worker` and the forwarding. Hard: rows that sleep for a time
computed before others took the tokens; requests larger than the bucket; retries
that go to the server that just failed. Correct: the rate is kept, every row ends, a
living server is found.

### 1.6 Synchronous MOPD trainer (`trainer/ppo/ray_trainer.py`, `utils/seqlen_balancing.py`, `workers/actor/dp_actor.py`)

State of a step: the order of the rows, the micro-batches of each rank, old log
probabilities, the teacher's context and the mask of each row, the versions of actor
and teacher. Operations: `_balance_batch`, `compute_log_prob`,
`_maybe_build_self_distillation_batch` with its control modes, `update_policy`,
`_update_teacher`. Hard: rows change their order twice; ranks must run equally many
collectives; the controls derive their budgets by other code than the baseline.
Correct: a row is trained on with its own values, ranks never wait for each other for
ever, controls show what they are meant to.

### 1.7 Other components

| component | status |
|---|---|
| agent loop (`experimental/agent_loop`) | the tool agent state machine is `ToolAgentLoop`; `AsyncLLMServerManager` is a table filled by a function that awaits nothing |
| training engines | the order of mini-batches, micro-batches, optimizer steps and the teacher in `dp_actor.py` is in `MopdStep`; tensors, Megatron and the critic are left out |
| data protocol | `split` only, as an operator of `BatchBalance` |
| NCCL checkpoint engine, transfer queue trainer, single controller, rollout wrappers, VLA, tools, merger | not modelled, see section 7 |

## 2. The modules and the code

### 2.1 FullyAsync

One variable per attribute that more than one coroutine or process reads, one
action per stretch of code between two points where another coroutine or another
process may move.

* **The event loop.** The Rollouter is one asyncio loop. A coroutine runs until it
  really suspends, and taking a free lock or reading a non-empty queue does not.
  `cpu` names the coroutine in the middle of such a run; the guard `Runs(c)` keeps
  the other coroutines of the loop still until it suspends. Without `cpu` the model
  would invent races the program does not have; with one action per run it would
  lose those with the queue, the servers and the Trainer, which are other processes.
* **The lock.** `lockQ` is the owner of `Rollouter.lock` and its waiters in order of
  arrival (`asyncio.Lock` is fair). `AwaitLock` joins it, `Enter` goes through,
  `Hold` keeps it over an await, `Release` ends the `async with`. `NotifyAll` is
  `condition.notify_all()`; the processor is the only one that waits on it.
* **`_processor_worker`** is `proc` with one action per step: the pause test
  (`ProcPause`), the flag (`ProcPauseSet`), the choice of a sample (`ProcTake`,
  `ProcStarve`, `ProcGet`), each of the three drains of `active_tasks` with its own
  loop test (`ProcDrainLock`, `ProcDrainEmpty`, `ProcDrainWake`, `ProcDrained`, told
  apart by `reason`), the wait for a resume (`ProcIdle`) and the creation of the
  task (`ProcSubmit`). `bound` says whether the local `done_tasks` has been
  assigned: the code reads it when `pause()` has emptied `active_tasks` meanwhile.
* **A sample's task** is `task[s]`; its stages and what the servers do to them are
  explained at the definition and justified by `PartialRollout`.
* **Counters.** `staleness` is read and written where the code does it: incremented
  when a sample leaves `pending_queue`, reset by `update_param_version` from two
  terms read before an await (`updBase`) and one read after it.
* **`pause`, `update_param_version`, `resume`** are `pauseC`, `updC`, `resC`; the
  monitor is `mon`, with its test (`MonWake`) and its effect (`MonResume`) apart,
  because it waits for the lock in between.
* **The Trainer** is `trn`: collect, train, wait for the last synchronisation,
  pause, transfer, log; the synchronisation after the end signal (`closing`).
* **The queue** evicts its oldest element when it is full (`PutSample`), for the end
  signal too.

Left out: statistics, timing, validation generation (a validation result is its
version), `use_trainer_do_validate`. `max_concurrent_samples` is a constant (it is
computed once). `MaxFailures` bounds the generations that
raise. The initial state is the one after the first synchronisation.

### 2.2 PartialRollout and SampleTask

`FullyAsync` abstracts a sample's generation to a stage. `PartialRollout` has what
is behind it: `rollout.n` trajectories, each with one `generate_for_partial` call to
one of several servers, a token list, a `cancel_event`; `cancel()` and `resume()`
that reach the servers one after the other; the join of a part with what there was
and the cut to `response_length`; `gather`, which answers "cancelled" if any
trajectory was, and raises at the first one that does, leaving the others running;
the entries of the servers' tables that nobody removes (`unpopped`). A token is the
position the engine generated it at and the version of its weights, all the
properties need. `SampleTask` is the contract between the two modules: its steps
are those of `FullyAsync`'s `ServerAccept`, `ServerRefuse`, `ServerFinish`,
`ServerFail` and of the submission and collection of a task, and
`PartialRollout!ImplementsTask` is the refinement. (It corrected an earlier model of
the stage: a server that refuses one trajectory while another is still accepted was
missing, and `mix` is there because of it.)

### 2.3 PartialToolAgent and ToolAgentLoop

`ToolAgentLoop` is the state machine of `tool_agent_loop.py` without its text.
`PartialToolAgent` is `AsyncPartialToolAgentLoop`: the same states, a test of the
worker's `cancellation_event` before each of them, generations that come in parts,
and the saved `AgentData`. Tokens open a tool call, close one, are other text or
were given. `turn` and `toolRuns` are history. `messages` and images are left out,
and so is a call with malformed arguments (the parser drops it). The refinement
mapping hides the unfinished turn.

### 2.4 Checkpoint

`_save_checkpoint` step by step, with the folder of each role, `data.pt` and the
tracker as the state that survives a crash, and `previous_saved_paths` and the
versions as the state that does not. `RemoveSome` and `RemoveLast` are
`shutil.rmtree`, which a crash may interrupt. `open(..., "w")` and the write of the
tracker are two steps. Starting again follows `find_latest_ckpt_path` and
`load_checkpoint` with `resume_mode` "auto"; `failed` is a start that raises.

Of the ranks of a role the steps are those of rank 0, which alone removes and
registers. The other ranks do not wait for it: they go to `local_mkdir_safe` at once
and meet it at the barrier behind (`fsdp_checkpoint_manager.py:204-208`), so they may
make the new folder before or among its removals (`MakeElsewhere`), and `MakeFolder`
is the barrier. After it all ranks write, and what they write counts as one step
(`WriteShards`), since nothing reads it before the last barrier. The ranks share one
file system.

`RetentionKept` says how many folders a role may have at any time: its limit; one more
between the start of a save and the first barrier if there are several ranks, or, with
a limit of 1, until the old one is removed at the end; and as many again for every
crash, because `previous_saved_paths` starts empty and nothing removes what the job
before it left. `Recoverable` is about the one way in which a start can fail when no
limit is 1: the tracker was truncated and not written. A whole checkpoint, newer than
the last finished save, is on disk then, and `resume_mode` "resume_path" can name it.

### 2.5 OneStepOff

`pc` follows `fit()` from await to await. The generation of the next batch is a task
of the same loop: it moves where `fit()` suspends, so taking its batch and reading
the servers' weights is part of the step that launches it (`GenNextBatch`), and only
its end (`GenerationDone`) is free. `taken` and `left` are the dataloader's place and
what the continuous iterator still has: a restored dataloader finishes its pass
before the other passes begin, which makes a resumed run's supply differ from its
need (`Deliverable`). `Crash` forgets all but `ckpt`. A save is one step here; its
parts are `Checkpoint`.

### 2.6 WeightStream, NixlEngine and BroadcastEngine

`WeightStream` is the promise: while the transfer goes on the parameters are packed into
buckets, each into one place; every rollout rank loads the buckets packed so far in
order, once each and intact; and a call returns only when every parameter has been
packed and the rank has loaded all of it. The buckets are a history (`plan`), not known
beforehand, so the promise needs no function that computes them. Both engines
implement it, and both are modelled down to the units of buffer memory: a buffer is the
parameter each cell holds, so a bucket that is overwritten while it is read, or read
with the metadata of another, is visible.

* `NixlEngine`: rank 0 packs (`fill`), rollout ranks pass on. An offer is a message
  with metadata and a fresh key; the next rank starts a transfer that goes on beside
  both coroutines; its end (`EndRead`) copies the cells and notifies the owner.
  `send[r]` says which of the two buffers is the send buffer. One action per stretch
  between awaits. `sent` is the history of the buckets offered by rank 0.
* `BroadcastEngine`: `Register` is one parameter of `register_checkpoint` on all ranks
  (each computes the same buckets from the same list); nothing reads the buckets
  before the last one. `host`, `staged` and `buf` are the pinned memory, the device
  copy of a round's bucket and the broadcast buffer. `turn[r]` is rank `r`'s own place
  in the two loops of `update_checkpoint`: that all ranks are at the same place is a
  consequence, not part of the model. `Collective` is a broadcast or a barrier of all
  ranks; `Main(r)` and `Loader(r)` are the two threads of a rank, `request` and `reply`
  the REQ/REP sockets between them. `overlap` selects `overlap_broadcast_and_consume`.
  `casts` is the history of the turns broadcast.

### 2.7 RewardLoop

Time is in ticks; a unit of each token bucket is what it gains per tick. `Acquire` is
one pass through the locked block of `AsyncTokenBucket.acquire` (nothing is awaited
in it); `AcquireLarge` and `DebtPaid` are the branch for requests larger than the
capacity, which leaves the bucket in debt (`tokens` below 0). A row goes on in `DebtPaid`
at any time after its sleep (`Overdue`), without another look at the bucket. `meter` is
history: an ideal limiter that each request drains when its row goes on, and that holds
no more than the burst and the requests of the overdue rows. `Post`, `Answered`,
`Reconnect`, `GivenUp` are the router and `_post_request`; a row does one or the other
(`path`), as in `compute_score`.

### 2.8 BatchBalance, TeacherContext and MopdStep

`BatchBalance` translates `seqlen_balancing.py`: the states of Karmarkar-Karp with
their order, the heap's choice, the merge, the balanced and the grouped partition,
the micro-batches and the index that undoes them. A `State` is a sequence of sets of
rows, the heaviest first; sorting is by counting what comes before (`Sorted`), so that
it can be reasoned about. `TeacherContext` gives the set of contexts a row may get
under a setting, a random choice being any element; the baseline
(`StandardContexts`) and the three controls (`RandomPeers`, `BudgetPicks` of
`Others`, `MatchedSuccesses`) are separate operators because they are separate code.
`MopdStep` runs a step with them: `Balance`, the log-probability pass (`Forward`,
`Collect`), one `Context` per row, the update (`TrainMicroBatch`, and the optimizer's
step in `NextMiniBatch` and `NextEpoch`). A forward pass is a collective, so it happens
only while every rank has a micro-batch left. `TeacherVersions` are the versions the
teacher's output depends on: the averaged teacher ("ema") is of before the step until
`NextEpoch` ends it, a teacher that is never updated ("off", a `teacher_update_rate` of
0) stays, and the "trust-region" teacher interpolates between the logits of the
reference model and of the student as it is now.

`StepAnchored`: a row is trained on with its own old log probabilities, by the weights
of before the step, and a teacher of before the step, except for the trust-region
teacher after the first mini-batch, which follows the optimizer steps; every sample is
trained on once an epoch.

`Balanced`: the loads of two ranks differ by no more than the loads of two rows that
are neighbours when rows are sorted by load, or have no more than `Ranks - 2` rows
between them. With a shared prefix the responses to a prompt stay on one rank.
`MicroBatchesFit`: every rank runs as many forward passes as the others; a micro-batch
laid out by tokens has some row, and no more tokens than the limit and a row of its rank,
together, times what makes a token of that row dearer than one alone. That factor is
necessary: it is the work that is balanced, which grows with the square of the length,
so beside a very long row a micro-batch of short rows may hold many tokens more. With
two micro-batches wanted for a row of 131072 tokens and some 786000 tokens of short
rows, the short rows all end in one of them, though the limit is 458752.

Assumptions: the samples divide over the ranks (the `assert` of `karmarkar_karp`), the
prompts too where prefixes are shared (`_balance_batch` raises otherwise), and no row
is longer than the token limit (the `assert` of `rearrange_micro_batches`).
Simplifications: a sample has one length for sequence and response, and one token
limit and one micro-batch size serve both passes; text is left out, a context being
the rows it shows.

## 3. The runs

| run | bounds | what it shows |
|---|---|---|
| `FullyAsync_async` | 5 samples, queue and staleness bound 2, two tasks at a time, no failures, no partial rollout | `VersionChain`, `OutstandingBound`, `Freshness`, `CleanEnd`, `NeverStalled` over every interleaving (2.4 million states) |
| `FullyAsync_partial` | 4 samples, one failure, partial rollout | `SampleAccounting`, `NoGenerationInTransfer` |
| `FullyAsync_sync` | staleness 0, two local steps per version, 5 samples, one failure, partial rollout on, fair | `SynchronousMode` (the bound is exact, nothing is evicted, every sample is on policy, partial rollout finds nothing to interrupt), `SamplesSettle`, `TrainerFinishes` |
| `FullyAsync_stall` | staleness 0.5: 4 samples per version, `MaxRequired` 6, 16 samples, no partial rollout, no failures, prompt schedules up to the third version (`MCStall`) | a violation: `NeverStalled`, see 3.1 |
| `PartialRollout` | two trajectories, two servers, response of 2 tokens, two synchronisations, one failure, fair | `Contiguous`, `SpanCovers`, `NeverStartedOver`, `SampleEnds`, `ImplementsTask` |
| `PartialToolAgent` | response of 5 tokens of a context of 6, three turns, answers of up to 2 tokens, a user, two synchronisations, fair | `Aligned`, `TrajectoryEnds`, `ImplementsLoop` |
| `Checkpoint_keep` | actor keeps 2, critic 3, several ranks, a save every two versions or at any (ESI), nine versions, two crashes | `TrackedComplete`, `NoRollback`, `Recoverable`, `RetentionKept` |
| `OneStepOff` | three batches, two epochs, warm-up of two steps, a save every two steps or at any (ESI), two crashes | `OneStepOffPolicy`, `DataInOrder`, `NeverRunsDry`, `Ends` |
| `NixlEngine` | a sender and three receivers, buckets of three units, four parameter lists | `HalfExclusive`, `CleanExit`, `ImplementsStream` |
| `BroadcastEngine` | two actor and two rollout ranks, buckets of two units, three parameter lists, with and without overlap | `HalfExclusive`, `ImplementsStream` |
| `RewardLoop` | three rows, a bucket of one request and one whose requests exceed its capacity, one place in the semaphore, two servers of which one is broken | `RateBound`, `RowsEnd`, `ServedWhileUp` |
| `MopdStep` | two prompts with four responses on two ranks, 13 settings, five lists of lengths, eleven sets of successes, with and without feedback for all | `Balanced`, `MicroBatchesFit`, `StepAnchored`, `PeersFit`, `MatchedBudget`, `MaskMatchesPrompt` |

Why the bounds are enough: the async runs have a sample more than two versions use,
so that a sample can wait across two synchronisations, and a queue that fills with
less than the samples; three synchronisations happen (one more in the closing
phase). In `FullyAsync_sync` two complete versions and a third partial batch pass. A
failure can be collected by a drain or by `pause()`, with another sample alive.
Two trajectories and two servers give every mix of refused, interrupted, complete
and failed. Six tokens hold two interrupted turns with an answer between them. With
nine versions the actor has as many folders as `RetentionKept` allows, before and after
one and two crashes (8 after two), and the critic after one. Two
crashes of the one-step-off trainer restart within the first epoch, after it, and a
run that was itself resumed. Three receivers give the NIXL chain a first, an inner
and a last rank; the parameter lists need one bucket, two, and more than the two
buffers. With two actor ranks the owner of the broadcast changes in mid-stream.
Three rows are one that holds the semaphore, one that sleeps and one that arrives.
The lengths of `MopdStep` are even, ascending, and with rows that exceed half the
token limit, where the micro-batches of the ranks differ before the reduction; the
successes cover a prompt with none, one, some and only successes. The bounds of the
proofs are none.

### 3.1 What the code does and its documentation does not say

`FullyAsync_stall` is a run that fails, with the `staleness_threshold` 0.5 of the
documented training runs (four samples per version, `MaxRequired = 6`) and without
partial rollout: after the monitor's late resume (below) the processor submits tasks
during the transfer; those that finish before `update_param_version` have their sample
in the queue and are still in `active_tasks`, so they count twice; the count is at the
maximum while the queue holds less than a batch and nothing is left to finish, and
Rollouter and Trainer wait for each other for ever. The scene needs several samples per
version, so `MCStall` searches a part of the behaviours only, those in which feeder,
servers and training are prompt; every step of it is a step of `FullyAsync`.

With partial rollout a cancelled sample counts twice in the same way, in
`cancel_queue` and in `active_tasks`, and even one sample per version is enough
(`FullyAsync` with the constants of `FullyAsync_partial` and no failure). Without
partial rollout, and with `max_required_samples` at least twice the samples per
version less one (a `staleness_threshold` of 1), the double count cannot fill the
bound: `FullyAsync_async` checks `NeverStalled` there and `LargeNeverStalls` proves it
for every number of samples. At a `staleness_threshold` of 0 nothing counts twice,
with or without partial rollout (`SynchronousNeverStalls`).

The following are definitions of the modules that TLC finds violated when they are
added as an INVARIANT to the configuration given.

* `NoTaskInTransfer` (`FullyAsync_async` with `TotalSteps = 4`): the monitor has
  tested `monitor_loop_trigger` and `_should_pause_generation()` before `pause()` took
  the lock; when it gets the lock it sets `paused` to False, and the processor submits
  new tasks during the transfer of the weights. The README of the policy says a
  synchronisation waits for tasks and adds none. (With partial rollout the servers
  still refuse: `NoGenerationInTransfer` holds and is proved.)
* `CancelledContinue` (`FullyAsync_partial` with no failure): the processor ends on the end signal with
  cancelled samples still in `cancel_queue`.
* `DrainSurvives` (`FullyAsync_async` with `TotalSteps = 2`, `MaxRequired = 4`,
  `MaxConcurrent = 3`): `for task in done_tasks` with `done_tasks` never assigned, when
  `pause()` collected the tasks the processor wanted to wait for.
* `CallsFound` (`PartialToolAgent` with a response of 4 of a context of 5, no user,
  answers of one token, one synchronisation): `extract_tool_calls` reads the last part
  of an interrupted turn only, so a tool call cut in two, or completed just before the
  interruption, is never run.
* `TrackedAlways` (`Checkpoint_keep` with both limits 1, one or two ranks, three
  versions, one crash): the actor's old folder is removed when the actor's new one is
  written, before the critic, the dataloader and the tracker are: a crash in between
  leaves a tracker that cannot be restored.

The properties of the other modules state these as what the code does:

* A one-step-off run that resumes within the first epoch runs out of batches and
  unpacks `None` (`NeverRunsDry`); its README describes the loop as ending when the
  future is `None`. A job started again after its last save trains one more step, or
  with a single epoch raises in the same way.
* The rate limiter is kept per worker process (`_class_initialized` is a class
  attribute of each process), though its docstring speaks of all workers: `RateBound`
  is about one process.
* A request larger than the bucket is not looked at again after its sleep
  (`limited.py:143-145`): rows that the event loop wakes late go on together, and exceed
  the burst and the rate by as many requests as were overdue. `RateBound` counts them in.
* The router does not take a failed request off `request_counts`. That leak is what
  makes the next attempt go elsewhere: `ServedWhileUp` fails with the count corrected.
* The trust-region teacher is `TrustRegionTeacher` over the live student module
  (`dp_actor.py:58-71`, `fsdp_workers.py:903-911`): within a step of several
  mini-batches a later row is distilled from a teacher that contains part of what the
  earlier ones taught, while its old log probabilities do not move (`StepAnchored`
  excepts it; without the exception TLC finds it violated).
* A micro-batch may exceed `max_token_len`, against its docstring ("max sum of
  attention_mask per micro-batch"): there are as many micro-batches as the tokens need,
  but they are balanced by workload and not by tokens (`MicroBatchesFit` has the bound
  that holds, see 2.8).
* `success_only_matched` fills up with successes of other prompts, against the
  comment of the option (`PeersFit` excepts it).
* With feedback shown only without a solution, a control that finds no peer rewrites
  the prompt with feedback and leaves the row out of the loss, because the mask looks
  at the solutions and the prompt at the peers (`MaskMatchesPrompt` excepts it).

### 3.2 Bounds that are tight

`Freshness` is one version more than `MaxRequired` divided by the samples per version
and rounded up: a sample may be stored under one version, wait behind a full queue,
and be trained on by the next. Rounding down is not enough: with two samples per
version and `MaxRequired` 3 a sample is trained on three versions after it was stored. `OutstandingBound` has one because of the sample in the processor's hand
when `staleness_samples` is reset; `SynchronousMode` shows that it never matters at
staleness 0. `SpanCovers` has one because a sample submitted during a transfer
records the old version and is generated by the new weights. The reverse is also
visible there: a trajectory may report two versions though one generated it, since
the span records submissions, not tokens. `DataInOrder` allows one batch skipped per
crash, the one in flight at the save. `ServedWhileUp` needs more tries than there are
pairs of a row and a broken server: every row can fail once at each broken server
while the others hold the living ones, and one row may be the one that meets all
those failures. With two broken servers and three rows six tries are not enough and
seven are; the code's 16 do not cover every number of concurrent rows.

## 4. Fairness

* Coroutines of the Rollouter's event loop: strong fairness each. The ready queue of
  asyncio is first in first out, and the lock is fair, so a coroutine that can go on
  again and again does; weak fairness would not do, since every turn of another
  coroutine disables it for a moment. For the tasks it is enough that some task goes on.
* LLM servers, queue actor, `cancel`, `resume`: weak fairness of answering. Ray
  delivers a call or raises; a generation ends at `max_tokens` at the latest.
* The Trainer: weak fairness; its steps wait for nothing but the queue and the calls.
* `OneStepOff`: weak fairness of `fit()` and of the end of a generation.
* The engines: weak fairness of every rank's coroutine, thread and transfer, and of
  the broadcast once every rank has called it; the registration runs to its end.
* `RewardLoop`: weak fairness of the clock and of every row's own steps; none of the
  reward function, which may never return.
* No fairness is assumed of failures, interruptions, the start of a synchronisation
  (in the partial rollout modules), or of crashes.

## 5. What is proved

TLAPS proves the following for every value of the constants that satisfies the
modules' named assumptions, whatever the number of samples, versions, servers, ranks,
buckets, rows or crashes.

**FullyAsyncProofs.** `TypeCorrectness`. `SyncsDoNotOverlap` and `VersionsOrdered`
follow from `SyncInv`: where a synchronisation stands (`trn`, `pauseC`, `updC`,
`resC`) determines the four version numbers. Neither property is inductive alone:
that `updC` and `resC` are over when `pause` is called is the business of
`wait_last_valid`, and the version chain needs to know which link is open.
`LockExcludes`: a coroutine that awaits with the lock in its hands is the head of
`lockQ`; the property is inductive by itself once it is known that every action
either leaves the lock alone, appends a waiter, or is taken by its owner.
`TransferIsQuiet` needs `GenInv`: after `cancel()` has returned the servers refuse
until `resume()`, and once the tasks are gathered none generates; the monitor's late
resume may create tasks, but no server accepts them.

`SamplesAccounted` (`PlaceInv`): what is in the processor's hand and in the Trainer's
batch is determined by where they stand, so a sample that leaves one place enters
exactly one other. It is the basis of all that follows, because only it turns the
lengths of queues into numbers of samples.
`OutstandingBounded` (`OutstandingInv`): between the read of `active_tasks` and the
queue in `update_param_version` and the write of `staleness_samples` the sum must
cover what was outstanding at the read and has not been added since; the sample in
the processor's hand is the only one it misses.
`EndsClean` (`EndInv`, `ValidInv`): the end signal is put when no task is left and
nothing enters the queue behind it; `update_param_version` and the Trainer pass the
validation results one for one.
`TrainsFresh` (`FreshInv`): the age a sample may have depends on its place in the
queue, since every version of the weights takes a fixed number of samples from its
head; `OutstandingBound` is not used, the length of the queue is.
`SynchronousExact` and `SynchronousNeverStalls` (`SyncModeInv`): with
`staleness_threshold` 0 the count is exactly what is charged to the current version
until the processor ends; that the monitor cannot resume a Rollouter in the middle of
a version (`MonInv`), that no task meets a synchronisation (`CalmInv`) and that no tag
is old (`TagInv`) depend on each other and are proved together.
`LargeNeverStalls` (`StallInv`): a sample counts twice only if it has arrived since
the gathering of `pause()` and is still in `active_tasks`; so the count is at most what
is unanswered plus twice what arrived, and a processor that idles with nothing
unanswered at a count of `MaxRequired` means a whole version has arrived, which the
Trainer then has or takes.

**CheckpointProofs.** `TrackedCheckpoint`, `NeverRollsBack`, `NothingLost`,
`RememberedIsIntact` from `IInv`, which orders the versions on disk: a manager's paths increase and end
at the last checkpoint or at the one being saved; what is being removed is older
than all of them; the roles before the current one are complete at the new version;
the tracker names the newest finished save or is empty, and is empty only while the
save that emptied it is whole. `RetentionHolds` (`RetentionInv`): what a role has on
disk is what its manager remembers, what is in its hands (being removed, or new), and
a set that the crashes have left, which no other step needs to enlarge. Counting the
three (`FolderBound`) gives the bound, and the bound is what a crash adds to that set.

**PartialRolloutProofs.** `RolloutInv` collects what each action needs: what a call
knows (`CallInv`: nothing is generated before a server accepts, and a sample nobody
runs has no calls), what an output may be while its sample runs (`OutputInv`), which
servers refuse and which generations have been told (`ServerInv`), and that the
weights are one behind the synchronisations until they are transferred
(`WeightsInv`). From it:
`SamplesComplete` and `TransfersAreQuiet` at once;
`ResponsesContiguous` with `TextInv`, which speaks of the tokens kept followed by
those of the current call, because only their concatenation is preserved both by the
engine (which appends) and by the agent loop (which cuts at `response_length`);
`NothingStartedOver`, the action property, from the same description of a step
(`TextChanges`);
`SpansCover` with `VersionInv` and `SpanInv`: a sample that runs sees at most one
transfer, the one that was under way when it was submitted, since the next waits
for it;
`TaskImplemented`, the refinement of `SampleTask`: each action is shown to be a
step of the task or a stutter. The step that needs the invariant most is the join
of the last trajectory: if no server accepted any, each was refused with nothing
generated, so its response is still short and the sample goes to `cancel_queue`,
which is what `SampleTask` promises of a task in stage `"ref"`.

**NixlProofs.** `TypeCorrect`, `BuffersExclusive` and `ExitsClean` from `IInv`. A rank's
buffers are safe because every open offer is in exactly one place: in the next rank's
inbox, in its transfer, or as a notification on its way back (`Links`). Where a rank
stands says whether its offer is open and whether it reads (`Places`); that nothing
is offered after the last bucket (`Ends`, `Order`) is what lets a rank deregister its
memory. `LoadsComplete` is the safety of the transfer in terms of the parameters: every
receiver loads them from the first on, none left out, twice or overwritten, and all of
them before its call returns (`ContentInv`): the buckets that lie between the parameters
a rank has loaded and those rank 0 has packed follow each other without a gap, in
whatever buffer, transfer or message each of them is, and the memory that the metadata
names holds them. It rests on `BuffersExclusive`: a transfer copies the buffer as it is
when the transfer ends, so it must still be the bucket that was offered.
`StreamImplemented`: every step of the chain is a step of `WeightStream` or none. The
buckets offered are cuts of the parameter list that follow each other (`SentInv`), so
what a receiver is yielded next, of which `ContentInv` says where it begins and that it
is intact, is the next of them.

**BroadcastProofs.** `HalvesExclusive`: a rank has at most one unanswered request, and
it is about the half of the other parity than the next broadcast's (`Agreement`).
`StreamImplemented`: every step of the engine, from the registration to the last
barrier, with and without overlap, is a step of `WeightStream` or none. Three invariants
carry it.
`RegisterInv`: the metadata of the buckets give every registered parameter one place,
entries do not overlap and end at the size of the bucket, and the pinned memory holds
them. `CastInv`: the ranks run their loops apart, yet at a broadcast all of them mean the
same bucket. What a rank still has to broadcast are the turns after its own; two
ranks that have seen as many broadcasts have the same turn, because the next turn is
the least one of a set that depends on the buckets alone, and such a least turn exists;
when no turn is left, each has been broadcast.
`MemoryInv`: the device copy of an actor rank holds the bucket of the round, the half
just broadcast that of the turn, and the half handed to the loader thread keeps its
bucket until it is loaded, for which `HalvesExclusive` is needed.

**TrainerProofs**, one step off. `PolicyHolds`, `DataStaysInOrder` and `SupplySuffices`. Where
`fit()` stands says how far actor, servers and the batch in flight are apart
(`WeightsInv`). The data and the supply hold by accounts over the restarts
(`DataInv`, `SupplyInv`): a restarted job has one crash more than when its checkpoint
was saved, which pays for the batch that was in flight, and a restored dataloader
still delivers at least the passes after its own.

**TrainerProofs**, the MOPD step. Every invariant of the run is proved, for all numbers
of prompts, responses and ranks, all lengths, successes and configurations.
What the operators compute is proved by way of the set of the numbers for which it holds,
which has all numbers in it if it has the first and, with any, the next (`UpTo`): the
library's induction theorems take an operator, which the provers cannot instantiate.
`BatchIsBalanced` (`BatchInv`): from the heap's start on, every state has all rows once
and a `Spread` no more than the widest start (`MergeFacts`, `HeapsFacts`), because the
heaviest set is joined with the lightest; with equal sizes every set of every state has
one row more for each state merged (`EqualPartition`). The start of a state is rows that
are neighbours by load, which bounds the ranks' loads.
`StepIsAnchored` and the first half of `MicroBatchesAreFit` (`PassInv`): the layout of a
pass has every row of every rank once (`Laid`), `Restore` undoes what the micro-batches
did to the order, and a sample has been trained on once in the epochs that are over
and once more when its micro-batch of this one is. Equal numbers of passes come from the
`all_reduce`: every rank splits into the maximum (`PlanAgreed`).
The second half of `MicroBatchesAreFit` (`LimitInv`): the sets of Karmarkar-Karp differ
in work by no more than one row's (`UnequalPartition`), none is empty when there are as
many rows as sets; so many times the limit covers the rank's tokens (`WantedCovers`: by
the rounding up, or, when there is one micro-batch for each row, by the assumption on the
longest); so the lightest set is within the limit's work and any other within a row of
it (`SetFits`). The bound is in work; `MicroBatchesFitting` turns it into tokens, and
from there the rows keep it wherever they are moved (`TotalMoved`).
`ContextsFit`, `MaskFits`, `BudgetsMatch` (`ContextInv`): the context that was built is
one of `Contexts` and the mask is `Mask` of it. Most of `BudgetsMatch` is that the code
of the controls and that of the baseline, which are written apart, count the same
blocks (`SuccessSlots` and the baseline's `Solution` and `AnotherSolution`), and that
filling up by tokens, or the nearest in length, finds a peer when there is one.

**PartialToolAgentProofs.** `StaysAligned` and `LoopImplemented`: the mask, the
log-probabilities and the response stay aligned, and the interruptible loop implements
`ToolAgentLoop`. The invariant says that the last ones of the mask are the tokens of
the unfinished turn, that an unfinished turn has room left, and that an answer comes
after some tokens (`TurnInv`); it is what makes the hidden turn of the refinement
mapping well defined.

**RewardLoopProofs.** `RateKept`. A bucket whose requests fit in it is the ideal limiter
itself (`SmallInv`). One whose requests are larger is in debt most of the time, and
no row goes on when it asks: the rate is kept because the sleeps of the rows in debt
end a whole request apart, none before the bucket is out of the debt it left
(`LargeInv`); so one row at most becomes overdue with a tick, and the ideal limiter can
afford it. The invariant is about `Level`, what `meter` would be if the overdue rows had
gone on at once: a row that goes on late moves `meter` and not `Level`. The sleeps are
computed when a row asks and are never corrected, which is
why the distances must be an invariant and not only the next one. `EveryRowServed`
(`RouterInv`): the count of a living server is the number of requests it works on, that
of a broken one never falls and never exceeds the number of rows, because the router
picks the least loaded; so each failed try can be given a place of its own among the
pairs of a broken server and a number of rows.

Only model-checked:

* liveness (`SamplesSettle`, `TrainerFinishes`, `SampleEnds`, `TrajectoryEnds`, `Ends`,
  `RowsEnd`), which is out of the prover's reach;
* of `ImplementsStream` the liveness only: that everything is packed, loaded and
  returned. Its safety is `StreamImplemented`, for both engines;
* `NeverStalled` for the staleness thresholds between 0 and 1 and for partial rollout
  above 0, where it is false (3.1).

## 6. Plan

In order.

1. `SampleFlow`, an abstract specification of what trainer and rollouter promise
   together (each sample fed once, trained on at most once, at most so old), and the
   refinement by `FullyAsync`, whose invariants are now proved.
2. The NCCL checkpoint engine as a third implementation of `WeightStream`.

## 7. Not modelled, and why

Most of the library is tensor code, engines, dispatch and data containers: it holds no
protocol state, and what it computes is floating point. This is why a project that
models the concurrent parts names a small share of the repository's lines; another
large share is a second copy of the library (`src/verl/verl`) and vendored models.

* **NCCL checkpoint engine**: the same double buffers as the NIXL engine, with
  broadcasts in place of reads.
* **Transfer queue trainer**: the queue is an external package.
* **Single controller, rollout wrappers, tools, interactions, VLA, merger**: thin
  layers over Ray, HTTP, simulators and files.
* **Advantages, losses, rollout correction, the distillation loss**: floating point.
* **The process death of an actor** of the fully asynchronous job is not handled by the
  code (it ends the job): it is the crash of `Checkpoint`. An exception in the loader
  thread of the broadcast engine leaves its main thread waiting; the code has nothing
  to model beyond that.
* **The dataloader's position** is saved ahead of the samples in the queues, as a
  comment in `fully_async_rollouter.py` says; `Checkpoint` has its file, not its
  content. (`OneStepOff` has the content.)
* **The teacher's averaged parameters** are in no checkpoint; `MopdStep` is one step and
  has only the versions the teacher's output depends on, not their weights
  (`teacher_update_rate` as the share of a mix).
* **Text**: truncation of the teacher's prompt, tokenisation, parsing of calls.
* **Rewards of a batch**: a row that timed out reports other keys in
  `reward_extra_info` than its neighbours, and the agent loop reads the keys of the
  first row; the agent loop's postprocessing is not modelled.
