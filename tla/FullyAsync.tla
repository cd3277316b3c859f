----------------------------- MODULE FullyAsync -----------------------------
(***************************************************************************)
(* The fully asynchronous policy trainer of                                *)
(* verl/experimental/fully_async_policy: a Rollouter that streams samples, *)
(* a bounded MessageQueue, a Trainer, and the ParameterSynchronizer that   *)
(* pauses the one to hand it the weights of the other.                     *)
(*                                                                         *)
(* The Rollouter is one asyncio event loop.  A coroutine runs until it     *)
(* really suspends, which acquiring a free lock or reading a non-empty     *)
(* queue does not do: `cpu' names the coroutine in the middle of such a    *)
(* run, and no other coroutine of the loop moves before it suspends.  The  *)
(* queue actor, the trainer and the LLM servers are other processes and    *)
(* interleave freely.  The loop's asyncio.Lock is fair: `lockQ' holds its  *)
(* owner and, behind it, the waiters in the order they arrived.            *)
(***************************************************************************)
EXTENDS Naturals, Sequences, FiniteSets

CONSTANTS
  TotalSteps,       \* total_rollout_steps: samples fed before the end signal
  RequiredSamples,  \* ppo_mini_batch_size * require_batches
  TriggerSteps,     \* trigger_parameter_sync_step
  MaxRequired,      \* max_required_samples, which is max_queue_size too
  MaxConcurrent,    \* max_concurrent_samples
  PendingCap,       \* maxsize of pending_queue (128)
  TestFreq,         \* rollout.test_freq
  Partial,          \* partial_rollout
  MaxFailures       \* how many generations may raise (bounds the model)

ASSUME ConstantsAssumption ==
  /\ TotalSteps \in Nat \ {0}
  /\ RequiredSamples \in Nat \ {0}
  /\ TriggerSteps \in Nat \ {0}
  /\ MaxRequired \in Nat
  /\ MaxRequired >= RequiredSamples * TriggerSteps  \* staleness_threshold >= 0
  /\ MaxConcurrent \in 1..MaxRequired
  /\ PendingCap \in Nat \ {0}
  /\ TestFreq \in Nat \ {0}
  /\ Partial \in BOOLEAN
  /\ MaxFailures \in Nat

Samples == 1..TotalSteps
DONE == 0     \* "DONE" in pending_queue, None in the message queue, no sample

VARIABLES
  cpu,        \* the coroutine the event loop is running, or Idle
  lockQ,      \* Rollouter.lock: its owner, then its waiters
  feedNext,   \* global_steps: the next sample _feed_samples puts
  pending,    \* pending_queue
  cancelQ,    \* cancel_queue
  proc,       \* where _processor_worker stands
  reason,     \* why it drains active_tasks: "pause", "full" or "done"
  hand,       \* rollout_sample: the sample it took and has not submitted
  bound,      \* whether its local done_tasks has been assigned
  task,       \* the coroutine of each sample in active_tasks
  finished,   \* tasks that returned and are still in active_tasks
  failed,     \* tasks that raised and are still in active_tasks
  paused,     \* Rollouter.paused
  running,    \* Rollouter.running
  trigger,    \* monitor_loop_trigger
  staleness,  \* staleness_samples
  version,    \* Rollouter.current_param_version
  tag,        \* RolloutSample.param_version
  main,       \* where _streaming_generation_main stands
  mon,        \* where _async_monitor_loop stands
  pauseC,     \* where the call of pause() stands
  updC,       \* where the call of update_param_version() stands
  updBase,    \* the first two terms of its sum, read before it awaits
  resC,       \* where the call of resume() stands
  srvPaused,  \* the LLM servers refuse and interrupt generations
  weights,    \* the version of the weights the LLM servers hold
  mq,         \* MessageQueue.queue
  valQ,       \* MessageQueue.val_queue
  dropped,    \* samples the full queue evicted
  lost,       \* samples whose generation raised
  trn,        \* where the Trainer stands
  batch,      \* queue_samples of _get_samples_from_queue
  trained,    \* samples a training step used
  unused,     \* samples of the last, incomplete batch
  tver,       \* Trainer.current_param_version
  localStep,  \* local_trigger_step
  closing,    \* the Trainer left its loop
  syncVer     \* ParameterSynchronizer.current_version

loopVars == <<cpu, lockQ>>
procVars == <<proc, reason, hand, bound>>
taskVars == <<task, finished, failed, tag, lost>>
flagVars == <<paused, running, trigger>>
countVars == <<staleness, version>>
rpcVars == <<pauseC, updC, updBase, resC>>
mqVars == <<mq, valQ, dropped>>
srvVars == <<srvPaused, weights>>
trnVars == <<trn, batch, trained, unused, tver, localStep, closing, syncVer>>
vars == <<loopVars, feedNext, pending, cancelQ, procVars, taskVars, flagVars,
          countVars, main, mon, rpcVars, mqVars, srvVars, trnVars>>

Idle == "idle"
Coroutines == {"feed", "proc", "pause", "upd", "res", "mon", "main"}
ProcPcs == {"top", "pauseSet", "get", "drain", "drainWait", "idle",
            "idleWait", "submit", "submitWait", "exit", "crashed"}
TaskPcs == {"none", "new", "gen", "ref", "mix", "ok", "cut", "err", "put", "ack"}
Generating == {"gen", "mix"}
TrainerPcs == {"collect", "train", "waitValid", "pausing", "transfer", "log",
               "final", "closeWait", "done"}

\* The counters stay in range: local_trigger_step never passes
\* trigger_parameter_sync_step, and no coroutine leaves its program.
TypeOK ==
  /\ cpu \in Coroutines \cup {Idle}
  /\ lockQ \in Seq(Coroutines)
  /\ feedNext \in 1..(TotalSteps + 2)
  /\ pending \in Seq(Samples \cup {DONE})
  /\ cancelQ \in Seq(Samples)
  /\ proc \in ProcPcs
  /\ reason \in {"pause", "full", "done"}
  /\ hand \in Samples \cup {DONE}
  /\ bound \in BOOLEAN
  /\ task \in [Samples -> TaskPcs]
  /\ finished \in Nat /\ failed \in Nat
  /\ paused \in BOOLEAN /\ running \in BOOLEAN /\ trigger \in BOOLEAN
  /\ staleness \in Nat /\ version \in Nat
  /\ tag \in [Samples -> Nat]
  /\ main \in {"wait", "stop", "done"}
  /\ mon \in {"check", "sleep", "resume", "done"}
  /\ pauseC \in {"none", "start", "cancel", "gather", "clear", "done"}
  /\ updC \in {"none", "start", "size", "putVal"}
  /\ updBase \in Nat
  /\ resC \in {"none", "start", "servers"}
  /\ srvPaused \in BOOLEAN /\ weights \in Nat
  /\ mq \in Seq(Samples \cup {DONE})
  /\ valQ \in Seq(Nat)
  /\ dropped \subseteq Samples \cup {DONE}
  /\ lost \subseteq Samples
  /\ trn \in TrainerPcs
  /\ batch \in Seq(Samples)
  /\ trained \subseteq Samples /\ unused \subseteq Samples
  /\ tver \in Nat /\ localStep \in 1..TriggerSteps
  /\ closing \in BOOLEAN /\ syncVer \in Nat

-----------------------------------------------------------------------------
(* The state the main task leaves when it starts fit() on both actors: the *)
(* first parameter synchronisation, of version 0, is over.                 *)

Init ==
  /\ cpu = Idle /\ lockQ = <<>>
  /\ feedNext = 1 /\ pending = <<>> /\ cancelQ = <<>>
  /\ proc = "top" /\ reason = "pause" /\ hand = DONE /\ bound = FALSE
  /\ task = [s \in Samples |-> "none"]
  /\ finished = 0 /\ failed = 0 /\ lost = {}
  /\ tag = [s \in Samples |-> 0]
  /\ paused = FALSE /\ running = TRUE /\ trigger = TRUE
  /\ staleness = 0 /\ version = 0
  /\ main = "wait" /\ mon = "check"
  /\ pauseC = "none" /\ updC = "none" /\ updBase = 0 /\ resC = "none"
  /\ srvPaused = FALSE /\ weights = 0
  /\ mq = <<>> /\ valQ = <<0>> /\ dropped = {}
  /\ trn = "log" /\ batch = <<>> /\ trained = {} /\ unused = {}
  /\ tver = 0 /\ localStep = 1 /\ closing = FALSE /\ syncVer = 0

-----------------------------------------------------------------------------
(* The event loop and its lock.                                            *)

Runs(c) == cpu \in {Idle, c}
Suspend == cpu' = Idle
Continue(c) == cpu' = c

InLockQ(c) == \E i \in 1..Len(lockQ) : lockQ[i] = c
Granted(c) == lockQ # <<>> /\ Head(lockQ) = c

\* `async with self.lock' goes through: at once if the lock is free, else
\* when the waiters before c are gone.
Enter(c) == Runs(c) /\ (lockQ = <<>> \/ Granted(c))
Hold(c) == lockQ' = IF lockQ = <<>> THEN <<c>> ELSE lockQ
Release == lockQ' = IF lockQ = <<>> THEN lockQ ELSE Tail(lockQ)

Live == {s \in Samples : task[s] # "none"}
ActiveLen == Cardinality(Live) + finished + failed     \* len(active_tasks)

ShouldPause_OffByOne == Len(mq) >= MaxRequired \/ staleness > MaxRequired
ShouldPause == Len(mq) >= MaxRequired \/ staleness >= MaxRequired

DrainTest_EndUnchecked ==
  IF reason = "full" THEN ActiveLen >= MaxConcurrent
                     ELSE ActiveLen > 0 /\ reason # "done"

\* The condition of the loop around each drain of active_tasks.
DrainTest ==
  IF reason = "full" THEN ActiveLen >= MaxConcurrent ELSE ActiveLen > 0

WantsLock(c) ==
  \/ c = "proc" /\ proc \in {"pauseSet", "idle", "submit"}
  \/ c = "proc" /\ proc = "drain" /\ DrainTest
  \/ c = "pause" /\ pauseC = "start"
  \/ c = "upd" /\ updC = "start"
  \/ c = "res" /\ resC = "start" /\ updC = "none"
  \/ c = "mon" /\ mon \in {"check", "resume"}
  \/ c = "main" /\ main = "stop"

\* The lock is taken: c queues and suspends.
AwaitLock(c) ==
  /\ Runs(c) /\ WantsLock(c)
  /\ lockQ # <<>> /\ ~InLockQ(c)
  /\ lockQ' = Append(lockQ, c)
  /\ Suspend
  /\ UNCHANGED <<feedNext, pending, cancelQ, procVars, taskVars, flagVars,
                 countVars, main, mon, rpcVars, mqVars, srvVars, trnVars>>

NotifyAll_Forgotten == proc' = proc

\* condition.notify_all(): the processor is the only coroutine that waits.
NotifyAll ==
  proc' = CASE proc = "idleWait"   -> "idle"
            [] proc = "submitWait" -> "submit"
            [] OTHER               -> proc

-----------------------------------------------------------------------------
(* _feed_samples                                                           *)

FeedPut ==
  /\ Runs("feed")
  /\ feedNext <= TotalSteps + 1
  /\ Len(pending) < PendingCap
  /\ pending' = Append(pending, IF feedNext <= TotalSteps THEN feedNext
                                                          ELSE DONE)
  /\ feedNext' = feedNext + 1
  /\ IF feedNext' <= TotalSteps + 1 /\ Len(pending') < PendingCap
     THEN Continue("feed")
     ELSE Suspend
  /\ UNCHANGED <<lockQ, cancelQ, procVars, taskVars, flagVars, countVars,
                 main, mon, rpcVars, mqVars, srvVars, trnVars>>

-----------------------------------------------------------------------------
(* _processor_worker                                                       *)

procFrame == <<feedNext, running, trigger, version, main, mon, rpcVars,
               mqVars, srvVars, trnVars>>

\* The pause test at the head of the loop.
ProcPause ==
  /\ proc = "top" /\ Runs("proc")
  /\ paused \/ ShouldPause
  /\ proc' = "pauseSet"
  /\ Continue("proc")
  /\ UNCHANGED <<lockQ, pending, cancelQ, reason, hand, bound, taskVars,
                 paused, staleness, procFrame>>

ProcPauseSet ==
  /\ proc = "pauseSet" /\ Enter("proc")
  /\ paused' = TRUE
  /\ proc' = "drain" /\ reason' = "pause"
  /\ Release /\ Continue("proc")
  /\ UNCHANGED <<pending, cancelQ, hand, bound, taskVars, staleness,
                 procFrame>>

TakeCancelled ==
  /\ hand' = Head(cancelQ)
  /\ cancelQ' = Tail(cancelQ)
  /\ proc' = "drain" /\ reason' = "full"
  /\ UNCHANGED <<pending, staleness>>

TakePending_Uncounted ==
  /\ hand' = Head(pending)
  /\ pending' = Tail(pending)
  /\ staleness' = staleness
  /\ proc' = "drain"
  /\ reason' = IF Head(pending) = DONE THEN "done" ELSE "full"
  /\ UNCHANGED cancelQ

TakePending ==
  /\ hand' = Head(pending)
  /\ pending' = Tail(pending)
  /\ staleness' = staleness + 1
  /\ proc' = "drain"
  /\ reason' = IF Head(pending) = DONE THEN "done" ELSE "full"
  /\ UNCHANGED cancelQ

ProcTake ==
  /\ proc = "top" /\ Runs("proc")
  /\ ~paused /\ ~ShouldPause
  /\ \/ cancelQ # <<>> /\ TakeCancelled
     \/ cancelQ = <<>> /\ pending # <<>> /\ TakePending
  /\ Continue("proc")
  /\ UNCHANGED <<lockQ, bound, taskVars, paused, procFrame>>

\* Nothing to take: the processor waits for pending_queue alone.
ProcStarve ==
  /\ proc = "top" /\ Runs("proc")
  /\ ~paused /\ ~ShouldPause
  /\ cancelQ = <<>> /\ pending = <<>>
  /\ proc' = "get" /\ Suspend
  /\ UNCHANGED <<lockQ, pending, cancelQ, reason, hand, bound, taskVars,
                 paused, staleness, procFrame>>

ProcGet ==
  /\ proc = "get" /\ Runs("proc")
  /\ pending # <<>>
  /\ TakePending
  /\ Continue("proc")
  /\ UNCHANGED <<lockQ, bound, taskVars, paused, procFrame>>

\* The drain is over, or was not needed.
ProcDrained ==
  /\ proc = "drain" /\ Runs("proc") /\ ~InLockQ("proc")
  /\ ~DrainTest
  /\ proc' = CASE reason = "pause" -> "idle"
               [] reason = "full"  -> "submit"
               [] reason = "done"  -> "exit"
  /\ IF reason = "done" THEN Suspend ELSE Continue("proc")
  /\ UNCHANGED <<lockQ, pending, cancelQ, reason, hand, bound, taskVars,
                 paused, staleness, procFrame>>

\* With the lock: await asyncio.wait(active_tasks, FIRST_COMPLETED).
ProcDrainLock ==
  /\ proc = "drain" /\ Enter("proc")
  /\ InLockQ("proc") \/ DrainTest
  /\ ActiveLen > 0
  /\ proc' = "drainWait"
  /\ Hold("proc") /\ Suspend
  /\ UNCHANGED <<pending, cancelQ, reason, hand, bound, taskVars, paused,
                 staleness, procFrame>>

\* active_tasks was emptied while the processor waited for the lock: the loop
\* over done_tasks runs on the last value, if there is one.
ProcDrainEmpty ==
  /\ proc = "drain" /\ Runs("proc") /\ Granted("proc")
  /\ ActiveLen = 0
  /\ IF bound THEN proc' = "drain" /\ Continue("proc")
              ELSE proc' = "crashed" /\ Suspend
  /\ Release
  /\ UNCHANGED <<pending, cancelQ, reason, hand, bound, taskVars, paused,
                 staleness, procFrame>>

\* Some tasks completed: they leave active_tasks, and awaiting one that
\* raised raises here.
ProcDrainWake ==
  /\ proc = "drainWait" /\ Runs("proc")
  /\ finished + failed > 0
  /\ bound' = TRUE
  /\ finished' = 0 /\ failed' = 0
  /\ IF failed > 0 THEN proc' = "crashed" /\ Suspend
                   ELSE proc' = "drain" /\ Continue("proc")
  /\ Release
  /\ UNCHANGED <<pending, cancelQ, reason, hand, task, tag, lost, paused,
                 staleness, procFrame>>

\* `while self.paused: await self.condition.wait()', then the loop again.
ProcIdle ==
  /\ proc = "idle" /\ Enter("proc")
  /\ IF paused THEN proc' = "idleWait" /\ Suspend
               ELSE proc' = "top" /\ Continue("proc")
  /\ Release
  /\ UNCHANGED <<pending, cancelQ, reason, hand, bound, taskVars, paused,
                 staleness, procFrame>>

\* The same wait before the task of the sample in hand is created.
ProcSubmit ==
  /\ proc = "submit" /\ Enter("proc")
  /\ \/ /\ paused
        /\ proc' = "submitWait" /\ Suspend
        /\ UNCHANGED <<hand, task>>
     \/ /\ ~paused
        /\ task' = [task EXCEPT ![hand] = "new"]
        /\ hand' = DONE
        /\ proc' = "top" /\ Continue("proc")
  /\ Release
  /\ UNCHANGED <<pending, cancelQ, reason, bound, finished, failed, tag, lost,
                 paused, staleness, procFrame>>

Processor ==
  \/ ProcPause \/ ProcPauseSet \/ ProcTake \/ ProcStarve \/ ProcGet
  \/ ProcDrained \/ ProcDrainLock \/ ProcDrainEmpty \/ ProcDrainWake
  \/ ProcIdle \/ ProcSubmit

-----------------------------------------------------------------------------
(* _process_single_sample_streaming, one coroutine per sample, and the LLM *)
(* servers it calls for the trajectories of the sample.  The task is       *)
(*   new   created, and no server has seen a request of it                 *)
(*   gen   accepted: generating                                            *)
(*   ref   a request was refused by a paused server, nothing is generated  *)
(*   mix   one was refused or interrupted, others may be generating        *)
(*   ok / cut / err   answered: complete, cancelled, raised                *)
(*   put   its put_sample is on its way         ack  put_sample answered   *)
(* A sample is cancelled when one of its trajectories is, so `ref' and     *)
(* `mix' end in `cut'; module PartialRollout has the detail.               *)

taskFrame == <<lockQ, feedNext, pending, procVars, flagVars, countVars, main,
               mon, rpcVars, srvVars, trnVars>>

TaskStored(s) ==
  /\ Runs("task") /\ task[s] = "ok"
  /\ task' = [task EXCEPT ![s] = "put"]
  /\ tag' = [tag EXCEPT ![s] = version]
  /\ UNCHANGED <<taskFrame, cpu, cancelQ, finished, failed, lost, mqVars>>

TaskAcked(s) ==
  /\ Runs("task") /\ task[s] = "ack"
  /\ task' = [task EXCEPT ![s] = "none"]
  /\ finished' = finished + 1
  /\ UNCHANGED <<taskFrame, cpu, cancelQ, failed, tag, lost, mqVars>>

TaskCancelled_Forgotten(s) ==
  /\ Runs("task") /\ task[s] = "cut"
  /\ task' = [task EXCEPT ![s] = "none"]
  /\ finished' = finished + 1
  /\ UNCHANGED <<taskFrame, cpu, cancelQ, failed, tag, lost, mqVars>>

TaskCancelled(s) ==
  /\ Runs("task") /\ task[s] = "cut"
  /\ cancelQ' = Append(cancelQ, s)
  /\ task' = [task EXCEPT ![s] = "none"]
  /\ finished' = finished + 1
  /\ UNCHANGED <<taskFrame, cpu, failed, tag, lost, mqVars>>

TaskFailed(s) ==
  /\ Runs("task") /\ task[s] = "err"
  /\ task' = [task EXCEPT ![s] = "none"]
  /\ failed' = failed + 1
  /\ lost' = lost \cup {s}
  /\ UNCHANGED <<taskFrame, cpu, cancelQ, finished, tag, mqVars>>

Task(s) == TaskStored(s) \/ TaskAcked(s) \/ TaskCancelled(s) \/ TaskFailed(s)

serverFrame == <<taskFrame, cpu, cancelQ, finished, failed, tag, lost, mqVars>>

\* cancel() and resume() reach the servers one after the other.
MayRefuse == srvPaused \/ pauseC = "cancel"
MayAccept == ~srvPaused \/ resC = "servers"

ServerAccept_Ungated(s) ==
  /\ \/ task[s] = "new" /\ task' = [task EXCEPT ![s] = "gen"]
     \/ task[s] = "ref" /\ task' = [task EXCEPT ![s] = "mix"]
  /\ UNCHANGED serverFrame

ServerAccept(s) ==
  /\ MayAccept
  /\ \/ task[s] = "new" /\ task' = [task EXCEPT ![s] = "gen"]
     \/ task[s] = "ref" /\ task' = [task EXCEPT ![s] = "mix"]
  /\ UNCHANGED serverFrame

\* A request that reaches a paused server is answered as cancelled, and the
\* cancel event interrupts a generation.
ServerRefuse(s) ==
  /\ MayRefuse
  /\ \/ task[s] = "new" /\ task' = [task EXCEPT ![s] = "ref"]
     \/ task[s] = "gen" /\ task' = [task EXCEPT ![s] = "mix"]
  /\ UNCHANGED serverFrame

ServerFinish(s) ==
  /\ \/ task[s] = "gen" /\ task' = [task EXCEPT ![s] = "ok"]
     \/ task[s] \in {"ref", "mix"} /\ task' = [task EXCEPT ![s] = "cut"]
  /\ UNCHANGED serverFrame

ServerFail(s) ==
  /\ task[s] \in {"gen", "mix"}
  /\ Cardinality(lost \cup {t \in Samples : task[t] = "err"}) < MaxFailures
  /\ task' = [task EXCEPT ![s] = "err"]
  /\ UNCHANGED serverFrame

Server(s) ==
  ServerAccept(s) \/ ServerRefuse(s) \/ ServerFinish(s) \/ ServerFail(s)

-----------------------------------------------------------------------------
(* MessageQueue.put_sample, called by a task and by the end of             *)
(* _streaming_generation_main.                                             *)

mqFrame == <<cpu, lockQ, feedNext, pending, cancelQ, procVars, finished,
             failed, tag, lost, flagVars, countVars, mon, rpcVars, srvVars,
             valQ, trnVars>>

\* The full queue drops its oldest element for the new one.
PutSample(x) ==
  IF Len(mq) >= MaxRequired
  THEN mq' = Append(Tail(mq), x) /\ dropped' = dropped \cup {Head(mq)}
  ELSE mq' = Append(mq, x) /\ dropped' = dropped

MQPut(s) ==
  /\ task[s] = "put"
  /\ PutSample(s)
  /\ task' = [task EXCEPT ![s] = "ack"]
  /\ UNCHANGED <<mqFrame, main>>

MQPutEnd_ReturnedOnly ==
  /\ main = "wait" /\ proc = "exit"
  /\ PutSample(DONE)
  /\ main' = "stop"
  /\ UNCHANGED <<mqFrame, task>>

\* The processor returned or raised: the finish signal.
MQPutEnd ==
  /\ main = "wait" /\ proc \in {"exit", "crashed"}
  /\ PutSample(DONE)
  /\ main' = "stop"
  /\ UNCHANGED <<mqFrame, task>>

MainStop ==
  /\ main = "stop" /\ Enter("main")
  /\ running' = FALSE
  /\ main' = "done"
  /\ Release /\ Suspend
  /\ UNCHANGED <<feedNext, pending, cancelQ, procVars, taskVars, paused,
                 trigger, countVars, mon, rpcVars, mqVars, srvVars, trnVars>>

-----------------------------------------------------------------------------
(* The Rollouter's remote methods.  They wait for the servers or the queue *)
(* with the lock in their hands.                                           *)

rpcFrame == <<feedNext, pending, cancelQ, procVars, task, tag, lost, running,
              main, mon, trnVars, mq, dropped>>

PauseEnter ==
  /\ pauseC = "start" /\ Enter("pause")
  /\ paused' = TRUE
  /\ pauseC' = IF Partial THEN "cancel" ELSE "gather"
  /\ Hold("pause") /\ Suspend
  /\ UNCHANGED <<rpcFrame, finished, failed, trigger, countVars, updC, updBase,
                 resC, valQ, srvVars>>

PauseCancel ==
  /\ pauseC = "cancel"
  /\ srvPaused' = TRUE
  /\ pauseC' = "gather"
  /\ UNCHANGED <<rpcFrame, loopVars, finished, failed, flagVars, countVars,
                 updC, updBase, resC, valQ, weights>>

\* gather(*active_tasks) returned: active_tasks.clear().
PauseGather ==
  /\ pauseC = "gather" /\ Runs("pause")
  /\ Live = {}
  /\ finished' = 0 /\ failed' = 0
  /\ pauseC' = "clear"
  /\ UNCHANGED <<rpcFrame, loopVars, flagVars, countVars, updC, updBase, resC,
                 valQ, srvVars>>

PauseExit ==
  /\ pauseC = "clear" /\ Runs("pause")
  /\ trigger' = FALSE
  /\ pauseC' = "done"
  /\ Release /\ Suspend
  /\ UNCHANGED <<rpcFrame, finished, failed, paused, countVars, updC, updBase,
                 resC, valQ, srvVars>>

UpdEnter_VersionKept ==
  /\ updC = "start" /\ Enter("upd")
  /\ version' = version
  /\ updBase' = ActiveLen + Len(cancelQ)
  /\ updC' = "size"
  /\ Hold("upd") /\ Suspend
  /\ UNCHANGED <<rpcFrame, finished, failed, paused, trigger, staleness,
                 pauseC, resC, valQ, srvVars>>

\* update_param_version: the first two terms are read, then the queue's size
\* is awaited.
UpdEnter ==
  /\ updC = "start" /\ Enter("upd")
  /\ version' = syncVer
  /\ updBase' = ActiveLen + Len(cancelQ)
  /\ updC' = "size"
  /\ Hold("upd") /\ Suspend
  /\ UNCHANGED <<rpcFrame, finished, failed, paused, trigger, staleness,
                 pauseC, resC, valQ, srvVars>>

UpdCount_NotReset ==
  /\ updC = "size" /\ Runs("upd")
  /\ staleness' = staleness
  /\ updC' = "putVal"
  /\ UNCHANGED <<rpcFrame, loopVars, finished, failed, flagVars, version,
                 updBase, pauseC, resC, valQ, srvVars>>

UpdCount ==
  /\ updC = "size" /\ Runs("upd")
  /\ staleness' = updBase + Len(mq)
  /\ updC' = "putVal"
  /\ UNCHANGED <<rpcFrame, loopVars, finished, failed, flagVars, version,
                 updBase, pauseC, resC, valQ, srvVars>>

UpdExit ==
  /\ updC = "putVal" /\ Runs("upd")
  /\ valQ' = Append(valQ, version)
  /\ updC' = "none"
  /\ Release /\ Suspend
  /\ UNCHANGED <<rpcFrame, finished, failed, flagVars, countVars, updBase,
                 pauseC, resC, srvVars>>

\* resume is given the result of update_param_version, so it starts after it.
resFrame == <<feedNext, pending, cancelQ, reason, hand, bound, taskVars,
              running, countVars, main, mon, pauseC, updC, updBase, mqVars,
              weights, trnVars>>

Unpause ==
  /\ paused' = FALSE /\ trigger' = TRUE
  /\ NotifyAll
  /\ resC' = "none"
  /\ Release /\ Suspend

ResEnter ==
  /\ resC = "start" /\ updC = "none" /\ Enter("res")
  /\ \/ /\ Partial
        /\ resC' = "servers"
        /\ Hold("res") /\ Suspend
        /\ UNCHANGED <<paused, trigger, proc>>
     \/ ~Partial /\ Unpause
  /\ UNCHANGED <<resFrame, srvPaused>>

ResServers ==
  /\ resC = "servers" /\ srvPaused
  /\ srvPaused' = FALSE
  /\ UNCHANGED <<resFrame, loopVars, paused, trigger, proc, resC>>

ResExit ==
  /\ resC = "servers" /\ ~srvPaused /\ Runs("res")
  /\ Unpause
  /\ UNCHANGED <<resFrame, srvPaused>>

Rpc ==
  \/ PauseEnter \/ PauseCancel \/ PauseGather \/ PauseExit
  \/ UpdEnter \/ UpdCount \/ UpdExit
  \/ ResEnter \/ ResServers \/ ResExit

-----------------------------------------------------------------------------
(* _async_monitor_loop                                                     *)

monFrame == <<feedNext, pending, cancelQ, reason, hand, bound, taskVars,
              running, trigger, countVars, main, rpcVars, mqVars, srvVars,
              trnVars>>

MonCheck ==
  /\ mon = "check" /\ Enter("mon")
  /\ mon' = IF running THEN "sleep" ELSE "done"
  /\ Release /\ Suspend
  /\ UNCHANGED <<monFrame, proc, paused>>

\* After the sleep: what is tested here is acted upon when the lock is free.
MonWake ==
  /\ mon = "sleep" /\ Runs("mon")
  /\ mon' = IF trigger /\ ~ShouldPause THEN "resume" ELSE "check"
  /\ Continue("mon")
  /\ UNCHANGED <<monFrame, lockQ, proc, paused>>

MonResume ==
  /\ mon = "resume" /\ Enter("mon")
  /\ paused' = FALSE
  /\ NotifyAll
  /\ mon' = "check"
  /\ Release /\ Continue("mon")
  /\ UNCHANGED monFrame

Monitor == MonCheck \/ MonWake \/ MonResume

-----------------------------------------------------------------------------
(* The Trainer and the ParameterSynchronizer it waits for.                 *)

trnFrame == <<loopVars, feedNext, pending, cancelQ, procVars, taskVars,
              flagVars, countVars, main, mon, srvPaused, dropped, updBase>>

\* wait_last_valid: the last update_param_version and resume have returned.
LastSyncOver == updC = "none" /\ resC = "none"

GetSample ==
  /\ trn = "collect" /\ mq # <<>>
  /\ mq' = Tail(mq)
  /\ IF Head(mq) = DONE
     THEN /\ trn' = "final" /\ batch' = <<>>
          /\ unused' = {batch[i] : i \in 1..Len(batch)}
     ELSE /\ batch' = Append(batch, Head(mq))
          /\ trn' = IF Len(batch') = RequiredSamples THEN "train" ELSE "collect"
          /\ UNCHANGED unused
  /\ UNCHANGED <<trnFrame, pauseC, updC, resC, weights, valQ, trained, tver,
                 localStep, closing, syncVer>>

NextVersion ==
  /\ tver' = tver + 1 /\ localStep' = 1
  /\ trn' = "waitValid"

\* A training step, then _trigger_parameter_sync_after_step.
Train ==
  /\ trn = "train"
  /\ trained' = trained \cup {batch[i] : i \in 1..Len(batch)}
  /\ batch' = <<>>
  /\ IF localStep < TriggerSteps
     THEN localStep' = localStep + 1 /\ trn' = "log" /\ tver' = tver
     ELSE NextVersion
  /\ UNCHANGED <<trnFrame, pauseC, updC, resC, weights, mq, valQ, unused,
                 closing, syncVer>>

SyncStart_Unawaited ==
  /\ trn = "waitValid"
  /\ syncVer' = tver
  /\ pauseC' = "start"
  /\ trn' = "pausing"
  /\ UNCHANGED <<trnFrame, updC, resC, weights, mq, valQ, batch, trained,
                 unused, tver, localStep, closing>>

\* sync_weights: it stores the version and calls pause().
SyncStart ==
  /\ trn = "waitValid" /\ LastSyncOver
  /\ syncVer' = tver
  /\ pauseC' = "start"
  /\ trn' = "pausing"
  /\ UNCHANGED <<trnFrame, updC, resC, weights, mq, valQ, batch, trained,
                 unused, tver, localStep, closing>>

SyncPaused ==
  /\ trn = "pausing" /\ pauseC = "done"
  /\ pauseC' = "none"
  /\ trn' = "transfer"
  /\ UNCHANGED <<trnFrame, updC, resC, weights, mq, valQ, batch, trained,
                 unused, tver, localStep, closing, syncVer>>

\* The weights are there: update_param_version and resume are called and not
\* waited for.
SyncTransfer ==
  /\ trn = "transfer"
  /\ weights' = syncVer
  /\ updC' = "start" /\ resC' = "start"
  /\ trn' = IF closing THEN "closeWait" ELSE "log"
  /\ UNCHANGED <<trnFrame, pauseC, mq, valQ, batch, trained, unused, tver,
                 localStep, closing, syncVer>>

\* get_validate: the oldest result, if there is one.
PopValidation == valQ' = IF valQ = <<>> THEN valQ ELSE Tail(valQ)

LogValidation ==
  /\ trn = "log"
  /\ PopValidation
  /\ trn' = "collect"
  /\ UNCHANGED <<trnFrame, pauseC, updC, resC, weights, mq, batch, trained,
                 unused, tver, localStep, closing, syncVer>>

\* After the loop: one more synchronisation if the last weights have not been
\* validated.
Final ==
  /\ trn = "final" /\ LastSyncOver
  /\ PopValidation
  /\ IF tver % TestFreq # 0 \/ localStep > 1
     THEN NextVersion /\ closing' = TRUE
     ELSE trn' = "done" /\ UNCHANGED <<tver, localStep, closing>>
  /\ UNCHANGED <<trnFrame, pauseC, updC, resC, weights, mq, batch, trained,
                 unused, syncVer>>

CloseWait ==
  /\ trn = "closeWait" /\ LastSyncOver
  /\ PopValidation
  /\ trn' = "done"
  /\ UNCHANGED <<trnFrame, pauseC, updC, resC, weights, mq, batch, trained,
                 unused, tver, localStep, closing, syncVer>>

Trainer ==
  \/ GetSample \/ Train \/ SyncStart \/ SyncPaused \/ SyncTransfer
  \/ LogValidation \/ Final \/ CloseWait

-----------------------------------------------------------------------------
Next ==
  \/ \E c \in Coroutines : AwaitLock(c)
  \/ FeedPut
  \/ Processor
  \/ \E s \in Samples : Task(s) \/ Server(s) \/ MQPut(s)
  \/ MQPutEnd \/ MainStop
  \/ Rpc
  \/ Monitor
  \/ Trainer

Spec == Init /\ [][Next]_vars

(* Every process keeps going and every remote call is answered.  The ready *)
(* queue of the event loop is first in, first out, so a coroutine that can *)
(* go on again and again does: strong fairness, since another coroutine's  *)
(* turn disables it for a moment.  For the tasks and the calls of the      *)
(* samples it is enough that some of them go on: each takes finitely many  *)
(* steps.                                                                  *)

Coroutine(c) ==
  \/ AwaitLock(c)
  \/ c = "feed" /\ FeedPut
  \/ c = "proc" /\ Processor
  \/ c = "pause" /\ (PauseEnter \/ PauseGather \/ PauseExit)
  \/ c = "upd" /\ (UpdEnter \/ UpdCount \/ UpdExit)
  \/ c = "res" /\ (ResEnter \/ ResExit)
  \/ c = "mon" /\ Monitor
  \/ c = "main" /\ (MQPutEnd \/ MainStop)

Fairness ==
  /\ \A c \in Coroutines : SF_vars(Coroutine(c))
  /\ SF_vars(\E s \in Samples : Task(s))
  /\ WF_vars(\E s \in Samples : Server(s))
  /\ WF_vars(\E s \in Samples : MQPut(s))
  /\ WF_vars(PauseCancel \/ ResServers)
  /\ WF_vars(Trainer)

FairSpec == Spec /\ Fairness

-----------------------------------------------------------------------------
(* What the system promises.                                               *)

Elements(q) == {q[i] : i \in 1..Len(q)}
Count(s, q) == Cardinality({i \in 1..Len(q) : q[i] = s})
One(P) == IF P THEN 1 ELSE 0

\* Where sample s is.  The queue has a sample whose put_sample is not yet
\* answered, and its task is still there.
Copies(s) ==
  Count(s, pending) + Count(s, cancelQ) + Count(s, mq) + Count(s, batch)
    + One(hand = s) + One(task[s] \notin {"none", "ack"})
    + One(s \in trained) + One(s \in unused) + One(s \in dropped)
    + One(s \in lost)

\* No sample is trained on twice, generated twice at a time or forgotten:
\* from the moment it is fed it is in exactly one place, whatever pauses,
\* cancellations, failures and evictions do to it on its way.
SampleAccounting == \A s \in Samples : Copies(s) = One(s < feedNext)

\* The version numbers never leave their order while a synchronisation moves
\* from the Trainer to the servers and the Rollouter, and the Rollouter is
\* never more than one version behind what it was sent.
VersionChain ==
  /\ version <= weights /\ weights <= syncVer /\ syncVer <= tver
  /\ tver <= syncVer + 1
  /\ syncVer <= version + 1

\* A synchronisation never pauses the Rollouter while the update or the
\* resume of the one before is still at work.
NoOverlappingSync ==
  pauseC # "none" \/ trn = "transfer" => updC = "none" /\ resC = "none"

\* The coroutines between the two ends of an `async with self.lock' that
\* suspend there.
Holders ==
  {c \in Coroutines :
     \/ c = "proc" /\ proc = "drainWait"
     \/ c = "pause" /\ pauseC \in {"cancel", "gather", "clear"}
     \/ c = "upd" /\ updC \in {"size", "putVal"}
     \/ c = "res" /\ resC = "servers"}

\* The drain of active_tasks, pause, update_param_version and resume exclude
\* each other although each of them awaits with the lock in its hands.
LockExclusion == \A c \in Holders : Granted(c)

\* With partial rollout no generation is under way while the weights change
\* under it, although the monitor may have let the processor go on.
NoGenerationInTransfer ==
  Partial /\ trn = "transfer" => \A s \in Samples : task[s] \notin Generating

\* Samples taken and not yet handed to the Trainer.
Outstanding ==
  Cardinality({s \in Samples : \/ s \in Live \/ s = hand
                               \/ s \in Elements(cancelQ)
                               \/ s \in Elements(mq)})

\* staleness_samples undercounts what is outstanding by at most the sample in
\* the processor's hand, which update_param_version does not see; so one sample
\* more than max_required_samples may be outstanding.
OutstandingBound ==
  /\ Outstanding <= staleness + 1
  /\ Outstanding <= MaxRequired + 1

\* staleness_threshold is 0.
Synchronous == MaxRequired = RequiredSamples * TriggerSteps

\* Then max_required_samples is exact: the undercount never shows.
ExactBound == Synchronous => Outstanding <= MaxRequired

\* Then the full queue never evicts a sample, not even for the end signal.
NoEviction == Synchronous => dropped = {}

\* Then partial rollout takes no effect: a synchronisation finds no sample
\* that it could interrupt.  (When a generation has raised, the processor is
\* gone and the last synchronisation may meet the samples it left behind.)
NothingToInterrupt ==
  Synchronous /\ proc # "crashed" =>
    \A s \in Samples : task[s] \notin {"ref", "mix", "cut"}

\* Then training is on policy: no sample is older than the Trainer's version.
OnPolicy == Synchronous /\ trn = "train" =>
              \A i \in 1..Len(batch) : tag[batch[i]] = tver

\* What staleness_threshold 0 promises, in stream off policy as well.
SynchronousMode ==
  ExactBound /\ NoEviction /\ NothingToInterrupt /\ OnPolicy

\* A sample is trained on at most so many versions after it was stored: the
\* versions that max_required_samples, rounded up, are worth, and one.
Freshness ==
  trn = "train" =>
    \A i \in 1..Len(batch) :
      tver <= tag[batch[i]]
                + ((MaxRequired - 1) \div (RequiredSamples * TriggerSteps)) + 2

\* The end signal is the last thing the Trainer gets: no sample is on its way
\* any more when it has seen the signal of a processor that did not raise. And
\* when it returns, it has logged every validation result.
CleanEnd ==
  /\ trn \in {"final", "closeWait", "done"} /\ proc = "exit" =>
       mq = <<>> /\ Live = {}
  /\ trn = "done" => valQ = <<>>

\* The state nothing leads out of: the Trainer waits for a sample, the
\* processor for a resume that the monitor refuses, and no call is under way.
Stalled ==
  /\ trn = "collect" /\ mq = <<>>
  /\ proc = "idleWait" /\ paused /\ Live = {}
  /\ staleness >= MaxRequired
  /\ pauseC = "none" /\ updC = "none" /\ resC = "none"
NeverStalled == ~Stalled

\* The Trainer comes to its end, whatever the races do on the way.
TrainerFinishes == <>(trn = "done")

\* Every sample is trained on, left over in the last batch or evicted, unless
\* a generation that raises ends the processor.
SamplesSettle ==
  <>(Samples \subseteq trained \cup unused \cup dropped \/ proc = "crashed")

-----------------------------------------------------------------------------
(* What the documentation says and the code does not do: TLC finds each of  *)
(* these violated (README, section 3.1).                                    *)

\* "it will wait for the tasks to complete and not add new tasks": no task is
\* active while a synchronisation transfers the weights.
NoTaskInTransfer == ~Partial /\ trn = "transfer" => Live = {}

\* Interrupted samples continue after the synchronisation: none is left
\* behind when the processor ends.
CancelledContinue == proc = "exit" => cancelQ = <<>>

\* "the number of active_tasks may change, need to be verified again": a drain
\* that finds active_tasks emptied by pause() does not raise.
DrainSurvives == MaxFailures = 0 => proc # "crashed"
=============================================================================
