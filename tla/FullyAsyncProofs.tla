-------------------------- MODULE FullyAsyncProofs --------------------------
(***************************************************************************)
(* Proofs about the fully asynchronous trainer, for every number of        *)
(* samples, batch size, staleness bound, concurrency and number of         *)
(* failures, with and without partial rollout:                             *)
(*   - the coroutines that await with Rollouter.lock in their hands        *)
(*     exclude each other;                                                 *)
(*   - a parameter synchronisation never overlaps the one before, and the  *)
(*     version numbers of the four processes stay in their order;          *)
(*   - with partial rollout nothing is generated during a transfer;        *)
(*   - a sample is in exactly one place from its feeding on;               *)
(*   - as many samples are outstanding as staleness_samples says, or one   *)
(*     more;                                                               *)
(*   - the end signal is the last that the Trainer gets, and no validation *)
(*     result is lost;                                                     *)
(*   - no sample is trained on too many versions after it was stored;      *)
(*   - with staleness_threshold 0 the bounds are exact, training is on     *)
(*     policy, nothing is evicted or interrupted, and nothing stalls;      *)
(*   - without partial rollout nothing stalls if max_required_samples is   *)
(*     twice what a version takes, less one.                               *)
(* The last two are arguments of their own, from `The order in which the   *)
(* coroutines get the lock' to the end.                                    *)
(***************************************************************************)
EXTENDS FullyAsync, FiniteSetTheorems, FunctionTheorems, SequenceTheorems,
        TLAPS

\* What a synchronisation reads and writes besides the lock.
syncVars == <<trn, pauseC, updC, resC, tver, syncVer, weights, version>>

\* Where a synchronisation stands determines the four version numbers: the
\* Trainer is one ahead until it is started, the servers are one behind until
\* the transfer, the Rollouter until update_param_version has run.
SyncInv ==
  /\ pauseC # "none" <=> trn = "pausing"
  /\ trn \in {"pausing", "transfer"} => updC = "none" /\ resC = "none"
  /\ tver = IF trn = "waitValid" THEN syncVer + 1 ELSE syncVer
  /\ syncVer = IF trn \in {"pausing", "transfer"} THEN weights + 1 ELSE weights
  /\ weights = IF updC = "start" THEN version + 1 ELSE version

\* Once cancel() has returned the servers refuse, and once the active tasks
\* are gathered none generates, until resume().
Refusing == trn = "transfer" \/ pauseC \in {"gather", "clear", "done"}
Quiet == trn = "transfer" \/ pauseC \in {"clear", "done"}
GenInv ==
  Partial => /\ Refusing => srvPaused
             /\ Quiet => \A s \in Samples : task[s] \notin Generating

-----------------------------------------------------------------------------
(* Types.                                                                  *)

LEMMA QueueTypes ==
  ASSUME NEW S, NEW q \in Seq(S)
  PROVE  /\ Len(q) \in Nat
         /\ q # <<>> => Head(q) \in S /\ Tail(q) \in Seq(S)
         /\ \A x \in S : Append(q, x) \in Seq(S)
         /\ \A i \in 1..Len(q) : q[i] \in S
         /\ {q[i] : i \in 1..Len(q)} \subseteq S
<1>1. q # <<>> => Head(q) \in S /\ Tail(q) \in Seq(S)
  BY HeadTailProperties
<1>2. \A x \in S : Append(q, x) \in Seq(S)
  BY AppendProperties
<1>3. Len(q) \in Nat /\ \A i \in 1..Len(q) : q[i] \in S
  BY LenProperties, ElementOfSeq
<1> QED
  BY <1>1, <1>2, <1>3

LEMMA LockTypes ==
  ASSUME lockQ \in Seq(Coroutines)
  PROVE  /\ Release => lockQ' \in Seq(Coroutines)
         /\ \A c \in Coroutines : Hold(c) => lockQ' \in Seq(Coroutines)
         /\ \A c \in Coroutines :
              lockQ' = Append(lockQ, c) => lockQ' \in Seq(Coroutines)
<1>1. \A c \in Coroutines : <<c>> \in Seq(Coroutines)
  OBVIOUS
<1>2. Release => lockQ' \in Seq(Coroutines)
  BY QueueTypes DEF Release
<1>3. \A c \in Coroutines : Hold(c) => lockQ' \in Seq(Coroutines)
  BY <1>1 DEF Hold
<1>4. \A c \in Coroutines :
        lockQ' = Append(lockQ, c) => lockQ' \in Seq(Coroutines)
  BY QueueTypes
<1> QED
  BY <1>2, <1>3, <1>4

LEMMA ActiveLenType ==
  ASSUME TypeOK
  PROVE  ActiveLen \in Nat /\ IsFiniteSet(Live) /\ Cardinality(Live) \in Nat
<1>1. IsFiniteSet(Samples)
  BY ConstantsAssumption, FS_Interval DEF Samples
<1>2. IsFiniteSet(Live)
  BY <1>1, FS_Subset DEF Live
<1>3. Cardinality(Live) \in Nat
  BY <1>2, FS_CardinalityType
<1> QED
  BY <1>2, <1>3 DEF ActiveLen, TypeOK

LEMMA TypeProcessor ==
  ASSUME TypeOK, Processor
  PROVE  TypeOK'
<1> USE DEF TypeOK, procFrame, taskVars, rpcVars, mqVars, srvVars, trnVars,
            Suspend, Continue, ProcPcs, Coroutines, Idle
<1>1. CASE ProcPause
  BY <1>1
     DEF ProcPause
<1>2. CASE ProcPauseSet
  BY <1>2, LockTypes
     DEF ProcPauseSet
<1>3. CASE ProcTake
  <2>1. CASE cancelQ # <<>> /\ TakeCancelled
    <3>1. Head(cancelQ) \in Samples /\ Tail(cancelQ) \in Seq(Samples)
      BY <2>1, QueueTypes
    <3> QED
      BY <1>3, <2>1, <3>1 DEF ProcTake, TakeCancelled
  <2>2. CASE pending # <<>> /\ TakePending
    <3>1. /\ Head(pending) \in Samples \cup {DONE}
          /\ Tail(pending) \in Seq(Samples \cup {DONE})
      BY <2>2, QueueTypes
    <3> QED
      BY SMTT(30), <1>3, <2>2, <3>1 DEF ProcTake, TakePending
  <2> QED
    BY <1>3, <2>1, <2>2 DEF ProcTake
<1>4. CASE ProcStarve
  BY <1>4
     DEF ProcStarve
<1>5. CASE ProcGet
  BY <1>5, QueueTypes
     DEF ProcGet, TakePending
<1>6. CASE ProcDrained
  BY SMTT(30), <1>6
     DEF ProcDrained
<1>7. CASE ProcDrainLock
  BY <1>7, LockTypes
     DEF ProcDrainLock
<1>8. CASE ProcDrainEmpty
  BY <1>8, LockTypes
     DEF ProcDrainEmpty
<1>9. CASE ProcDrainWake
  BY <1>9, LockTypes
     DEF ProcDrainWake
<1>10. CASE ProcIdle
  BY <1>10, LockTypes
     DEF ProcIdle
<1>11. CASE ProcSubmit
  <2>1. task' \in [Samples -> TaskPcs]
    <3>1. [task EXCEPT ![hand] = "new"] \in [Samples -> TaskPcs]
      BY DEF TaskPcs
    <3> QED
      BY <3>1, <1>11 DEF ProcSubmit
  <2> QED
    BY <1>11, <2>1, LockTypes DEF ProcSubmit, DONE
<1> QED
  BY <1>1, <1>2, <1>3, <1>4, <1>5, <1>6, <1>7, <1>8, <1>9, <1>10, <1>11 DEF Processor

LEMMA TypeLoop ==
  ASSUME TypeOK, (\E c \in Coroutines : AwaitLock(c)) \/ FeedPut \/ MainStop
  PROVE  TypeOK'
<1> USE DEF TypeOK, procVars, taskVars, flagVars, countVars, rpcVars, mqVars,
            srvVars, trnVars, Suspend, Continue, Idle
<1>1. ASSUME NEW c \in Coroutines, AwaitLock(c) PROVE TypeOK'
  BY <1>1, LockTypes DEF AwaitLock
<1>2. CASE FeedPut
  <2>1. /\ feedNext' \in 1..(TotalSteps + 2)
        /\ feedNext <= TotalSteps => feedNext \in Samples
    BY <1>2, ConstantsAssumption DEF FeedPut, Samples
  <2>2. pending' \in Seq(Samples \cup {DONE})
    BY <1>2, <2>1, QueueTypes DEF FeedPut
  <2>3. cpu' \in Coroutines \cup {Idle}
    BY <1>2 DEF FeedPut, Coroutines
  <2> QED
    BY <1>2, <2>1, <2>2, <2>3 DEF FeedPut
<1>3. CASE MainStop
  <2>1. lockQ' \in Seq(Coroutines)
    BY <1>3, LockTypes DEF MainStop
  <2>2. running' \in BOOLEAN
    BY <1>3 DEF MainStop
  <2> QED
    BY <1>3, <2>1, <2>2 DEF MainStop
<1> QED
  BY <1>1, <1>2, <1>3

LEMMA TypeTask ==
  ASSUME TypeOK, NEW s \in Samples, Task(s) \/ Server(s)
  PROVE  TypeOK'
<1> USE DEF TypeOK, procVars, flagVars, countVars, rpcVars, mqVars, srvVars,
            trnVars, taskFrame, serverFrame, TaskPcs
<1>1. CASE TaskStored(s)
  BY <1>1 DEF TaskStored
<1>2. CASE TaskAcked(s)
  BY <1>2 DEF TaskAcked
<1>3. CASE TaskCancelled(s)
  <2>1. cancelQ' \in Seq(Samples)
    BY <1>3, QueueTypes DEF TaskCancelled
  <2> QED
    BY <1>3, <2>1 DEF TaskCancelled
<1>4. CASE TaskFailed(s)
  BY <1>4 DEF TaskFailed
<1>5. CASE Server(s)
  <2>1. task' \in [Samples -> TaskPcs]
    BY <1>5 DEF Server, ServerAccept, ServerFinish, ServerRefuse, ServerFail
  <2>2. UNCHANGED serverFrame
    BY <1>5 DEF Server, ServerAccept, ServerFinish, ServerRefuse, ServerFail
  <2> QED
    BY <2>1, <2>2
<1> QED
  BY <1>1, <1>2, <1>3, <1>4, <1>5 DEF Task

LEMMA TypePut ==
  ASSUME TypeOK, NEW x \in Samples \cup {DONE}, PutSample(x)
  PROVE  /\ mq' \in Seq(Samples \cup {DONE})
         /\ dropped' \subseteq Samples \cup {DONE}
<1> DEFINE S == Samples \cup {DONE}
<1>1. CASE Len(mq) >= MaxRequired
  <2>1. mq # <<>>
    BY <1>1, ConstantsAssumption DEF TypeOK
  <2>2. Head(mq) \in S /\ Tail(mq) \in Seq(S)
    BY <2>1, QueueTypes DEF TypeOK
  <2>3. Append(Tail(mq), x) \in Seq(S)
    BY <2>2, QueueTypes
  <2> QED
    BY <1>1, <2>2, <2>3 DEF PutSample, TypeOK
<1>2. CASE ~(Len(mq) >= MaxRequired)
  <2>1. Append(mq, x) \in Seq(S)
    BY QueueTypes DEF TypeOK
  <2> QED
    BY <1>2, <2>1 DEF PutSample, TypeOK
<1> QED
  BY <1>1, <1>2

LEMMA TypeQueue ==
  ASSUME TypeOK, (\E s \in Samples : MQPut(s)) \/ MQPutEnd
  PROVE  TypeOK'
<1> USE DEF TypeOK, procVars, flagVars, countVars, rpcVars, srvVars, trnVars,
            mqFrame, TaskPcs
<1>1. ASSUME NEW s \in Samples, MQPut(s) PROVE TypeOK'
  BY SMTT(30), <1>1, TypePut DEF MQPut
<1>2. CASE MQPutEnd
  BY <1>2, TypePut DEF MQPutEnd
<1> QED
  BY <1>1, <1>2

LEMMA TypeRpc ==
  ASSUME TypeOK, Rpc
  PROVE  TypeOK'
<1> USE DEF TypeOK, loopVars, procVars, taskVars, flagVars, countVars, rpcVars,
            mqVars, srvVars, trnVars, rpcFrame, resFrame, Suspend, Idle,
            Coroutines
<1>1. CASE PauseEnter
  BY <1>1, LockTypes DEF PauseEnter
<1>2. CASE PauseCancel
  BY <1>2 DEF PauseCancel
<1>3. CASE PauseGather
  BY <1>3 DEF PauseGather
<1>4. CASE PauseExit
  <2>1. lockQ' \in Seq(Coroutines)
    BY <1>4, LockTypes DEF PauseExit
  <2>2. trigger' \in BOOLEAN
    BY <1>4 DEF PauseExit
  <2> QED
    BY <1>4, <2>1, <2>2 DEF PauseExit
<1>5. CASE UpdEnter
  <2>1. updBase' \in Nat
    BY SMTT(30), <1>5, ActiveLenType, QueueTypes DEF UpdEnter
  <2> QED
    BY <1>5, <2>1, LockTypes DEF UpdEnter
<1>6. CASE UpdCount
  <2>1. staleness' \in Nat
    BY <1>6, QueueTypes DEF UpdCount
  <2> QED
    BY <1>6, <2>1 DEF UpdCount
<1>7. CASE UpdExit
  <2>1. valQ' \in Seq(Nat)
    BY <1>7, QueueTypes DEF UpdExit
  <2> QED
    BY <1>7, <2>1, LockTypes DEF UpdExit
<1>8. CASE ResEnter
  <2>1. lockQ' \in Seq(Coroutines)
    BY <1>8, LockTypes DEF ResEnter, Unpause
  <2>2. proc' \in ProcPcs
    BY <1>8 DEF ResEnter, Unpause, NotifyAll, ProcPcs
  <2>3. paused' \in BOOLEAN /\ trigger' \in BOOLEAN
    BY <1>8 DEF ResEnter, Unpause
  <2>4. cpu' = Idle /\ resC' \in {"none", "servers"} /\ UNCHANGED <<resFrame, srvPaused>>
    BY <1>8 DEF ResEnter, Unpause
  <2> QED
    BY <2>1, <2>2, <2>3, <2>4
<1>9. CASE ResServers
  <2>1. srvPaused' \in BOOLEAN
    BY <1>9 DEF ResServers
  <2> QED
    BY <1>9, <2>1 DEF ResServers
<1>10. CASE ResExit
  <2>1. lockQ' \in Seq(Coroutines)
    BY <1>10, LockTypes DEF ResExit, Unpause
  <2>2. proc' \in ProcPcs
    BY <1>10 DEF ResExit, Unpause, NotifyAll, ProcPcs
  <2>3. paused' \in BOOLEAN /\ trigger' \in BOOLEAN
    BY <1>10 DEF ResExit, Unpause
  <2>4. cpu' = Idle /\ resC' = "none" /\ UNCHANGED <<resFrame, srvPaused>>
    BY <1>10 DEF ResExit, Unpause
  <2> QED
    BY <2>1, <2>2, <2>3, <2>4
<1> QED
  BY <1>1, <1>2, <1>3, <1>4, <1>5, <1>6, <1>7, <1>8, <1>9, <1>10 DEF Rpc

LEMMA TypeMonitor ==
  ASSUME TypeOK, Monitor
  PROVE  TypeOK'
<1> USE DEF TypeOK, taskVars, countVars, rpcVars, mqVars, srvVars, trnVars,
            monFrame, Suspend, Continue, Idle, Coroutines
<1>1. CASE MonCheck
  BY <1>1, LockTypes DEF MonCheck
<1>2. CASE MonWake
  BY <1>2 DEF MonWake
<1>3. CASE MonResume
  <2>1. lockQ' \in Seq(Coroutines)
    BY <1>3, LockTypes DEF MonResume
  <2>2. proc' \in ProcPcs
    BY <1>3 DEF MonResume, NotifyAll, ProcPcs
  <2>3. paused' \in BOOLEAN
    BY <1>3 DEF MonResume
  <2> QED
    BY <1>3, <2>1, <2>2, <2>3 DEF MonResume
<1> QED
  BY <1>1, <1>2, <1>3 DEF Monitor

LEMMA TypeTrainer ==
  ASSUME TypeOK, Trainer
  PROVE  TypeOK'
<1> USE ConstantsAssumption
    DEF TypeOK, loopVars, procVars, taskVars, flagVars, countVars, trnFrame,
        TrainerPcs
<1>1. CASE GetSample
  <2>1. /\ Head(mq) \in Samples \cup {DONE}
        /\ mq' \in Seq(Samples \cup {DONE})
    BY <1>1, QueueTypes DEF GetSample
  <2>2. batch' \in Seq(Samples) /\ unused' \subseteq Samples
    <3>1. CASE Head(mq) = DONE
      BY <1>1, <3>1, QueueTypes DEF GetSample
    <3>2. CASE Head(mq) # DONE
      <4>1. Head(mq) \in Samples
        BY <2>1, <3>2
      <4>2. batch' = Append(batch, Head(mq)) /\ unused' = unused
        BY <1>1, <3>2 DEF GetSample
      <4>3. Append(batch, Head(mq)) \in Seq(Samples)
        BY <4>1, QueueTypes
      <4> QED
        BY <4>2, <4>3
    <3> QED
      BY <3>1, <3>2
  <2> QED
    BY SMTT(30), <1>1, <2>1, <2>2 DEF GetSample
<1>2. CASE Train
  <2>1. trained' \subseteq Samples
    BY <1>2, QueueTypes DEF Train
  <2>2. localStep' \in 1..TriggerSteps /\ tver' \in Nat
    BY <1>2 DEF Train, NextVersion
  <2>3. batch' \in Seq(Samples)
    BY <1>2 DEF Train
  <2>4. trn' \in TrainerPcs
    BY <1>2 DEF Train, NextVersion
  <2> QED
    BY <1>2, <2>1, <2>2, <2>3, <2>4 DEF Train
<1>3. CASE SyncStart
  BY <1>3 DEF SyncStart
<1>4. CASE SyncPaused
  BY <1>4 DEF SyncPaused
<1>5. CASE SyncTransfer
  BY <1>5 DEF SyncTransfer
<1>6. PopValidation => valQ' \in Seq(Nat)
  BY QueueTypes DEF PopValidation
<1>7. CASE LogValidation
  BY <1>6, <1>7 DEF LogValidation
<1>8. CASE Final
  <2>1. localStep' \in 1..TriggerSteps /\ tver' \in Nat
    BY <1>8 DEF Final, NextVersion
  <2>2. trn' \in TrainerPcs
    BY <1>8 DEF Final, NextVersion
  <2>3. closing' \in BOOLEAN
    BY <1>8 DEF Final
  <2> QED
    BY <1>6, <1>8, <2>1, <2>2, <2>3 DEF Final
<1>9. CASE CloseWait
  BY <1>6, <1>9 DEF CloseWait
<1> QED
  BY <1>1, <1>2, <1>3, <1>4, <1>5, <1>7, <1>8, <1>9 DEF Trainer

\* No coroutine leaves its program and no counter its range (TypeOK).
THEOREM TypeCorrectness == Spec => []TypeOK
<1>1. Init => TypeOK
  <2>1. \A S : <<>> \in Seq(S)
    BY EmptySeq
  <2>2. <<0>> \in Seq(Nat)
    OBVIOUS
  <2>3. 1 \in 1..(TotalSteps + 2) /\ 1 \in 1..TriggerSteps
    BY ConstantsAssumption
  <2>4. Init => /\ bound \in BOOLEAN /\ paused \in BOOLEAN
                /\ running \in BOOLEAN /\ trigger \in BOOLEAN
                /\ srvPaused \in BOOLEAN /\ closing \in BOOLEAN
    BY DEF Init
  <2> QED
    BY <2>1, <2>2, <2>3, <2>4
       DEF Init, TypeOK, Coroutines, ProcPcs, TaskPcs, TrainerPcs, Idle
<1>2. TypeOK /\ [Next]_vars => TypeOK'
  <2> SUFFICES ASSUME TypeOK, [Next]_vars PROVE TypeOK'
    OBVIOUS
  <2>1. CASE UNCHANGED vars
    BY <2>1 DEF vars, TypeOK, loopVars, procVars, taskVars, flagVars, countVars,
                rpcVars, mqVars, srvVars, trnVars
  <2>2. CASE Next
    BY <2>2, TypeLoop, TypeProcessor, TypeTask, TypeQueue, TypeRpc, TypeMonitor,
       TypeTrainer DEF Next
  <2> QED
    BY <2>1, <2>2
<1> QED
  BY <1>1, <1>2, PTL DEF Spec

-----------------------------------------------------------------------------
(* The synchronisation.                                                    *)

\* Only the remote methods and the Trainer touch the synchronisation.
LEMMA SyncFrame ==
  ASSUME [Next]_vars, ~Rpc, ~Trainer
  PROVE  UNCHANGED syncVars
<1> USE DEF syncVars, rpcVars, countVars, srvVars, trnVars
<1>1. ASSUME NEW c \in Coroutines, AwaitLock(c) PROVE UNCHANGED syncVars
  BY <1>1 DEF AwaitLock
<1>2. CASE FeedPut
  BY <1>2 DEF FeedPut
<1>3. CASE Processor
  BY <1>3 DEF Processor, ProcPause, ProcPauseSet, ProcTake, ProcStarve, ProcGet,
     ProcDrained, ProcDrainLock, ProcDrainEmpty, ProcDrainWake, ProcIdle,
     ProcSubmit, procFrame, TakePending
<1>4. ASSUME NEW s \in Samples, Task(s) PROVE UNCHANGED syncVars
  BY <1>4 DEF Task, TaskStored, TaskAcked, TaskCancelled, TaskFailed, taskFrame
<1>5. ASSUME NEW s \in Samples, Server(s) PROVE UNCHANGED syncVars
  BY <1>5 DEF Server, ServerAccept, ServerFinish, ServerRefuse, ServerFail,
     serverFrame, taskFrame
<1>6. ASSUME NEW s \in Samples, MQPut(s) PROVE UNCHANGED syncVars
  BY <1>6 DEF MQPut, mqFrame
<1>7. CASE MQPutEnd
  BY <1>7 DEF MQPutEnd, mqFrame
<1>8. CASE MainStop
  BY <1>8 DEF MainStop
<1>9. CASE Monitor
  BY <1>9 DEF Monitor, MonCheck, MonWake, MonResume, monFrame
<1>10. CASE UNCHANGED vars
  BY <1>10 DEF vars
<1> QED
  BY <1>1, <1>2, <1>3, <1>4, <1>5, <1>6, <1>7, <1>8, <1>9, <1>10 DEF Next

LEMMA SyncRpc ==
  ASSUME SyncInv, Rpc
  PROVE  SyncInv'
<1> USE DEF rpcFrame, resFrame, trnVars, countVars, srvVars, rpcVars
<1>1. CASE PauseEnter
  BY <1>1 DEF SyncInv, PauseEnter
<1>2. CASE PauseCancel
  BY <1>2 DEF SyncInv, PauseCancel
<1>3. CASE PauseGather
  BY <1>3 DEF SyncInv, PauseGather
<1>4. CASE PauseExit
  BY <1>4 DEF SyncInv, PauseExit
<1>5. CASE UpdEnter
  BY <1>5 DEF SyncInv, UpdEnter
<1>6. CASE UpdCount
  BY <1>6 DEF SyncInv, UpdCount
<1>7. CASE UpdExit
  BY <1>7 DEF SyncInv, UpdExit
<1>8. CASE ResEnter
  BY <1>8 DEF SyncInv, ResEnter, Unpause
<1>9. CASE ResServers
  BY <1>9 DEF SyncInv, ResServers
<1>10. CASE ResExit
  BY <1>10 DEF SyncInv, ResExit, Unpause
<1> QED
  BY <1>1, <1>2, <1>3, <1>4, <1>5, <1>6, <1>7, <1>8, <1>9, <1>10, Rpc DEF Rpc

LEMMA SyncTrainer ==
  ASSUME SyncInv, Trainer
  PROVE  SyncInv'
<1> USE DEF trnFrame, trnVars, countVars
<1>1. CASE GetSample
  BY <1>1 DEF SyncInv, GetSample
<1>2. CASE Train
  BY <1>2 DEF SyncInv, Train, NextVersion
<1>3. CASE SyncStart
  BY <1>3 DEF SyncInv, SyncStart, LastSyncOver
<1>4. CASE SyncPaused
  BY <1>4 DEF SyncInv, SyncPaused
<1>5. CASE SyncTransfer
  BY <1>5 DEF SyncInv, SyncTransfer
<1>6. CASE LogValidation
  BY <1>6 DEF SyncInv, LogValidation
<1>7. CASE Final
  BY <1>7 DEF SyncInv, Final, NextVersion
<1>8. CASE CloseWait
  BY <1>8 DEF SyncInv, CloseWait
<1> QED
  BY <1>1, <1>2, <1>3, <1>4, <1>5, <1>6, <1>7, <1>8 DEF Trainer

\* Where a synchronisation stands determines the version numbers: the
\* invariant the theorems on VersionChain and NoOverlappingSync rest on.
THEOREM SyncInvariance == Spec => []SyncInv
<1>1. Init => SyncInv
  BY DEF Init, SyncInv
<1>2. SyncInv /\ [Next]_vars => SyncInv'
  <2> SUFFICES ASSUME SyncInv, [Next]_vars PROVE SyncInv'
    OBVIOUS
  <2>1. CASE Rpc
    BY <2>1, SyncRpc
  <2>2. CASE Trainer
    BY <2>2, SyncTrainer
  <2>3. CASE ~Rpc /\ ~Trainer
    BY <2>3, SyncFrame DEF SyncInv, syncVars
  <2> QED
    BY <2>1, <2>2, <2>3
<1> QED
  BY <1>1, <1>2, PTL DEF Spec

\* A synchronisation never overlaps the update or the resume of the one
\* before (NoOverlappingSync).
THEOREM SyncsDoNotOverlap == Spec => []NoOverlappingSync
<1>1. SyncInv => NoOverlappingSync
  BY DEF SyncInv, NoOverlappingSync
<1> QED
  BY <1>1, SyncInvariance, PTL

\* The versions never leave their order (VersionChain).
THEOREM VersionsOrdered == Spec => []VersionChain
<1>1. TypeOK /\ SyncInv => VersionChain
  BY DEF TypeOK, SyncInv, VersionChain
<1> QED
  BY <1>1, TypeCorrectness, SyncInvariance, PTL

-----------------------------------------------------------------------------
(* The lock.  All that await with it in their hands are its owner, so there *)
(* is at most one; the lemmas are the ways a step can use the lock.        *)

LEMMA OnlyOwner ==
  ASSUME LockExclusion, NEW c \in Coroutines, Enter(c) \/ c \in Holders
  PROVE  Holders \subseteq {c}
BY DEF LockExclusion, Enter, Granted

LEMMA LockTaken ==
  ASSUME LockExclusion, NEW c \in Coroutines, Enter(c), Hold(c),
         Holders' \subseteq Holders \cup {c}
  PROVE  LockExclusion'
<1>1. Holders' \subseteq {c}
  BY OnlyOwner
<1>2. lockQ' # <<>> /\ Head(lockQ') = c
  BY DEF Enter, Granted, Hold
<1> QED
  BY <1>1, <1>2 DEF LockExclusion, Granted

LEMMA LockReleased ==
  ASSUME LockExclusion, NEW c \in Coroutines, Enter(c) \/ c \in Holders,
         Holders' \subseteq Holders \ {c}
  PROVE  LockExclusion'
<1>1. Holders' = {}
  BY OnlyOwner
<1> QED
  BY <1>1 DEF LockExclusion

LEMMA LockAwaited ==
  ASSUME TypeOK, LockExclusion, NEW c \in Coroutines, lockQ # <<>>,
         lockQ' = Append(lockQ, c), Holders' \subseteq Holders
  PROVE  LockExclusion'
<1>1. lockQ' # <<>> /\ Head(lockQ') = Head(lockQ)
  <2>1. lockQ \in Seq(Coroutines)
    BY DEF TypeOK
  <2> QED
    BY <2>1, HeadTailAppend, AppendProperties
<1> QED
  BY <1>1 DEF LockExclusion, Granted

LEMMA LockUntouched ==
  ASSUME LockExclusion, UNCHANGED lockQ, Holders' \subseteq Holders
  PROVE  LockExclusion'
BY DEF LockExclusion, Granted

LEMMA LockProcessor ==
  ASSUME TypeOK, LockExclusion, Processor
  PROVE  LockExclusion'
<1> USE DEF Holders, procFrame, rpcVars
<1>1. "proc" \in Coroutines
  BY DEF Coroutines
<1>2. CASE ProcPause \/ ProcStarve
  BY <1>2, LockUntouched DEF ProcPause, ProcStarve
<1>9. CASE ProcDrained
  <2>1. proc' # "drainWait"
    BY <1>9 DEF ProcDrained, TypeOK
  <2> QED
    BY <1>9, <2>1, LockUntouched DEF ProcDrained
<1>3. CASE ProcTake \/ ProcGet
  BY <1>3, LockUntouched DEF ProcTake, ProcGet, TakeCancelled, TakePending
<1>4. CASE ProcPauseSet
  BY <1>1, <1>4, LockReleased DEF ProcPauseSet
<1>5. CASE ProcDrainLock
  BY <1>1, <1>5, LockTaken DEF ProcDrainLock
<1>6. CASE ProcDrainEmpty
  BY <1>1, <1>6, LockReleased DEF ProcDrainEmpty, Enter
<1>7. CASE ProcDrainWake
  BY <1>1, <1>7, LockReleased DEF ProcDrainWake
<1>8. CASE ProcIdle \/ ProcSubmit
  BY <1>1, <1>8, LockReleased DEF ProcIdle, ProcSubmit
<1> QED
  BY <1>2, <1>3, <1>4, <1>5, <1>6, <1>7, <1>8, <1>9 DEF Processor

LEMMA LockRpc ==
  ASSUME LockExclusion, Rpc
  PROVE  LockExclusion'
<1> USE DEF Holders, rpcFrame, resFrame, procVars, loopVars
<1>1. {"pause", "upd", "res"} \subseteq Coroutines
  BY DEF Coroutines
<1>2. CASE PauseEnter
  BY <1>1, <1>2, LockTaken DEF PauseEnter
<1>3. CASE PauseCancel \/ PauseGather
  BY <1>3, LockUntouched DEF PauseCancel, PauseGather
<1>4. CASE PauseExit
  BY <1>1, <1>4, LockReleased DEF PauseExit
<1>5. CASE UpdEnter
  BY <1>1, <1>5, LockTaken DEF UpdEnter
<1>6. CASE UpdCount
  BY <1>6, LockUntouched DEF UpdCount
<1>7. CASE UpdExit
  BY <1>1, <1>7, LockReleased DEF UpdExit
<1>8. Unpause => (proc' = "drainWait" => proc = "drainWait") /\ resC' = "none"
  BY DEF Unpause, NotifyAll
<1>9. CASE ResEnter
  BY <1>1, <1>8, <1>9, LockTaken, LockReleased DEF ResEnter
<1>10. CASE ResServers
  BY <1>10, LockUntouched DEF ResServers
<1>11. CASE ResExit
  BY <1>1, <1>8, <1>11, LockReleased DEF ResExit
<1> QED
  BY <1>2, <1>3, <1>4, <1>5, <1>6, <1>7, <1>9, <1>10, <1>11 DEF Rpc

LEMMA LockMonitor ==
  ASSUME LockExclusion, Monitor
  PROVE  LockExclusion'
<1> USE DEF Holders, monFrame, rpcVars
<1>1. "mon" \in Coroutines /\ "mon" \notin Holders'
  BY DEF Coroutines
<1>2. CASE MonCheck
  BY <1>1, <1>2, LockReleased DEF MonCheck
<1>3. CASE MonWake
  BY <1>3, LockUntouched DEF MonWake
<1>4. CASE MonResume
  BY <1>1, <1>4, LockReleased DEF MonResume, NotifyAll
<1> QED
  BY <1>2, <1>3, <1>4 DEF Monitor

LEMMA LockTrainer ==
  ASSUME LockExclusion, Trainer
  PROVE  LockExclusion'
<1>1. UNCHANGED <<lockQ, proc>>
  BY DEF Trainer, GetSample, Train, SyncStart, SyncPaused, SyncTransfer,
         LogValidation, Final, CloseWait, trnFrame, loopVars, procVars
<1>2. /\ pauseC' \in {pauseC, "start", "none"}
      /\ updC' \in {updC, "start"} /\ resC' \in {resC, "start"}
  BY DEF Trainer, GetSample, Train, SyncStart, SyncPaused, SyncTransfer,
         LogValidation, Final, CloseWait
<1> QED
  BY <1>1, <1>2, LockUntouched DEF Holders

\* The coroutines that await with the lock in their hands exclude each other
\* (LockExclusion).
THEOREM LockExcludes == Spec => []LockExclusion
<1>1. Init => LockExclusion
  BY DEF Init, LockExclusion, Holders
<1>2. TypeOK /\ LockExclusion /\ [Next]_vars => LockExclusion'
  <2> SUFFICES ASSUME TypeOK, LockExclusion, [Next]_vars PROVE LockExclusion'
    OBVIOUS
  <2> USE DEF Holders, procVars, rpcVars
  <2>1. ASSUME NEW c \in Coroutines, AwaitLock(c) PROVE LockExclusion'
    BY <2>1, LockAwaited DEF AwaitLock
  <2>2. CASE FeedPut
    BY <2>2, LockUntouched DEF FeedPut
  <2>3. ASSUME NEW s \in Samples, Task(s) \/ Server(s) PROVE LockExclusion'
    BY <2>3, LockUntouched
       DEF Task, TaskStored, TaskAcked, TaskCancelled, TaskFailed, Server,
           ServerAccept, ServerFinish, ServerRefuse, ServerFail, serverFrame,
           taskFrame
  <2>4. ASSUME (\E s \in Samples : MQPut(s)) \/ MQPutEnd PROVE LockExclusion'
    BY <2>4, LockUntouched DEF MQPut, MQPutEnd, mqFrame
  <2>5. CASE MainStop
    <3>1. "main" \in Coroutines /\ "main" \notin Holders'
      BY DEF Coroutines
    <3> QED
      BY <2>5, <3>1, LockReleased DEF MainStop
  <2>6. CASE UNCHANGED vars
    BY <2>6, LockUntouched DEF vars, loopVars
  <2> QED
    BY <2>1, <2>2, <2>3, <2>4, <2>5, <2>6, LockProcessor, LockRpc, LockMonitor,
       LockTrainer DEF Next
<1> QED
  BY <1>1, <1>2, TypeCorrectness, PTL DEF Spec

-----------------------------------------------------------------------------
(* Generation during a transfer.                                           *)

\* Only a server that does not refuse begins to generate.
LEMMA GenFrame ==
  ASSUME TypeOK, [Next]_vars, ~Rpc, ~Trainer
  PROVE  /\ UNCHANGED <<trn, pauseC, srvPaused>>
         /\ \A s \in Samples :
              task'[s] \in Generating => task[s] \in Generating \/ MayAccept
<1> DEFINE NoneBegins ==
      \A s \in Samples :
        task'[s] \in Generating => task[s] \in Generating \/ MayAccept
<1>1. UNCHANGED <<trn, pauseC>>
  BY SyncFrame DEF syncVars
<1>2. UNCHANGED <<srvPaused, task>> => UNCHANGED srvPaused /\ NoneBegins
  OBVIOUS
<1> USE DEF taskVars, srvVars, Generating
<1>3. CASE FeedPut \/ MainStop \/ \E c \in Coroutines : AwaitLock(c)
  BY <1>1, <1>2, <1>3 DEF FeedPut, MainStop, AwaitLock
<1>4. CASE Processor
  <2>1. CASE ProcSubmit
    BY <1>1, <2>1 DEF ProcSubmit, procFrame, TypeOK
  <2>2. CASE ~ProcSubmit
    BY <1>1, <1>2, <1>4, <2>2
       DEF Processor, ProcPause, ProcPauseSet, ProcTake, ProcStarve, ProcGet,
           ProcDrained, ProcDrainLock, ProcDrainEmpty, ProcDrainWake, ProcIdle,
           procFrame
  <2> QED
    BY <2>1, <2>2
<1>5. ASSUME NEW s \in Samples, Task(s)
      PROVE  UNCHANGED srvPaused /\ NoneBegins
  BY <1>5 DEF Task, TaskStored, TaskAcked, TaskCancelled, TaskFailed, taskFrame,
     TypeOK
<1>6. ASSUME NEW s \in Samples, Server(s)
      PROVE  UNCHANGED srvPaused /\ NoneBegins
  BY <1>6 DEF Server, ServerAccept, ServerFinish, ServerRefuse, ServerFail,
     serverFrame, taskFrame, TypeOK
<1>7. ASSUME NEW s \in Samples, MQPut(s)
      PROVE  UNCHANGED srvPaused /\ NoneBegins
  BY <1>7 DEF MQPut, mqFrame, TypeOK
<1>8. CASE MQPutEnd
  BY <1>1, <1>2, <1>8 DEF MQPutEnd, mqFrame
<1>9. CASE Monitor
  BY <1>1, <1>2, <1>9 DEF Monitor, MonCheck, MonWake, MonResume, monFrame
<1>10. CASE UNCHANGED vars
  BY <1>1, <1>2, <1>10 DEF vars
<1> QED
  BY <1>1, <1>3, <1>4, <1>5, <1>6, <1>7, <1>8, <1>9, <1>10 DEF Next

LEMMA GenRpc ==
  ASSUME SyncInv, GenInv, Rpc
  PROVE  GenInv'
<1> USE DEF rpcFrame, resFrame, trnVars, srvVars, taskVars
<1>1. UNCHANGED <<trn, task>>
  BY DEF Rpc, PauseEnter, PauseCancel, PauseGather, PauseExit, UpdEnter,
         UpdCount, UpdExit, ResEnter, ResServers, ResExit
<1>2. CASE PauseEnter
  BY <1>1, <1>2 DEF PauseEnter, GenInv, Refusing, Quiet
<1>3. CASE PauseCancel
  BY <1>1, <1>3 DEF PauseCancel, GenInv, Refusing, Quiet, SyncInv
<1>4. CASE PauseGather
  BY <1>1, <1>4 DEF PauseGather, GenInv, Refusing, Quiet, Live, Generating
<1>5. CASE PauseExit
  BY <1>1, <1>5 DEF PauseExit, GenInv, Refusing, Quiet
<1>6. CASE UpdEnter \/ UpdCount \/ UpdExit \/ ResEnter \/ ResExit
  BY <1>1, <1>6
     DEF UpdEnter, UpdCount, UpdExit, ResEnter, ResExit, GenInv, Refusing, Quiet
<1>7. CASE ResServers
  <2>1. resC # "none" /\ UNCHANGED pauseC
    BY <1>7 DEF ResServers
  <2>2. ~Refusing' /\ ~Quiet'
    BY <1>1, <2>1 DEF SyncInv, Refusing, Quiet
  <2> QED
    BY <2>2 DEF GenInv
<1> QED
  BY <1>2, <1>3, <1>4, <1>5, <1>6, <1>7 DEF Rpc

LEMMA GenTrainer ==
  ASSUME SyncInv, GenInv, Trainer
  PROVE  GenInv'
<1>1. UNCHANGED <<task, srvPaused>>
  BY DEF Trainer, GetSample, Train, SyncStart, SyncPaused, SyncTransfer,
         LogValidation, Final, CloseWait, trnFrame, taskVars
<1>2. CASE SyncPaused
  BY <1>1, <1>2 DEF SyncPaused, GenInv, Refusing, Quiet
<1>3. CASE SyncStart
  BY <1>3 DEF SyncStart, GenInv, Refusing, Quiet
<1>4. CASE ~SyncPaused /\ ~SyncStart
  <2>1. trn' # "transfer" /\ UNCHANGED pauseC /\ trn # "pausing"
    BY <1>4 DEF Trainer, GetSample, Train, SyncTransfer, LogValidation, Final,
       CloseWait, NextVersion
  <2> QED
    BY <2>1 DEF SyncInv, GenInv, Refusing, Quiet
<1> QED
  BY <1>2, <1>3, <1>4

\* With partial rollout nothing is generated while the weights change
\* (NoGenerationInTransfer): the servers refuse from the time cancel() returns
\* to resume(), and what they generated then is gathered before the transfer.
THEOREM TransferIsQuiet == Spec => []NoGenerationInTransfer
<1>1. Init => GenInv
  BY DEF Init, GenInv, Refusing, Quiet
<1>2. TypeOK /\ SyncInv /\ GenInv /\ [Next]_vars => GenInv'
  <2> SUFFICES ASSUME TypeOK, SyncInv, GenInv, [Next]_vars PROVE GenInv'
    OBVIOUS
  <2>1. CASE ~Rpc /\ ~Trainer
    <3>1. Refusing' <=> Refusing
      BY <2>1, GenFrame DEF Refusing
    <3>2. Quiet' <=> Quiet
      BY <2>1, GenFrame DEF Quiet
    <3>3. Quiet => Refusing /\ resC = "none"
      BY DEF Quiet, Refusing, SyncInv
    <3> QED
      BY <2>1, <3>1, <3>2, <3>3, GenFrame DEF GenInv, MayAccept
  <2> QED
    BY <2>1, GenRpc, GenTrainer
<1>3. GenInv => NoGenerationInTransfer
  BY DEF GenInv, Quiet, NoGenerationInTransfer
<1> QED
  BY <1>1, <1>2, <1>3, TypeCorrectness, SyncInvariance, PTL DEF Spec

-----------------------------------------------------------------------------
(* Counting.                                                               *)

LEMMA CountType ==
  ASSUME NEW S, NEW q \in Seq(S), NEW s
  PROVE  /\ IsFiniteSet({i \in 1..Len(q) : q[i] = s})
         /\ Count(s, q) \in Nat
<1>1. Len(q) \in Nat
  BY LenProperties
<1>2. IsFiniteSet(1..Len(q))
  BY <1>1, FS_Interval
<1>3. IsFiniteSet({i \in 1..Len(q) : q[i] = s})
  BY <1>2, FS_Subset
<1> QED
  BY <1>3, FS_CardinalityType DEF Count

LEMMA CountAppend ==
  ASSUME NEW S, NEW q \in Seq(S), NEW x \in S, NEW s
  PROVE  Count(s, Append(q, x)) = Count(s, q) + One(x = s)
<1> DEFINE I == {i \in 1..Len(q) : q[i] = s}
           J == {i \in 1..Len(Append(q, x)) : Append(q, x)[i] = s}
<1>1. /\ Len(q) \in Nat /\ Len(Append(q, x)) = Len(q) + 1
      /\ \A i \in 1..Len(q) : Append(q, x)[i] = q[i]
      /\ Append(q, x)[Len(q) + 1] = x
  BY AppendProperties, LenProperties
<1>2. IsFiniteSet(I) /\ Count(s, q) \in Nat
  BY CountType
<1>5. Count(s, q) = Cardinality(I) /\ Count(s, Append(q, x)) = Cardinality(J)
  BY DEF Count
<1>3. CASE x = s
  <2>1. J = I \cup {Len(q) + 1} /\ Len(q) + 1 \notin I
    BY <1>1, <1>3
  <2>2. Cardinality(J) = Cardinality(I) + 1
    BY <1>2, <2>1, FS_AddElement
  <2> QED
    BY <1>3, <1>5, <2>2 DEF One
<1>4. CASE x # s
  <2>1. J = I
    BY <1>1, <1>4
  <2>2. Cardinality(J) = Cardinality(I)
    BY <2>1
  <2> HIDE DEF I, J
  <2> QED
    BY <1>2, <1>4, <1>5, <2>2 DEF One
<1> QED
  BY <1>3, <1>4

LEMMA CountTail ==
  ASSUME NEW S, NEW q \in Seq(S), q # <<>>, NEW s
  PROVE  Count(s, Tail(q)) = Count(s, q) - One(Head(q) = s)
<1> DEFINE I == {i \in 1..Len(q) : q[i] = s}
           J == {i \in 1..Len(Tail(q)) : Tail(q)[i] = s}
           f == [i \in J |-> i + 1]
<1>1. /\ Len(q) \in Nat \ {0} /\ Len(Tail(q)) = Len(q) - 1
      /\ \A i \in 1..Len(Tail(q)) : Tail(q)[i] = q[i + 1]
      /\ Tail(q) \in Seq(S)
  BY HeadTailProperties, LenProperties
<1>2. /\ IsFiniteSet(I) /\ Count(s, q) \in Nat
      /\ IsFiniteSet(J) /\ Count(s, Tail(q)) \in Nat
  BY <1>1, CountType
<1>3. f \in Bijection(J, I \ {1})
  <2>1. f \in [J -> I \ {1}]
    BY <1>1
  <2>2. \A a, b \in J : f[a] = f[b] => a = b
    BY <1>1
  <2>3. \A t \in I \ {1} : \E a \in J : f[a] = t
    <3> SUFFICES ASSUME NEW t \in I \ {1} PROVE t - 1 \in J /\ f[t - 1] = t
      OBVIOUS
    <3> QED
      BY <1>1
  <2> HIDE DEF f, I, J
  <2>4. f \in Injection(J, I \ {1}) /\ f \in Surjection(J, I \ {1})
    BY <2>1, <2>2, <2>3 DEF Injection, Surjection, IsInjective
  <2> QED
    BY <2>4 DEF Bijection
<1>4. Cardinality(I \ {1}) = Cardinality(J)
  BY <1>2, <1>3, FS_Bijection, Fun_ExistsBij
<1>5. 1 \in I <=> Head(q) = s
  BY <1>1
<1>6. Cardinality(I \ {1}) = IF 1 \in I THEN Cardinality(I) - 1 ELSE Cardinality(I)
  BY <1>2, FS_RemoveElement
<1>7. Count(s, q) = Cardinality(I) /\ Count(s, Tail(q)) = Cardinality(J)
  BY DEF Count
<1> HIDE DEF I, J
<1> QED
  BY <1>2, <1>4, <1>5, <1>6, <1>7 DEF One

LEMMA CountEmpty == \A s : Count(s, <<>>) = 0
<1> SUFFICES ASSUME NEW s PROVE Count(s, <<>>) = 0
  OBVIOUS
<1>1. {i \in 1..Len(<<>>) : <<>>[i] = s} = {}
  BY EmptySeq
<1> QED
  BY <1>1, FS_EmptySet DEF Count

LEMMA CountElements ==
  ASSUME NEW S, NEW q \in Seq(S), NEW s
  PROVE  s \in Elements(q) <=> Count(s, q) # 0
<1>2. s \in Elements(q) <=> {i \in 1..Len(q) : q[i] = s} # {}
  BY DEF Elements
<1>3. IsFiniteSet({i \in 1..Len(q) : q[i] = s})
  BY CountType
<1> QED
  BY <1>2, <1>3, FS_EmptySet DEF Count

\* What happens to the elements of a queue.
LEMMA ElementsTypes ==
  ASSUME NEW S, NEW q \in Seq(S)
  PROVE  /\ Elements(q) \subseteq S
         /\ IsFiniteSet(Elements(q))
         /\ Cardinality(Elements(q)) <= Len(q)
         /\ \A x \in S : Elements(Append(q, x)) = Elements(q) \cup {x}
         /\ q # <<>> => Elements(q) = Elements(Tail(q)) \cup {Head(q)}
         /\ Elements(<<>>) = {}
<1> DEFINE f == [i \in 1..Len(q) |-> q[i]]
<1>1. Len(q) \in Nat /\ \A i \in 1..Len(q) : q[i] \in S
  BY LenProperties, ElementOfSeq
<1>2. Elements(q) \subseteq S
  BY <1>1 DEF Elements
<1>3. f \in Surjection(1..Len(q), Elements(q))
  BY <1>1 DEF Surjection, Elements
<1>4. IsFiniteSet(1..Len(q)) /\ Cardinality(1..Len(q)) = Len(q)
  BY SMTT(30), <1>1, FS_Interval
<1>5. IsFiniteSet(Elements(q)) /\ Cardinality(Elements(q)) <= Len(q)
  <2> HIDE DEF f
  <2> QED
    BY <1>3, <1>4, FS_Surjection
<1>6. \A x \in S : Elements(Append(q, x)) = Elements(q) \cup {x}
  <2> SUFFICES ASSUME NEW x \in S
               PROVE  Elements(Append(q, x)) = Elements(q) \cup {x}
    OBVIOUS
  <2>1. /\ Len(Append(q, x)) = Len(q) + 1
        /\ \A i \in 1..Len(q) : Append(q, x)[i] = q[i]
        /\ Append(q, x)[Len(q) + 1] = x
    BY AppendProperties
  <2> QED
    BY <1>1, <2>1 DEF Elements
<1>7. ASSUME q # <<>>
      PROVE  Elements(q) = Elements(Tail(q)) \cup {Head(q)}
  <2>1. /\ Len(q) \in Nat \ {0} /\ Len(Tail(q)) = Len(q) - 1
        /\ \A i \in 1..Len(Tail(q)) : Tail(q)[i] = q[i + 1]
        /\ Head(q) = q[1]
    BY <1>7, HeadTailProperties, LenProperties
  <2>2. \A i \in 1..Len(q) : i = 1 \/ i - 1 \in 1..Len(Tail(q))
    BY <2>1
  <2>3. Elements(q) \subseteq Elements(Tail(q)) \cup {Head(q)}
    <3> SUFFICES ASSUME NEW i \in 1..Len(q)
                 PROVE  q[i] \in Elements(Tail(q)) \cup {Head(q)}
      BY DEF Elements
    <3>1. CASE i = 1
      BY <2>1, <3>1
    <3>2. CASE i # 1
      <4>1. i - 1 \in 1..Len(Tail(q)) /\ Tail(q)[i - 1] = q[i]
        BY <2>1, <2>2, <3>2
      <4> QED
        BY <4>1 DEF Elements
    <3> QED
      BY <3>1, <3>2
  <2>4. Elements(Tail(q)) \cup {Head(q)} \subseteq Elements(q)
    BY <2>1 DEF Elements
  <2> QED
    BY <2>3, <2>4
<1>8. Elements(<<>>) = {}
  BY EmptySeq DEF Elements
<1> QED
  BY <1>2, <1>5, <1>6, <1>7, <1>8

-----------------------------------------------------------------------------
(* The ways of a sample.                                                   *)

\* Where the samples are, and the steps that move one.
sampleVars == <<feedNext, pending, cancelQ, hand, task, tag, lost, mq, dropped,
                batch, trained, unused>>
SampleStep ==
  \/ FeedPut \/ ProcTake \/ ProcGet \/ ProcSubmit
  \/ \E s \in Samples : Task(s) \/ Server(s) \/ MQPut(s)
  \/ MQPutEnd \/ GetSample \/ Train

LEMMA SampleFrame ==
  ASSUME [Next]_vars, ~SampleStep
  PROVE  UNCHANGED sampleVars
<1> USE DEF sampleVars
<1>1. ASSUME NEW c \in Coroutines, AwaitLock(c) PROVE UNCHANGED sampleVars
  BY <1>1 DEF AwaitLock, procVars, taskVars, mqVars, trnVars
<1>2. CASE Processor
  BY <1>2
     DEF SampleStep, Processor, ProcPause, ProcPauseSet, ProcStarve, ProcDrained,
         ProcDrainLock, ProcDrainEmpty, ProcDrainWake, ProcIdle, procFrame,
         taskVars, mqVars, trnVars
<1>3. CASE MainStop
  BY <1>3 DEF MainStop, procVars, taskVars, mqVars, trnVars
<1>4. CASE Rpc
  BY <1>4
     DEF Rpc, PauseEnter, PauseCancel, PauseGather, PauseExit, UpdEnter,
         UpdCount, UpdExit, ResEnter, ResServers, ResExit, Unpause, rpcFrame,
         resFrame, procVars, taskVars, mqVars, trnVars
<1>5. CASE Monitor
  BY <1>5
     DEF Monitor, MonCheck, MonWake, MonResume, monFrame, taskVars, mqVars,
         trnVars
<1>6. CASE Trainer
  BY <1>6
     DEF SampleStep, Trainer, SyncStart, SyncPaused, SyncTransfer,
         LogValidation, Final, CloseWait, trnFrame, procVars, taskVars
<1>7. CASE UNCHANGED vars
  BY <1>7 DEF vars, procVars, taskVars, mqVars, trnVars
<1> QED
  BY <1>1, <1>2, <1>3, <1>4, <1>5, <1>6, <1>7 DEF Next, SampleStep

\* Where the processor stands says whether it has a sample in hand.
HandInv ==
  /\ proc \in {"top", "pauseSet", "get", "idle", "idleWait", "exit"} =>
       hand = DONE
  /\ proc \in {"drain", "drainWait"} => (hand = DONE <=> reason # "full")
  /\ proc \in {"submit", "submitWait"} => hand # DONE

LEMMA HandStep ==
  ASSUME TypeOK, HandInv, [Next]_vars
  PROVE  HandInv'
<1>1. ASSUME UNCHANGED <<proc, reason, hand>> PROVE HandInv'
  BY <1>1 DEF HandInv
<1>2. ASSUME NEW c \in Coroutines, AwaitLock(c) PROVE HandInv'
  BY <1>1, <1>2 DEF AwaitLock, procVars
<1>3. CASE FeedPut \/ MainStop
  BY <1>1, <1>3 DEF FeedPut, MainStop, procVars
<1>4. CASE Processor
  <2>1. CASE ProcTake \/ ProcGet
    <3>1. ASSUME cancelQ # <<>> PROVE Head(cancelQ) # DONE
      <4>1. cancelQ \in Seq(Samples)
        BY DEF TypeOK
      <4>2. Head(cancelQ) \in Samples
        BY <3>1, <4>1, QueueTypes
      <4> QED
        BY <4>2 DEF Samples, DONE
    <3>2. proc' = "drain" /\ (hand' = DONE <=> reason' # "full")
      BY <2>1, <3>1 DEF ProcTake, ProcGet, TakeCancelled, TakePending
    <3> QED
      BY <3>2 DEF HandInv
  <2>2. CASE ~ProcTake /\ ~ProcGet
    BY <1>4, <2>2
       DEF HandInv, Processor, ProcPause, ProcPauseSet, ProcStarve, ProcDrained,
           ProcDrainLock, ProcDrainEmpty, ProcDrainWake, ProcIdle, ProcSubmit,
           TypeOK
  <2> QED
    BY <2>1, <2>2
<1>5. ASSUME NEW s \in Samples, Task(s) \/ Server(s) \/ MQPut(s) PROVE HandInv'
  BY <1>1, <1>5
     DEF Task, TaskStored, TaskAcked, TaskCancelled, TaskFailed, Server,
         ServerAccept, ServerFinish, ServerRefuse, ServerFail, serverFrame,
         taskFrame, MQPut, mqFrame, procVars
<1>6. CASE MQPutEnd
  BY <1>1, <1>6 DEF MQPutEnd, mqFrame, procVars
<1>7. CASE PauseEnter \/ PauseCancel \/ PauseGather \/ PauseExit \/ UpdEnter
           \/ UpdCount \/ UpdExit
  BY <1>1, <1>7
     DEF PauseEnter, PauseCancel, PauseGather, PauseExit, UpdEnter, UpdCount,
         UpdExit, rpcFrame, procVars
<1>8. CASE ResEnter \/ ResServers \/ ResExit
  BY <1>8
     DEF HandInv, ResEnter, ResServers, ResExit, Unpause, NotifyAll, resFrame
<1>9. CASE Monitor
  BY <1>9
     DEF HandInv, Monitor, MonCheck, MonWake, MonResume, NotifyAll, monFrame
<1>10. CASE Trainer
  BY <1>1, <1>10
     DEF Trainer, GetSample, Train, SyncStart, SyncPaused, SyncTransfer,
         LogValidation, Final, CloseWait, trnFrame, procVars
<1>11. CASE UNCHANGED vars
  BY <1>1, <1>11 DEF vars, procVars
<1> QED
  BY <1>2, <1>3, <1>4, <1>5, <1>6, <1>7, <1>8, <1>9, <1>10, <1>11 DEF Next, Rpc

\* The Trainer has left its loop.
Ended == closing \/ trn \in {"final", "closeWait", "done"}

\* What batch holds, and that only the end leaves samples over.
BatchInv ==
  /\ trn = "collect" => Len(batch) < RequiredSamples
  /\ trn = "train" => Len(batch) = RequiredSamples
  /\ trn \notin {"collect", "train"} => batch = <<>>
  /\ trn \in {"waitValid", "pausing", "transfer"} => localStep = 1
  /\ closing => trn \in {"waitValid", "pausing", "transfer", "closeWait", "done"}
  /\ trn = "closeWait" => closing
  /\ ~Ended => unused = {}

LEMMA TrainerFrame ==
  ASSUME [Next]_vars, ~Trainer
  PROVE  /\ UNCHANGED <<trn, batch, trained, unused, tver, localStep, closing,
                        syncVer>>
         /\ UNCHANGED <<mq, dropped>> \/ MQPutEnd \/ \E s \in Samples : MQPut(s)
<1> USE DEF trnVars, mqVars
<1>1. ASSUME NEW c \in Coroutines, AwaitLock(c)
      PROVE  UNCHANGED <<trnVars, mq, dropped>>
  BY <1>1 DEF AwaitLock
<1>2. CASE FeedPut \/ MainStop \/ Processor
  BY <1>2
     DEF FeedPut, MainStop, Processor, ProcPause, ProcPauseSet, ProcTake,
         ProcStarve, ProcGet, ProcDrained, ProcDrainLock, ProcDrainEmpty,
         ProcDrainWake, ProcIdle, ProcSubmit, procFrame
<1>3. ASSUME NEW s \in Samples, Task(s) \/ Server(s)
      PROVE  UNCHANGED <<trnVars, mq, dropped>>
  BY <1>3
     DEF Task, TaskStored, TaskAcked, TaskCancelled, TaskFailed, Server,
         ServerAccept, ServerFinish, ServerRefuse, ServerFail, serverFrame,
         taskFrame
<1>4. ASSUME MQPutEnd \/ \E s \in Samples : MQPut(s) PROVE UNCHANGED trnVars
  BY <1>4 DEF MQPutEnd, MQPut, mqFrame
<1>5. CASE Rpc \/ Monitor
  BY <1>5
     DEF Rpc, PauseEnter, PauseCancel, PauseGather, PauseExit, UpdEnter,
         UpdCount, UpdExit, ResEnter, ResServers, ResExit, rpcFrame, resFrame,
         Monitor, MonCheck, MonWake, MonResume, monFrame
<1>6. CASE UNCHANGED vars
  BY <1>6 DEF vars
<1> QED
  BY <1>1, <1>2, <1>3, <1>4, <1>5, <1>6 DEF Next

LEMMA BatchStep ==
  ASSUME TypeOK, BatchInv, [Next]_vars
  PROVE  BatchInv'
<1> USE ConstantsAssumption DEF BatchInv, Ended
<1>1. CASE ~Trainer
  BY <1>1, TrainerFrame
<1>2. CASE GetSample
  <2>1. CASE Head(mq) = DONE
    BY <1>2, <2>1 DEF GetSample
  <2>2. CASE Head(mq) # DONE
    <3>1. batch \in Seq(Samples) /\ Head(mq) \in Samples
      BY <1>2, <2>2, QueueTypes DEF TypeOK, GetSample
    <3>2. Len(batch') = Len(batch) + 1 /\ Len(batch) \in Nat
      BY <1>2, <2>2, <3>1, AppendProperties, LenProperties DEF GetSample
    <3> QED
      BY <1>2, <2>2, <3>2 DEF GetSample
  <2> QED
    BY <2>1, <2>2
<1>3. CASE Train
  BY <1>3, EmptySeq DEF Train, NextVersion
<1>4. CASE SyncStart \/ SyncPaused \/ SyncTransfer
  BY <1>4 DEF SyncStart, SyncPaused, SyncTransfer
<1>5. CASE LogValidation
  <2>1. Len(batch) = 0
    BY <1>5, EmptySeq DEF LogValidation
  <2> QED
    BY <1>5, <2>1 DEF LogValidation
<1>6. CASE Final \/ CloseWait
  BY <1>6 DEF Final, CloseWait, NextVersion
<1> QED
  BY <1>1, <1>2, <1>3, <1>4, <1>5, <1>6 DEF Trainer

-----------------------------------------------------------------------------
(* Each sample is in one place.                                            *)

LEMMA OneType == \A P \in BOOLEAN : One(P) \in {0, 1}
BY DEF One

LEMMA CopiesTypes ==
  ASSUME TypeOK, NEW s \in Samples
  PROVE  /\ Count(s, pending) \in Nat /\ Count(s, cancelQ) \in Nat
         /\ Count(s, mq) \in Nat /\ Count(s, batch) \in Nat
         /\ s # DONE
<1>1. s # DONE
  BY DEF Samples, DONE
<1>2. /\ pending \in Seq(Samples \cup {DONE}) /\ cancelQ \in Seq(Samples)
      /\ mq \in Seq(Samples \cup {DONE}) /\ batch \in Seq(Samples)
  BY DEF TypeOK
<1> QED
  BY <1>1, <1>2, CountType

\* PutSample counted.
LEMMA CountPut ==
  ASSUME TypeOK, NEW x \in Samples \cup {DONE}, PutSample(x), NEW s \in Samples,
         Count(s, mq) > 0 => s \notin dropped
  PROVE  Count(s, mq') + One(s \in dropped') =
           Count(s, mq) + One(s \in dropped) + One(x = s)
<1> DEFINE S == Samples \cup {DONE}
<1>1. mq \in Seq(S) /\ Count(s, mq) \in Nat
  BY CopiesTypes DEF TypeOK
<1>2. CASE Len(mq) >= MaxRequired
  <2>1. mq # <<>>
    BY <1>1, <1>2, ConstantsAssumption
  <2>2. Tail(mq) \in Seq(S)
    BY <1>1, <2>1, QueueTypes
  <2>3. Count(s, Tail(mq)) = Count(s, mq) - One(Head(mq) = s)
    BY <1>1, <2>1, CountTail DEF One
  <2>4. Count(s, Append(Tail(mq), x)) = Count(s, Tail(mq)) + One(x = s)
    BY <2>2, CountAppend DEF One
  <2>5. mq' = Append(Tail(mq), x) /\ dropped' = dropped \cup {Head(mq)}
    BY <1>2 DEF PutSample
  <2>6. Count(s, Tail(mq)) \in Nat
    BY <2>2, CountType
  <2> QED
    BY <1>1, <2>3, <2>4, <2>5, <2>6 DEF One
<1>3. CASE ~(Len(mq) >= MaxRequired)
  <2>1. Count(s, Append(mq, x)) = Count(s, mq) + One(x = s)
    BY <1>1, CountAppend DEF One
  <2>2. mq' = Append(mq, x) /\ dropped' = dropped
    BY <1>3 DEF PutSample
  <2> QED
    BY <1>1, <2>1, <2>2 DEF One
<1> QED
  BY <1>2, <1>3

LEMMA AccountLoop ==
  ASSUME TypeOK, HandInv, NEW s \in Samples, Copies(s) = One(s < feedNext),
         FeedPut \/ ProcTake \/ ProcGet \/ ProcSubmit
  PROVE  Copies(s)' = One(s < feedNext)'
<1>0. /\ Count(s, pending) \in Nat /\ Count(s, cancelQ) \in Nat
      /\ Count(s, mq) \in Nat /\ Count(s, batch) \in Nat
      /\ s # DONE
  BY CopiesTypes
<1> USE <1>0
<1>1. CASE FeedPut
  <2> DEFINE x == IF feedNext <= TotalSteps THEN feedNext ELSE DONE
  <2>1. x \in Samples \cup {DONE} /\ pending \in Seq(Samples \cup {DONE})
    BY DEF TypeOK, Samples
  <2>2. Count(s, Append(pending, x)) = Count(s, pending) + One(x = s)
    BY <2>1, CountAppend DEF One
  <2>3. One(s < feedNext + 1) = One(s < feedNext) + One(x = s)
    BY DEF One, TypeOK, Samples
  <2> HIDE DEF x
  <2>4. pending' = Append(pending, x) /\ feedNext' = feedNext + 1
    BY <1>1 DEF FeedPut, x
  <2>5. UNCHANGED <<cancelQ, mq, batch, hand, task, trained, unused, dropped,
                    lost>>
    BY <1>1 DEF FeedPut, procVars, taskVars, mqVars, trnVars
  <2>6. Count(s, pending') = Count(s, pending) + One(x = s)
    BY <2>2, <2>4
  <2>7. Copies(s)' = Copies(s) + One(x = s)
    BY <2>5, <2>6 DEF Copies, One
  <2> QED
    BY <2>3, <2>4, <2>7
<1>2. CASE cancelQ # <<>> /\ TakeCancelled /\ ProcTake
  <2>1. Count(s, Tail(cancelQ)) = Count(s, cancelQ) - One(Head(cancelQ) = s)
    BY <1>2, CountTail DEF One, TypeOK
  <2>2. hand = DONE
    BY <1>2 DEF ProcTake, HandInv
  <2>3. hand' = Head(cancelQ) /\ cancelQ' = Tail(cancelQ)
    BY <1>2 DEF TakeCancelled
  <2>4. UNCHANGED <<feedNext, pending, mq, batch, task, trained, unused,
                    dropped, lost>>
    BY <1>2 DEF ProcTake, TakeCancelled, procFrame, taskVars, mqVars, trnVars
  <2> QED
    BY <2>1, <2>2, <2>3, <2>4 DEF Copies, One
<1>3. CASE pending # <<>> /\ TakePending /\ (ProcTake \/ ProcGet)
  <2>1. Count(s, Tail(pending)) = Count(s, pending) - One(Head(pending) = s)
    BY <1>3, CountTail DEF One, TypeOK
  <2>2. hand = DONE
    BY <1>3 DEF ProcTake, ProcGet, HandInv
  <2>3. hand' = Head(pending) /\ pending' = Tail(pending)
    BY <1>3 DEF TakePending
  <2>4. UNCHANGED <<feedNext, cancelQ, mq, batch, task, trained, unused,
                    dropped, lost>>
    BY <1>3
       DEF ProcTake, ProcGet, TakePending, procFrame, taskVars, mqVars, trnVars
  <2> QED
    BY <2>1, <2>2, <2>3, <2>4 DEF Copies, One
<1>4. CASE ProcSubmit
  <2>1. UNCHANGED <<feedNext, pending, cancelQ, mq, batch, trained, unused,
                    dropped, lost>>
    BY <1>4 DEF ProcSubmit, procFrame, mqVars, trnVars
  <2>2. CASE UNCHANGED <<hand, task>>
    BY <2>1, <2>2 DEF Copies, One
  <2>3. CASE task' = [task EXCEPT ![hand] = "new"] /\ hand' = DONE
    <3>1. CASE hand = s
      <4>1. task[s] \in {"none", "ack"}
        BY <3>1 DEF Copies, One
      <4>2. task'[s] = "new"
        BY <2>3, <3>1 DEF TypeOK
      <4> QED
        BY <2>1, <2>3, <3>1, <4>1, <4>2 DEF Copies, One
    <3>2. CASE hand # s
      <4>1. task'[s] = task[s]
        BY <2>3, <3>2 DEF TypeOK
      <4> QED
        BY <2>1, <2>3, <3>2, <4>1 DEF Copies, One
    <3> QED
      BY <3>1, <3>2
  <2> QED
    BY <1>4, <2>2, <2>3 DEF ProcSubmit
<1> QED
  BY <1>1, <1>2, <1>3, <1>4 DEF ProcTake, ProcGet

LEMMA AccountTask ==
  ASSUME TypeOK, NEW s \in Samples, Copies(s) = One(s < feedNext),
         NEW t \in Samples, Task(t) \/ Server(t)
  PROVE  Copies(s)' = One(s < feedNext)'
<1>0. /\ Count(s, pending) \in Nat /\ Count(s, cancelQ) \in Nat
      /\ Count(s, mq) \in Nat /\ Count(s, batch) \in Nat
      /\ s # DONE
  BY CopiesTypes
<1> USE <1>0
<1>1. UNCHANGED <<feedNext, pending, mq, batch, hand, trained, unused, dropped>>
  BY DEF Task, TaskStored, TaskAcked, TaskCancelled, TaskFailed, Server,
         ServerAccept, ServerFinish, ServerRefuse, ServerFail, serverFrame,
         taskFrame, procVars, mqVars, trnVars
<1>2. ASSUME UNCHANGED <<cancelQ, lost>>,
             task[t] \in {"none", "ack"} <=> task'[t] \in {"none", "ack"},
             \A u \in Samples \ {t} : task'[u] = task[u]
      PROVE  Copies(s)' = One(s < feedNext)'
  <2>1. task[s] \in {"none", "ack"} <=> task'[s] \in {"none", "ack"}
    BY <1>2
  <2> QED
    BY <1>1, <1>2, <2>1 DEF Copies, One
<1>3. CASE TaskStored(t) \/ TaskAcked(t)
  BY <1>2, <1>3 DEF TaskStored, TaskAcked, TypeOK
<1>4. CASE Server(t)
  BY <1>2, <1>4
     DEF Server, ServerAccept, ServerFinish, ServerRefuse, ServerFail,
         serverFrame, TypeOK
<1>5. CASE TaskCancelled(t)
  <2>1. Count(s, Append(cancelQ, t)) = Count(s, cancelQ) + One(t = s)
    BY CountAppend DEF One, TypeOK
  <2>2. cancelQ' = Append(cancelQ, t) /\ UNCHANGED lost
    BY <1>5 DEF TaskCancelled
  <2>3. /\ task[t] = "cut" /\ task'[t] = "none"
        /\ \A u \in Samples \ {t} : task'[u] = task[u]
    BY <1>5 DEF TaskCancelled, TypeOK
  <2> QED
    BY <1>1, <2>1, <2>2, <2>3 DEF Copies, One
<1>6. CASE TaskFailed(t)
  <2>1. lost' = lost \cup {t} /\ UNCHANGED cancelQ
    BY <1>6 DEF TaskFailed
  <2>2. /\ task[t] = "err" /\ task'[t] = "none"
        /\ \A u \in Samples \ {t} : task'[u] = task[u]
    BY <1>6 DEF TaskFailed, TypeOK
  <2> QED
    BY <1>1, <2>1, <2>2 DEF Copies, One
<1> QED
  BY <1>3, <1>4, <1>5, <1>6 DEF Task

LEMMA AccountQueue ==
  ASSUME TypeOK, NEW s \in Samples, Copies(s) = One(s < feedNext),
         MQPutEnd \/ \E t \in Samples : MQPut(t)
  PROVE  Copies(s)' = One(s < feedNext)'
<1>0. /\ Count(s, pending) \in Nat /\ Count(s, cancelQ) \in Nat
      /\ Count(s, mq) \in Nat /\ Count(s, batch) \in Nat
      /\ s # DONE
  BY CopiesTypes
<1> USE <1>0
<1>1. UNCHANGED <<feedNext, pending, cancelQ, batch, hand, trained, unused,
                  lost>>
  BY DEF MQPutEnd, MQPut, mqFrame, procVars, trnVars
<1>2. Count(s, mq) > 0 => s \notin dropped
  BY DEF Copies, One
<1>3. Count(s, mq') \in Nat
  BY TypeQueue, CopiesTypes, CountType DEF TypeOK
<1>4. ASSUME NEW t \in Samples, MQPut(t) PROVE Copies(s)' = One(s < feedNext)'
  <2>1. Count(s, mq') + One(s \in dropped') =
          Count(s, mq) + One(s \in dropped) + One(t = s)
    BY <1>2, <1>4, CountPut DEF One, MQPut
  <2>2. /\ task[t] = "put" /\ task'[t] = "ack"
        /\ \A u \in Samples \ {t} : task'[u] = task[u]
    BY <1>4 DEF MQPut, TypeOK
  <2>3. One(task[s] \notin {"none", "ack"}) =
          One(task'[s] \notin {"none", "ack"}) + One(t = s)
    BY <2>2 DEF One
  <2>4. /\ One(s \in dropped') \in Nat /\ One(s \in dropped) \in Nat
        /\ One(t = s) \in Nat
    BY DEF One
  <2>5. /\ Count(s, mq)' = Count(s, mq') /\ One(s \in dropped)' = One(s \in dropped')
        /\ One(s < feedNext)' = One(s < feedNext)
    BY <1>1 DEF One
  <2> QED
    BY <1>1, <1>3, <2>1, <2>3, <2>4 DEF Copies, One
<1>5. CASE MQPutEnd
  <2>1. Count(s, mq') + One(s \in dropped') =
          Count(s, mq) + One(s \in dropped) + One(DONE = s)
    BY <1>2, <1>5, CountPut DEF One, MQPutEnd
  <2>2. UNCHANGED task
    BY <1>5 DEF MQPutEnd
  <2> QED
    BY <1>1, <1>3, <2>1, <2>2 DEF Copies, One
<1> QED
  BY <1>4, <1>5

LEMMA AccountTrainer ==
  ASSUME TypeOK, BatchInv, NEW s \in Samples, Copies(s) = One(s < feedNext),
         GetSample \/ Train
  PROVE  Copies(s)' = One(s < feedNext)'
<1>0. /\ Count(s, pending) \in Nat /\ Count(s, cancelQ) \in Nat
      /\ Count(s, mq) \in Nat /\ Count(s, batch) \in Nat
      /\ s # DONE
  BY CopiesTypes
<1> USE <1>0
<1>1. UNCHANGED <<feedNext, pending, cancelQ, task, hand, dropped, lost>>
  BY DEF GetSample, Train, trnFrame, procVars, taskVars
<1>2. /\ s \in {batch[i] : i \in 1..Len(batch)} <=> Count(s, batch) # 0
      /\ Count(s, <<>>) = 0
  BY CountElements, CountEmpty DEF TypeOK, Elements
<1>3. CASE Train
  <2>1. UNCHANGED <<mq, unused>> /\ batch' = <<>>
    BY <1>3 DEF Train
  <2>2. s \in trained' <=> s \in trained \/ Count(s, batch) # 0
    BY <1>2, <1>3 DEF Train
  <2>7. Count(s, batch) # 0 => Count(s, batch) = 1 /\ s \notin trained
    BY DEF Copies, One
  <2>3. One(s \in trained') = One(s \in trained) + Count(s, batch)
    BY <2>2, <2>7 DEF One
  <2>4. Count(s, batch') = 0
    BY <1>2, <2>1
  <2>5. Copies(s)' = Copies(s)
    BY <1>1, <2>1, <2>3, <2>4 DEF Copies, One
  <2>6. One(s < feedNext)' = One(s < feedNext)
    BY <1>1 DEF One
  <2> QED
    BY <2>5, <2>6
<1>4. CASE GetSample
  <2>1. Count(s, Tail(mq)) = Count(s, mq) - One(Head(mq) = s)
    BY <1>4, CountTail DEF One, TypeOK, GetSample
  <2>2. mq' = Tail(mq) /\ UNCHANGED trained
    BY <1>4 DEF GetSample
  <2>3. CASE Head(mq) = DONE
    <3>1. unused = {}
      BY <1>4 DEF GetSample, BatchInv, Ended
    <3>2. batch' = <<>> /\ (s \in unused' <=> Count(s, batch) # 0)
      BY <1>2, <1>4, <2>3 DEF GetSample
    <3>3. One(s \in unused') = One(s \in unused) + Count(s, batch)
      BY SMTT(30), <3>1, <3>2 DEF Copies, One
    <3> QED
      BY SMTT(30), <1>1, <1>2, <2>1, <2>2, <2>3, <3>2, <3>3 DEF Copies, One
  <2>4. CASE Head(mq) # DONE
    <3>1. Head(mq) \in Samples /\ batch \in Seq(Samples)
      BY <1>4, <2>4, QueueTypes DEF TypeOK, GetSample
    <3>2. Count(s, Append(batch, Head(mq))) =
            Count(s, batch) + One(Head(mq) = s)
      BY <3>1, CountAppend DEF One
    <3>3. batch' = Append(batch, Head(mq)) /\ UNCHANGED unused
      BY <1>4, <2>4 DEF GetSample
    <3> QED
      BY <1>1, <2>1, <2>2, <3>2, <3>3 DEF Copies, One
  <2> QED
    BY <2>3, <2>4
<1> QED
  BY <1>3, <1>4

LEMMA AccountStep ==
  ASSUME TypeOK, HandInv, BatchInv, SampleAccounting, [Next]_vars
  PROVE  SampleAccounting'
<1> SUFFICES ASSUME NEW s \in Samples PROVE Copies(s)' = One(s < feedNext)'
  BY DEF SampleAccounting
<1>1. Copies(s) = One(s < feedNext)
  BY DEF SampleAccounting
<1>2. CASE ~SampleStep
  <2>1. UNCHANGED sampleVars
    BY <1>2, SampleFrame
  <2> QED
    BY <1>1, <2>1 DEF sampleVars, Copies
<1>3. CASE SampleStep
  BY <1>1, <1>3, AccountLoop, AccountTask, AccountQueue, AccountTrainer
     DEF SampleStep
<1> QED
  BY <1>2, <1>3

\* What the counting proofs rest on.
PlaceInv == HandInv /\ BatchInv /\ SampleAccounting

\* The processor, the Trainer and the samples: the inductive invariant that
\* SampleAccounting needs (what hand and batch may hold at each place).
THEOREM Placed == Spec => []PlaceInv
<1>1. ASSUME Init PROVE PlaceInv
  <2>1. HandInv /\ BatchInv
    BY <1>1, ConstantsAssumption, EmptySeq DEF Init, HandInv, BatchInv, Ended
  <2>2. ASSUME NEW s \in Samples PROVE Copies(s) = One(s < feedNext)
    <3>1. Count(s, <<>>) = 0 /\ s # DONE /\ ~(s < feedNext)
      BY <1>1, <2>2, CountEmpty DEF Init, Samples, DONE
    <3>2. /\ pending = <<>> /\ cancelQ = <<>> /\ mq = <<>> /\ batch = <<>>
          /\ hand = DONE /\ task[s] = "none"
          /\ trained = {} /\ unused = {} /\ dropped = {} /\ lost = {}
      BY <1>1, <2>2 DEF Init
    <3>3. /\ Count(s, pending) = 0 /\ Count(s, cancelQ) = 0
          /\ Count(s, mq) = 0 /\ Count(s, batch) = 0
      BY <3>1, <3>2
    <3>4. Copies(s) = 0
      BY <3>1, <3>2, <3>3 DEF Copies, One
    <3>5. One(s < feedNext) = 0
      BY <3>1 DEF One
    <3> QED
      BY <3>4, <3>5
  <2> QED
    BY <2>1, <2>2 DEF PlaceInv, SampleAccounting
<1>2. TypeOK /\ PlaceInv /\ [Next]_vars => PlaceInv'
  BY HandStep, BatchStep, AccountStep DEF PlaceInv
<1> QED
  BY <1>1, <1>2, TypeCorrectness, PTL DEF Spec

\* No sample is trained on twice, generated twice at a time or forgotten
\* (SampleAccounting).
THEOREM SamplesAccounted == Spec => []SampleAccounting
<1>1. PlaceInv => SampleAccounting
  BY DEF PlaceInv
<1> QED
  BY <1>1, Placed, PTL

-----------------------------------------------------------------------------
(* staleness_samples and what is outstanding.                              *)

\* What the processor's variables can do in a step that is not its own.
LEMMA ProcessorFrame ==
  ASSUME [Next]_vars, ~Processor
  PROVE  /\ UNCHANGED <<reason, hand, bound>>
         /\ \/ UNCHANGED proc
            \/ proc = "idleWait" /\ proc' = "idle"
            \/ proc = "submitWait" /\ proc' = "submit"
<1> USE DEF procVars
<1>1. ASSUME NEW c \in Coroutines, AwaitLock(c) PROVE UNCHANGED procVars
  BY <1>1 DEF AwaitLock
<1>2. CASE FeedPut \/ MainStop
  BY <1>2 DEF FeedPut, MainStop
<1>3. ASSUME NEW s \in Samples, Task(s) \/ Server(s) \/ MQPut(s)
      PROVE  UNCHANGED procVars
  BY <1>3
     DEF Task, TaskStored, TaskAcked, TaskCancelled, TaskFailed, Server,
         ServerAccept, ServerFinish, ServerRefuse, ServerFail, serverFrame,
         taskFrame, MQPut, mqFrame
<1>4. CASE MQPutEnd
  BY <1>4 DEF MQPutEnd, mqFrame
<1>5. CASE Rpc \/ Monitor
  BY <1>5
     DEF Rpc, PauseEnter, PauseCancel, PauseGather, PauseExit, UpdEnter,
         UpdCount, UpdExit, ResEnter, ResServers, ResExit, Unpause, NotifyAll,
         rpcFrame, resFrame, Monitor, MonCheck, MonWake, MonResume, monFrame
<1>6. CASE Trainer
  BY <1>6
     DEF Trainer, GetSample, Train, SyncStart, SyncPaused, SyncTransfer,
         LogValidation, Final, CloseWait, trnFrame
<1>7. CASE UNCHANGED vars
  BY <1>7 DEF vars
<1> QED
  BY <1>1, <1>2, <1>3, <1>4, <1>5, <1>6, <1>7 DEF Next

\* staleness_samples changes in two places, and updBase in one.
LEMMA StalenessFrame ==
  ASSUME [Next]_vars
  PROVE  /\ \/ UNCHANGED staleness
            \/ UpdCount
            \/ (ProcTake \/ ProcGet) /\ TakePending
         /\ UpdEnter \/ UNCHANGED updBase
<1> USE DEF countVars, rpcVars
<1>1. ASSUME NEW c \in Coroutines, AwaitLock(c)
      PROVE  UNCHANGED <<staleness, updBase>>
  BY <1>1 DEF AwaitLock
<1>2. CASE FeedPut \/ MainStop
  BY <1>2 DEF FeedPut, MainStop
<1>3. CASE Processor
  BY <1>3
     DEF Processor, ProcPause, ProcPauseSet, ProcTake, ProcStarve, ProcGet,
         ProcDrained, ProcDrainLock, ProcDrainEmpty, ProcDrainWake, ProcIdle,
         ProcSubmit, TakeCancelled, procFrame
<1>4. ASSUME NEW s \in Samples, Task(s) \/ Server(s) \/ MQPut(s)
      PROVE  UNCHANGED <<staleness, updBase>>
  BY <1>4
     DEF Task, TaskStored, TaskAcked, TaskCancelled, TaskFailed, Server,
         ServerAccept, ServerFinish, ServerRefuse, ServerFail, serverFrame,
         taskFrame, MQPut, mqFrame
<1>5. CASE MQPutEnd
  BY <1>5 DEF MQPutEnd, mqFrame
<1>6. CASE Rpc \/ Monitor
  <2>1. CASE PauseEnter \/ PauseCancel \/ PauseGather \/ PauseExit
    BY <2>1 DEF PauseEnter, PauseCancel, PauseGather, PauseExit
  <2>2. CASE UpdEnter
    BY <2>2 DEF UpdEnter
  <2>3. CASE UpdCount
    BY <2>3 DEF UpdCount
  <2>4. CASE UpdExit \/ ResEnter \/ ResServers \/ ResExit
    BY <2>4 DEF UpdExit, ResEnter, ResServers, ResExit, resFrame
  <2>5. CASE Monitor
    BY <2>5 DEF Monitor, MonCheck, MonWake, MonResume, monFrame
  <2> QED
    BY <1>6, <2>1, <2>2, <2>3, <2>4, <2>5 DEF Rpc
<1>7. CASE Trainer
  BY <1>7
     DEF Trainer, GetSample, Train, SyncStart, SyncPaused, SyncTransfer,
         LogValidation, Final, CloseWait, trnFrame
<1>8. CASE UNCHANGED vars
  BY <1>8 DEF vars
<1> QED
  BY <1>1, <1>2, <1>3, <1>4, <1>5, <1>6, <1>7, <1>8 DEF Next

LEMMA SamplesFinite == IsFiniteSet(Samples)
BY ConstantsAssumption, FS_Interval DEF Samples

\* What a put does to the elements of the queue.
LEMMA PutElements ==
  ASSUME TypeOK, NEW x \in Samples \cup {DONE}, PutSample(x)
  PROVE  /\ Elements(mq') \subseteq Elements(mq) \cup {x}
         /\ Len(mq') = IF Len(mq) >= MaxRequired THEN Len(mq) ELSE Len(mq) + 1
         /\ ~(Len(mq) >= MaxRequired) => Elements(mq') = Elements(mq) \cup {x}
<1> DEFINE S == Samples \cup {DONE}
<1>1. mq \in Seq(S) /\ Len(mq) \in Nat /\ MaxRequired \in Nat \ {0}
  BY LenProperties, ConstantsAssumption DEF TypeOK
<1>2. CASE Len(mq) >= MaxRequired
  <2>1. mq # <<>> /\ mq' = Append(Tail(mq), x)
    BY <1>1, <1>2 DEF PutSample
  <2>2. Tail(mq) \in Seq(S) /\ Len(Tail(mq)) = Len(mq) - 1
    BY <1>1, <2>1, HeadTailProperties
  <2>3. Elements(mq) = Elements(Tail(mq)) \cup {Head(mq)}
    BY <1>1, <2>1, ElementsTypes
  <2>4. Elements(mq') = Elements(Tail(mq)) \cup {x}
    <3>1. x \in S
      OBVIOUS
    <3> HIDE DEF S
    <3>2. \A q \in Seq(S) : \A y \in S :
            Elements(Append(q, y)) = Elements(q) \cup {y}
      BY ElementsTypes
    <3> QED
      BY <2>1, <2>2, <3>1, <3>2
  <2>5. Len(mq') = Len(mq)
    BY <1>1, <2>1, <2>2, AppendProperties
  <2> QED
    BY <1>2, <2>3, <2>4, <2>5
<1>3. CASE ~(Len(mq) >= MaxRequired)
  <2>1. mq' = Append(mq, x)
    BY <1>3 DEF PutSample
  <2>2. Elements(mq') = Elements(mq) \cup {x} /\ Len(mq') = Len(mq) + 1
    BY <1>1, <2>1, ElementsTypes, AppendProperties
  <2> QED
    BY <1>3, <2>2
<1> QED
  BY <1>2, <1>3

OutSet == {s \in Samples : \/ s \in Live \/ s = hand
                           \/ s \in Elements(cancelQ)
                           \/ s \in Elements(mq)}

\* Only a sample taken from pending_queue adds to what is outstanding, and
\* only a task that is created to what update_param_version counts first.
LEMMA OutShrinks ==
  ASSUME TypeOK, [Next]_vars
  PROVE  /\ IF (ProcTake \/ ProcGet) /\ TakePending
            THEN OutSet' \subseteq OutSet \cup {Head(pending)}
            ELSE OutSet' \subseteq OutSet
         /\ ~ProcSubmit =>
              Live' \cup Elements(cancelQ') \subseteq Live \cup Elements(cancelQ)
<1> USE DEF OutSet, Live
<1>1. CASE ~SampleStep
  BY <1>1, SampleFrame DEF sampleVars
<1>2. CASE FeedPut \/ Train
  BY <1>2
     DEF FeedPut, Train, trnFrame, procVars, taskVars, mqVars, trnVars
<1>3. CASE (ProcTake \/ ProcGet) /\ TakePending
  <2>1. UNCHANGED <<task, cancelQ, mq>> /\ hand' = Head(pending)
    BY <1>3 DEF ProcTake, ProcGet, TakePending, procFrame, taskVars, mqVars
  <2> QED
    BY <1>3, <2>1
<1>4. CASE ProcTake /\ cancelQ # <<>> /\ TakeCancelled
  <2>1. /\ UNCHANGED <<task, mq>>
        /\ hand' = Head(cancelQ) /\ cancelQ' = Tail(cancelQ)
    BY <1>4 DEF ProcTake, TakeCancelled, procFrame, taskVars, mqVars
  <2>2. Elements(cancelQ) = Elements(cancelQ') \cup {hand'}
    BY <1>4, <2>1, ElementsTypes DEF TypeOK
  <2> QED
    BY <2>1, <2>2
<1>5. CASE ProcSubmit
  <2>1. UNCHANGED <<cancelQ, mq>>
    BY <1>5 DEF ProcSubmit, procFrame, mqVars
  <2>2. ASSUME NEW s \in Samples, task'[s] # "none" \/ s = hand'
        PROVE  task[s] # "none" \/ s = hand
    <3>1. CASE paused
      BY <1>5, <2>2, <3>1 DEF ProcSubmit
    <3>2. CASE ~paused
      <4>1. task' = [task EXCEPT ![hand] = "new"] /\ hand' # s
        BY <1>5, <3>2 DEF ProcSubmit, Samples, DONE
      <4> QED
        BY <2>2, <4>1 DEF TypeOK
    <3> QED
      BY <3>1, <3>2
  <2> QED
    BY <1>5, <2>1, <2>2 DEF ProcSubmit, ProcTake, ProcGet
<1>6. ASSUME NEW t \in Samples, Task(t) \/ Server(t)
      PROVE  /\ OutSet' \subseteq OutSet
             /\ Live' \cup Elements(cancelQ') \subseteq Live \cup Elements(cancelQ)
  <2>1. UNCHANGED <<hand, mq>>
    BY <1>6
       DEF Task, TaskStored, TaskAcked, TaskCancelled, TaskFailed, Server,
           ServerAccept, ServerFinish, ServerRefuse, ServerFail, serverFrame,
           taskFrame, procVars, mqVars
  <2>2. task[t] # "none" /\ \A u \in Samples \ {t} : task'[u] = task[u]
    BY <1>6
       DEF Task, TaskStored, TaskAcked, TaskCancelled, TaskFailed, Server,
           ServerAccept, ServerFinish, ServerRefuse, ServerFail, TypeOK
  <2>3. Elements(cancelQ') \subseteq Elements(cancelQ) \cup {t}
    <3>1. CASE TaskCancelled(t)
      BY <3>1, ElementsTypes DEF TaskCancelled, TypeOK
    <3>2. CASE ~TaskCancelled(t)
      BY <1>6, <3>2
         DEF Task, TaskStored, TaskAcked, TaskFailed, Server, ServerAccept,
             ServerFinish, ServerRefuse, ServerFail, serverFrame
    <3> QED
      BY <3>1, <3>2
  <2> QED
    BY <2>1, <2>2, <2>3
<1>7. ASSUME NEW t \in Samples, MQPut(t)
      PROVE  /\ OutSet' \subseteq OutSet
             /\ Live' \cup Elements(cancelQ') \subseteq Live \cup Elements(cancelQ)
  <2>1. Elements(mq') \subseteq Elements(mq) \cup {t}
    BY <1>7, PutElements DEF MQPut
  <2>2. task[t] = "put" /\ \A u \in Samples \ {t} : task'[u] = task[u]
    BY <1>7 DEF MQPut, TypeOK
  <2>3. UNCHANGED <<hand, cancelQ>>
    BY <1>7 DEF MQPut, mqFrame, procVars
  <2> QED
    BY <2>1, <2>2, <2>3
<1>8. CASE MQPutEnd
  <2>1. Elements(mq') \subseteq Elements(mq) \cup {DONE}
    BY <1>8, PutElements DEF MQPutEnd
  <2>2. UNCHANGED <<hand, cancelQ, task>>
    BY <1>8 DEF MQPutEnd, mqFrame, procVars
  <2>3. DONE \notin Samples
    BY DEF Samples, DONE
  <2> QED
    BY <2>1, <2>2, <2>3
<1>9. CASE GetSample
  <2>1. Elements(mq) = Elements(mq') \cup {Head(mq)}
    BY <1>9, ElementsTypes DEF TypeOK, GetSample
  <2>2. UNCHANGED <<hand, cancelQ, task>>
    BY <1>9 DEF GetSample, trnFrame, procVars, taskVars
  <2> QED
    BY <2>1, <2>2
<1>10. ASSUME ProcTake \/ ProcGet
       PROVE  \/ (ProcTake \/ ProcGet) /\ TakePending
              \/ ProcTake /\ cancelQ # <<>> /\ TakeCancelled
  BY <1>10 DEF ProcTake, ProcGet
<1>11. ASSUME (ProcTake \/ ProcGet) /\ TakePending PROVE OutSet' \subseteq OutSet \cup {Head(pending)}
  BY <1>3, <1>11
<1> QED
  BY <1>1, <1>2, <1>3, <1>4, <1>5, <1>6, <1>7, <1>8, <1>9, <1>10, <1>11 DEF SampleStep

-----------------------------------------------------------------------------
(* How much is outstanding.                                                *)

LEMMA UpdFrame ==
  ASSUME [Next]_vars
  PROVE  UNCHANGED updC \/ UpdEnter \/ UpdCount \/ UpdExit \/ SyncTransfer
<1>1. CASE ~Rpc /\ ~Trainer
  BY <1>1, SyncFrame DEF syncVars
<1>2. CASE Rpc
  BY <1>2
     DEF Rpc, PauseEnter, PauseCancel, PauseGather, PauseExit, ResEnter,
         ResServers, ResExit, resFrame
<1>3. CASE Trainer
  BY <1>3
     DEF Trainer, GetSample, Train, SyncStart, SyncPaused, LogValidation, Final,
         CloseWait
<1> QED
  BY <1>1, <1>2, <1>3

LEMMA StarveFrame ==
  ASSUME TypeOK, [Next]_vars, proc' = "get"
  PROVE  proc = "get" \/ ProcStarve
<1>1. CASE ~Processor
  BY <1>1, ProcessorFrame
<1>2. CASE Processor
  BY <1>2
     DEF Processor, ProcPause, ProcPauseSet, ProcTake, ProcGet, ProcDrained,
         ProcDrainLock, ProcDrainEmpty, ProcDrainWake, ProcIdle, ProcSubmit,
         TakePending, TakeCancelled, TypeOK
<1> QED
  BY <1>1, <1>2

\* The two sets that staleness_samples has to cover.
InLoop == Live \cup Elements(cancelQ)

\* Between the two halves of its sum update_param_version holds the lock, so
\* no task is created that its first half has not counted.  The processor may
\* have gone to sleep on pending_queue before the count: what it then takes is
\* taken within the bound.
OutstandingInv ==
  /\ OutstandingBound
  /\ proc = "get" => Outstanding <= MaxRequired
  /\ updC = "size" => Cardinality(InLoop) <= updBase

LEMMA OutTypes ==
  ASSUME TypeOK
  PROVE  /\ Outstanding = Cardinality(OutSet)
         /\ IsFiniteSet(OutSet) /\ Outstanding \in Nat
         /\ IsFiniteSet(InLoop) /\ Cardinality(InLoop) \in Nat
         /\ Cardinality(InLoop) <= Cardinality(Live) + Len(cancelQ)
<1>1. OutSet \subseteq Samples
  BY DEF OutSet
<1>2. IsFiniteSet(OutSet) /\ Cardinality(OutSet) \in Nat
  BY <1>1, SamplesFinite, FS_Subset, FS_CardinalityType
<1>3. Outstanding = Cardinality(OutSet)
  BY DEF Outstanding, OutSet
<1>4. /\ IsFiniteSet(Elements(cancelQ)) /\ Cardinality(Elements(cancelQ)) \in Nat
      /\ Cardinality(Elements(cancelQ)) <= Len(cancelQ)
  BY ElementsTypes, FS_CardinalityType DEF TypeOK
<1>5. IsFiniteSet(Live) /\ Cardinality(Live) \in Nat
  BY ActiveLenType
<1>6. /\ IsFiniteSet(InLoop)
      /\ Cardinality(InLoop) =
           Cardinality(Live) + Cardinality(Elements(cancelQ))
             - Cardinality(Live \cap Elements(cancelQ))
  BY <1>4, <1>5, FS_Union DEF InLoop
<1>7. Cardinality(Live \cap Elements(cancelQ)) \in Nat
  BY <1>5, FS_Intersection, FS_CardinalityType
<1>8. Cardinality(InLoop) \in Nat
  BY <1>6, FS_CardinalityType
<1>9. Len(cancelQ) \in Nat
  BY LenProperties DEF TypeOK
<1> QED
  BY <1>2, <1>3, <1>4, <1>5, <1>6, <1>7, <1>8, <1>9

LEMMA OutTypesNext ==
  TypeOK' => (/\ Outstanding = Cardinality(OutSet) /\ Outstanding \in Nat
              /\ Cardinality(InLoop) \in Nat)'
<1>1. TypeOK => /\ Outstanding = Cardinality(OutSet) /\ Outstanding \in Nat
                /\ Cardinality(InLoop) \in Nat
  BY OutTypes
<1> QED
  BY <1>1, PTL

\* What is outstanding is in the processor's hand, in the loop or queued.
LEMMA OutCover ==
  ASSUME TypeOK
  PROVE  Outstanding <= 1 + Cardinality(InLoop) + Len(mq)
<1>0. IsFiniteSet(InLoop) /\ Cardinality(InLoop) \in Nat /\ Len(mq) \in Nat
  BY OutTypes, LenProperties DEF TypeOK
<1>1. /\ IsFiniteSet(Elements(mq)) /\ Cardinality(Elements(mq)) \in Nat
      /\ Cardinality(Elements(mq)) <= Len(mq)
  BY ElementsTypes, FS_CardinalityType DEF TypeOK
<1>2. IsFiniteSet({hand}) /\ Cardinality({hand}) = 1
  BY FS_Singleton
<1> DEFINE A == InLoop \cup Elements(mq)
           B == A \cup {hand}
<1>3. /\ IsFiniteSet(A)
      /\ Cardinality(A) = Cardinality(InLoop) + Cardinality(Elements(mq))
                            - Cardinality(InLoop \cap Elements(mq))
  BY <1>0, <1>1, FS_Union
<1>4. Cardinality(InLoop \cap Elements(mq)) \in Nat /\ Cardinality(A) \in Nat
  BY <1>0, <1>3, FS_Intersection, FS_CardinalityType
<1>5. IsFiniteSet(B) /\ Cardinality(B) <= Cardinality(A) + 1
  <2>1. IsFiniteSet(A)
    BY <1>3
  <2> HIDE DEF A
  <2>2. IsFiniteSet(B) /\ (Cardinality(B) = Cardinality(A) \/ Cardinality(B) = Cardinality(A) + 1)
    BY <2>1, FS_AddElement
  <2> QED
    BY <1>4, <2>2
<1>6. OutSet \subseteq B
  BY DEF OutSet, InLoop
<1>7. Cardinality(OutSet) <= Cardinality(B) /\ Cardinality(B) \in Nat
  <2> HIDE DEF B
  <2> QED
    BY <1>5, <1>6, FS_Subset, FS_CardinalityType
<1>8. Cardinality(OutSet) = Outstanding /\ Outstanding \in Nat
  BY OutTypes
<1> HIDE DEF A, B
<1> QED
  BY <1>0, <1>1, <1>3, <1>4, <1>5, <1>7, <1>8

LEMMA OutShrinksCard ==
  ASSUME TypeOK, TypeOK', [Next]_vars
  PROVE  /\ Outstanding' <= Outstanding + 1
         /\ ~((ProcTake \/ ProcGet) /\ TakePending) => Outstanding' <= Outstanding
         /\ ~ProcSubmit => Cardinality(InLoop)' <= Cardinality(InLoop)
<1>1. /\ Outstanding = Cardinality(OutSet) /\ IsFiniteSet(OutSet)
      /\ IsFiniteSet(InLoop) /\ Outstanding \in Nat
  BY OutTypes
<1>2. Outstanding' = Cardinality(OutSet') /\ Outstanding' \in Nat
  BY OutTypesNext
<1>3. ASSUME NEW x, OutSet' \subseteq OutSet \cup {x}
      PROVE  Outstanding' <= Outstanding + 1
  <2>1. /\ IsFiniteSet(OutSet \cup {x})
        /\ \/ Cardinality(OutSet \cup {x}) = Cardinality(OutSet)
           \/ Cardinality(OutSet \cup {x}) = Cardinality(OutSet) + 1
    BY <1>1, FS_AddElement
  <2>2. Cardinality(OutSet') <= Cardinality(OutSet \cup {x})
    BY <1>3, <2>1, FS_Subset
  <2> QED
    BY <1>1, <1>2, <2>1, <2>2
<1>4. ASSUME OutSet' \subseteq OutSet PROVE Outstanding' <= Outstanding
  <2>1. Cardinality(OutSet') <= Cardinality(OutSet)
    BY <1>1, <1>4, FS_Subset
  <2> QED
    BY <1>1, <1>2, <2>1
<1>5. ~ProcSubmit => Cardinality(InLoop)' <= Cardinality(InLoop)
  <2> SUFFICES ASSUME ~ProcSubmit
               PROVE  Cardinality(InLoop') <= Cardinality(InLoop)
    OBVIOUS
  <2>1. InLoop' \subseteq InLoop
    BY OutShrinks DEF InLoop
  <2> QED
    BY <1>1, <2>1, FS_Subset
<1>6. CASE (ProcTake \/ ProcGet) /\ TakePending
  <2>1. OutSet' \subseteq OutSet \cup {Head(pending)}
    BY <1>6, OutShrinks
  <2> QED
    BY <1>3, <1>5, <1>6, <2>1
<1>7. CASE ~((ProcTake \/ ProcGet) /\ TakePending)
  <2>1. OutSet' \subseteq OutSet
    BY <1>7, OutShrinks
  <2> QED
    BY <1>1, <1>2, <1>4, <1>5, <1>7, <2>1
<1> QED
  BY <1>6, <1>7

LEMMA OutstandingStep ==
  ASSUME TypeOK, TypeOK', LockExclusion, OutstandingInv, [Next]_vars
  PROVE  OutstandingInv'
<1>0. /\ Outstanding \in Nat /\ Outstanding' \in Nat
      /\ staleness \in Nat /\ staleness' \in Nat /\ MaxRequired \in Nat
      /\ updBase \in Nat /\ Len(mq) \in Nat
      /\ Cardinality(InLoop) \in Nat /\ Cardinality(InLoop)' \in Nat
  <2>1. Outstanding' \in Nat /\ Cardinality(InLoop)' \in Nat
    BY OutTypesNext
  <2> QED
    BY <2>1, OutTypes, ConstantsAssumption, LenProperties DEF TypeOK
<1>1. /\ Outstanding <= staleness + 1 /\ Outstanding <= MaxRequired + 1
      /\ proc = "get" => Outstanding <= MaxRequired
      /\ updC = "size" => Cardinality(InLoop) <= updBase
  BY DEF OutstandingInv, OutstandingBound
<1>2. updC = "size" => ~ProcSubmit
  BY DEF LockExclusion, Holders, Coroutines, Granted, ProcSubmit, Enter
<1>3. ASSUME updC' = "size" PROVE Cardinality(InLoop)' <= updBase'
  <2>1. CASE UpdEnter
    <3>1. updBase' = ActiveLen + Len(cancelQ) /\ UNCHANGED <<task, cancelQ>>
      BY <2>1 DEF UpdEnter, rpcFrame
    <3>2. InLoop' = InLoop
      BY <3>1 DEF InLoop, Live, Elements
    <3>3. /\ Cardinality(InLoop) <= Cardinality(Live) + Len(cancelQ)
          /\ Cardinality(Live) \in Nat /\ Len(cancelQ) \in Nat
          /\ finished \in Nat /\ failed \in Nat
      BY OutTypes, ActiveLenType, LenProperties DEF TypeOK
    <3> QED
      BY <1>0, <3>1, <3>2, <3>3 DEF ActiveLen
  <2>2. CASE ~UpdEnter
    <3>1. updC = "size" /\ updBase' = updBase
      BY <1>3, <2>2, UpdFrame, StalenessFrame
         DEF UpdCount, UpdExit, SyncTransfer
    <3> QED
      BY <1>0, <1>1, <1>2, <3>1, OutShrinksCard
  <2> QED
    BY <2>1, <2>2
<1>4. ASSUME proc' = "get"
      PROVE  Outstanding' <= MaxRequired /\ ~((ProcTake \/ ProcGet) /\ TakePending)
  <2>1. ~((ProcTake \/ ProcGet) /\ TakePending)
    BY <1>4 DEF TakePending
  <2>2. ProcStarve => staleness < MaxRequired
    BY <1>0 DEF ProcStarve, ShouldPause
  <2> QED
    BY <1>0, <1>1, <1>4, <2>1, <2>2, StarveFrame, OutShrinksCard
<1>5. CASE (ProcTake \/ ProcGet) /\ TakePending
  <2>1. staleness' = staleness + 1
    BY <1>5 DEF TakePending
  <2>2. Outstanding <= MaxRequired
    BY <1>0, <1>1, <1>5 DEF ProcTake, ProcGet, ShouldPause
  <2> QED
    BY <1>0, <1>1, <1>3, <1>4, <2>1, <2>2, OutShrinksCard
       DEF OutstandingInv, OutstandingBound
<1>6. CASE UpdCount
  <2>1. staleness' = updBase + Len(mq) /\ Cardinality(InLoop) <= updBase
    BY <1>1, <1>6 DEF UpdCount
  <2>2. Outstanding' <= Outstanding
    BY <1>5, <1>6, OutShrinksCard DEF UpdCount, rpcFrame, procVars, ProcTake, ProcGet, TakePending
  <2> QED
    BY <1>0, <1>1, <1>3, <1>4, <2>1, <2>2, OutCover
       DEF OutstandingInv, OutstandingBound
<1>7. CASE ~((ProcTake \/ ProcGet) /\ TakePending) /\ ~UpdCount
  <2>1. staleness' = staleness
    BY <1>7, StalenessFrame
  <2> QED
    BY <1>0, <1>1, <1>3, <1>4, <1>7, <2>1, OutShrinksCard
       DEF OutstandingInv, OutstandingBound
<1> QED
  BY <1>5, <1>6, <1>7

\* staleness_samples undercounts by one sample at most, and no more than one
\* sample over max_required_samples is outstanding, whatever the races between
\* the count of update_param_version and the processor (OutstandingBound).
THEOREM OutstandingBounded == Spec => []OutstandingBound
<1>1. ASSUME Init, TypeOK PROVE OutstandingInv
  <2>1. OutSet = {}
    <3>1. /\ \A s \in Samples : task[s] = "none" /\ s # hand
          /\ cancelQ = <<>> /\ mq = <<>>
      BY <1>1 DEF Init, Samples, DONE
    <3>2. Elements(cancelQ) = {} /\ Elements(mq) = {}
      BY <3>1 DEF Elements
    <3> QED
      BY <3>1, <3>2 DEF OutSet, Live
  <2>2. Outstanding = 0
    BY <1>1, <2>1, OutTypes, FS_EmptySet
  <2> QED
    BY <1>1, <2>2, ConstantsAssumption
       DEF Init, OutstandingInv, OutstandingBound
<1>2. TypeOK /\ TypeOK' /\ LockExclusion /\ OutstandingInv /\ [Next]_vars
        => OutstandingInv'
  BY OutstandingStep
<1>3. OutstandingInv => OutstandingBound
  BY DEF OutstandingInv
<1> QED
  BY <1>1, <1>2, <1>3, TypeCorrectness, LockExcludes, PTL DEF Spec

-----------------------------------------------------------------------------
(* The end of the run.                                                     *)

LEMMA ValFrame ==
  ASSUME [Next]_vars
  PROVE  UNCHANGED valQ \/ UpdExit \/ LogValidation \/ Final \/ CloseWait
<1> USE DEF mqVars
<1>1. ASSUME NEW c \in Coroutines, AwaitLock(c) PROVE UNCHANGED valQ
  BY <1>1 DEF AwaitLock
<1>2. CASE FeedPut \/ MainStop \/ Processor
  BY <1>2
     DEF FeedPut, MainStop, Processor, ProcPause, ProcPauseSet, ProcTake,
         ProcStarve, ProcGet, ProcDrained, ProcDrainLock, ProcDrainEmpty,
         ProcDrainWake, ProcIdle, ProcSubmit, procFrame
<1>3. ASSUME NEW s \in Samples, Task(s) \/ Server(s) PROVE UNCHANGED valQ
  BY <1>3
     DEF Task, TaskStored, TaskAcked, TaskCancelled, TaskFailed, Server,
         ServerAccept, ServerFinish, ServerRefuse, ServerFail, serverFrame
<1>4. CASE MQPutEnd \/ \E s \in Samples : MQPut(s)
  BY <1>4 DEF MQPutEnd, MQPut, mqFrame
<1>5. CASE Rpc
  BY <1>5
     DEF Rpc, PauseEnter, PauseCancel, PauseGather, PauseExit, UpdEnter,
         UpdCount, ResEnter, ResServers, ResExit, resFrame
<1>6. CASE Monitor
  BY <1>6 DEF Monitor, MonCheck, MonWake, MonResume, monFrame
<1>7. CASE Trainer
  BY <1>7
     DEF Trainer, GetSample, Train, SyncStart, SyncPaused, SyncTransfer
<1>8. CASE UNCHANGED vars
  BY <1>8 DEF vars
<1> QED
  BY <1>1, <1>2, <1>3, <1>4, <1>5, <1>6, <1>7, <1>8 DEF Next

LEMMA MainFrame ==
  ASSUME [Next]_vars
  PROVE  UNCHANGED main \/ MQPutEnd \/ (main = "stop" /\ main' = "done")
<1>1. ASSUME NEW c \in Coroutines, AwaitLock(c) PROVE UNCHANGED main
  BY <1>1 DEF AwaitLock
<1>2. CASE FeedPut \/ Processor
  BY <1>2
     DEF FeedPut, Processor, ProcPause, ProcPauseSet, ProcTake, ProcStarve,
         ProcGet, ProcDrained, ProcDrainLock, ProcDrainEmpty, ProcDrainWake,
         ProcIdle, ProcSubmit, procFrame
<1>3. ASSUME NEW s \in Samples, Task(s) \/ Server(s) \/ MQPut(s)
      PROVE  UNCHANGED main
  BY <1>3
     DEF Task, TaskStored, TaskAcked, TaskCancelled, TaskFailed, Server,
         ServerAccept, ServerFinish, ServerRefuse, ServerFail, serverFrame,
         taskFrame, MQPut
<1>4. CASE MainStop
  BY <1>4 DEF MainStop
<1>5. CASE Rpc \/ Monitor
  BY <1>5
     DEF Rpc, PauseEnter, PauseCancel, PauseGather, PauseExit, UpdEnter,
         UpdCount, UpdExit, ResEnter, ResServers, ResExit, rpcFrame, resFrame,
         Monitor, MonCheck, MonWake, MonResume, monFrame
<1>6. CASE Trainer
  BY <1>6
     DEF Trainer, GetSample, Train, SyncStart, SyncPaused, SyncTransfer,
         LogValidation, Final, CloseWait, trnFrame
<1>7. CASE UNCHANGED vars
  BY <1>7 DEF vars
<1> QED
  BY <1>1, <1>2, <1>3, <1>4, <1>5, <1>6, <1>7 DEF Next

\* The Trainer leaves its loop on the end signal, and for good.
LEMMA EndFrame ==
  ASSUME BatchInv, [Next]_vars
  PROVE  /\ Ended' => Ended \/ (GetSample /\ Head(mq) = DONE)
         /\ Ended => Ended'
<1>1. CASE ~Trainer
  BY <1>1, TrainerFrame DEF Ended
<1>2. CASE GetSample
  BY <1>2 DEF GetSample, Ended
<1>3. CASE Trainer /\ ~GetSample
  BY <1>3
     DEF Trainer, Train, SyncStart, SyncPaused, SyncTransfer, LogValidation,
         Final, CloseWait, NextVersion, Ended, BatchInv
<1> QED
  BY <1>1, <1>2, <1>3

\* At most one validation result is under way or waiting, and one more before
\* the Trainer has fetched the last; none is left when it starts to close.
ValidInv ==
  /\ Len(valQ) + One(updC # "none") <= 1 + One(trn = "log")
  /\ (closing /\ trn # "closeWait") \/ trn = "done" =>
       valQ = <<>> /\ updC = "none"

LEMMA ValidStep ==
  ASSUME TypeOK, SyncInv, BatchInv, ValidInv, [Next]_vars
  PROVE  ValidInv'
<1>0. valQ \in Seq(Nat) /\ Len(valQ) \in Nat /\ (Len(valQ) = 0 <=> valQ = <<>>)
  BY LenProperties, EmptySeq DEF TypeOK
<1>1. ASSUME PopValidation
      PROVE  Len(valQ') = IF Len(valQ) = 0 THEN 0 ELSE Len(valQ) - 1
  BY <1>0, <1>1, HeadTailProperties DEF PopValidation
<1>2. ASSUME PopValidation, Len(valQ) <= 1 PROVE valQ' = <<>>
  BY <1>0, <1>2, HeadTailProperties, EmptySeq DEF PopValidation
<1>3. CASE UNCHANGED <<trn, closing>> /\ ~LogValidation /\ ~Final /\ ~CloseWait
  <2>1. CASE UpdExit
    <3>1. valQ' = Append(valQ, version) /\ updC = "putVal" /\ updC' = "none"
      BY <2>1 DEF UpdExit
    <3>2. Len(valQ') = Len(valQ) + 1
      BY <1>0, <3>1, AppendProperties DEF TypeOK
    <3> QED
      BY <1>0, <1>3, <3>1, <3>2 DEF ValidInv, One
  <2>2. CASE ~UpdExit /\ ~SyncTransfer
    <3>1. valQ' = valQ
      BY <1>3, <2>2, ValFrame
    <3>2. updC' # "none" <=> updC # "none"
      BY <2>2, UpdFrame DEF UpdEnter, UpdCount
    <3> QED
      BY <1>3, <3>1, <3>2 DEF ValidInv, One
  <2>3. CASE SyncTransfer
    BY <1>3, <2>3 DEF SyncTransfer
  <2> QED
    BY <2>1, <2>2, <2>3
<1>4. CASE ~Trainer
  BY <1>3, <1>4, TrainerFrame DEF Trainer
<1>5. CASE GetSample \/ Train
  <2>1. UNCHANGED <<valQ, updC, closing>> /\ ~closing /\ trn # "log" /\ trn' # "done"
    BY <1>5 DEF GetSample, Train, NextVersion, BatchInv
  <2> QED
    BY <1>0, <2>1 DEF ValidInv, One
<1>6. CASE SyncStart \/ SyncPaused
  BY <1>6 DEF SyncStart, SyncPaused, ValidInv, One
<1>7. CASE SyncTransfer
  <2>1. updC = "none" /\ updC' = "start" /\ valQ' = valQ /\ closing' = closing
    BY <1>7 DEF SyncTransfer, SyncInv
  <2>2. Len(valQ) <= 1 /\ (closing => Len(valQ) = 0)
    BY <1>0, <1>7, <2>1 DEF SyncTransfer, ValidInv, One
  <2>3. trn' = IF closing THEN "closeWait" ELSE "log"
    BY <1>7 DEF SyncTransfer
  <2>4. CASE closing
    BY <1>0, <2>1, <2>2, <2>3, <2>4 DEF ValidInv, One
  <2>5. CASE ~closing
    BY <1>0, <2>1, <2>2, <2>3, <2>5 DEF ValidInv, One
  <2> QED
    BY <2>4, <2>5
<1>8. CASE LogValidation
  <2>1. /\ PopValidation /\ UNCHANGED <<updC, closing>> /\ trn = "log"
        /\ trn' = "collect" /\ ~closing
    BY <1>8 DEF LogValidation, BatchInv
  <2>2. Len(valQ) + One(updC # "none") <= 2
    BY <1>0, <2>1 DEF ValidInv, One
  <2> QED
    BY <1>0, <1>1, <2>1, <2>2 DEF ValidInv, One
<1>9. CASE Final \/ CloseWait
  <2>1. PopValidation /\ updC = "none" /\ UNCHANGED updC /\ trn # "log" /\ trn' # "log"
    BY <1>9 DEF Final, CloseWait, LastSyncOver, NextVersion
  <2>2. valQ' = <<>> /\ Len(valQ') = 0
    BY <1>0, <1>2, <2>1, EmptySeq DEF ValidInv, One
  <2> QED
    BY <2>1, <2>2 DEF ValidInv, One
<1> QED
  BY <1>4, <1>5, <1>6, <1>7, <1>8, <1>9 DEF Trainer

\* The processor has returned or raised.
Over == proc \in {"exit", "crashed"}

\* The end signal is put when the processor is over and its tasks are done,
\* so nothing is behind it in the queue.
EndInv ==
  /\ main # "wait" => Over
  /\ Ended \/ DONE \in Elements(mq) => main # "wait"
  /\ proc = "exit" =>
       /\ Live = {}
       /\ \A i \in 1..Len(mq) : mq[i] = DONE => i = Len(mq)
       /\ Ended => mq = <<>>

LEMMA OverFrame ==
  ASSUME TypeOK, [Next]_vars
  PROVE  /\ Over => UNCHANGED proc
         /\ proc' = "exit" =>
              \/ proc = "exit"
              \/ Live = {} /\ ~Over /\ UNCHANGED <<task, mq, main, trn, closing>>
<1>1. CASE ~Processor
  BY <1>1, ProcessorFrame DEF Over
<1>2. CASE Processor /\ ~ProcDrained
  BY <1>2
     DEF Over, Processor, ProcPause, ProcPauseSet, ProcTake, ProcStarve,
         ProcGet, ProcDrainLock, ProcDrainEmpty, ProcDrainWake, ProcIdle,
         ProcSubmit, TakePending, TakeCancelled
<1>3. CASE ProcDrained
  <2>1. ~Over /\ UNCHANGED <<task, mq, main, trn, closing>>
    BY <1>3 DEF Over, ProcDrained, procFrame, taskVars, mqVars, trnVars
  <2>2. proc' = "exit" => ~(ActiveLen > 0)
    BY <1>3 DEF ProcDrained, DrainTest, TypeOK
  <2>3. ~(ActiveLen > 0) => Cardinality(Live) = 0
    BY ActiveLenType DEF ActiveLen, TypeOK
  <2>4. ~(ActiveLen > 0) => Live = {}
    BY <2>3, ActiveLenType, FS_EmptySet
  <2> QED
    BY <2>1, <2>2, <2>4
<1> QED
  BY <1>1, <1>2, <1>3

\* Whose queue changes, and how.
LEMMA QueueFrame ==
  ASSUME [Next]_vars
  PROVE  UNCHANGED mq \/ MQPutEnd \/ GetSample \/ \E s \in Samples : MQPut(s)
<1>1. CASE ~Trainer
  BY <1>1, TrainerFrame
<1>2. CASE Trainer
  BY <1>2
     DEF Trainer, Train, SyncStart, SyncPaused, SyncTransfer, LogValidation,
         Final, CloseWait
<1> QED
  BY <1>1, <1>2

LEMMA EndStep ==
  ASSUME TypeOK, BatchInv, EndInv, [Next]_vars
  PROVE  EndInv'
<1>0. mq \in Seq(Samples \cup {DONE}) /\ Len(mq) \in Nat /\ DONE \notin Samples
  BY LenProperties DEF TypeOK, Samples, DONE
<1>1. main' # "wait" => Over'
  <2>1. CASE UNCHANGED main \/ main = "stop"
    BY <2>1, OverFrame DEF EndInv, Over
  <2>2. CASE MQPutEnd
    BY <2>2 DEF MQPutEnd, Over, mqFrame, procVars
  <2> QED
    BY <2>1, <2>2, MainFrame
<1>2. DONE \in Elements(mq') => DONE \in Elements(mq) \/ MQPutEnd
  <2>1. CASE UNCHANGED mq
    BY <2>1
  <2>2. ASSUME NEW s \in Samples, MQPut(s)
        PROVE  Elements(mq') \subseteq Elements(mq) \cup {s}
    BY <2>2, PutElements DEF MQPut
  <2>3. CASE GetSample
    BY <1>0, <2>3, ElementsTypes DEF GetSample
  <2> QED
    BY <1>0, <2>1, <2>2, <2>3, QueueFrame
<1>3. Ended' => Ended \/ DONE \in Elements(mq)
  <2>1. GetSample /\ Head(mq) = DONE => DONE \in Elements(mq)
    BY <1>0, ElementsTypes DEF GetSample
  <2> QED
    BY <2>1, EndFrame
<1>4. Ended' \/ DONE \in Elements(mq') => main' # "wait"
  BY <1>2, <1>3, MainFrame DEF EndInv, MQPutEnd
<1>5. ASSUME proc' = "exit" PROVE Live' = {}
  <2>1. CASE UNCHANGED task
    BY <1>5, <2>1, OverFrame DEF EndInv, Live
  <2>2. CASE proc = "exit"
    <3>1. Live' \cup Elements(cancelQ') \subseteq Live \cup Elements(cancelQ)
      BY <2>2, OutShrinks DEF ProcSubmit
    <3>2. \A s \in Samples : task[s] = "none"
      BY <2>2 DEF EndInv, Live
    <3>3. ~SampleStep \/ FeedPut \/ MQPutEnd \/ GetSample \/ Train
      BY <2>2, <3>2
         DEF SampleStep, ProcTake, ProcGet, ProcSubmit, MQPut, Task, TaskStored,
             TaskAcked, TaskCancelled, TaskFailed, Server, ServerAccept,
             ServerFinish, ServerRefuse, ServerFail
    <3>4. UNCHANGED task
      BY <3>3, SampleFrame
         DEF sampleVars, FeedPut, MQPutEnd, GetSample, Train, trnFrame, taskVars
    <3> QED
      BY <2>1, <3>4
  <2> QED
    BY <1>5, <2>1, <2>2, OverFrame
<1>6. ASSUME proc' = "exit"
      PROVE  \A i \in 1..Len(mq') : mq'[i] = DONE => i = Len(mq')
  <2>1. CASE proc # "exit"
    <3>1. mq' = mq /\ ~Over
      BY <1>6, <2>1, OverFrame
    <3>2. DONE \notin Elements(mq)
      BY <3>1 DEF EndInv
    <3> QED
      BY <3>1, <3>2 DEF Elements
  <2>2. CASE proc = "exit" /\ UNCHANGED mq
    BY <2>2 DEF EndInv
  <2>3. CASE proc = "exit" /\ MQPutEnd
    <3>1. DONE \notin Elements(mq)
      BY <2>3 DEF EndInv, MQPutEnd
    <3>2. PICK q \in Seq(Samples \cup {DONE}) :
            mq' = Append(q, DONE) /\ DONE \notin Elements(q)
      <4>1. CASE Len(mq) >= MaxRequired
        <5>1. mq # <<>> /\ mq' = Append(Tail(mq), DONE)
          BY <1>0, <2>3, <4>1, ConstantsAssumption, EmptySeq
             DEF MQPutEnd, PutSample
        <5>2. /\ Tail(mq) \in Seq(Samples \cup {DONE})
              /\ Elements(mq) = Elements(Tail(mq)) \cup {Head(mq)}
          BY <1>0, <5>1, ElementsTypes, QueueTypes
        <5> QED
          BY <3>1, <5>1, <5>2
      <4>2. CASE ~(Len(mq) >= MaxRequired)
        BY <1>0, <2>3, <3>1, <4>2 DEF MQPutEnd, PutSample
      <4> QED
        BY <4>1, <4>2
    <3>3. /\ Len(q) \in Nat /\ Len(Append(q, DONE)) = Len(q) + 1
          /\ \A i \in 1..Len(q) : Append(q, DONE)[i] = q[i]
      BY AppendProperties, LenProperties
    <3>4. \A i \in 1..Len(q) : q[i] # DONE
      BY <3>2 DEF Elements
    <3> QED
      BY <3>2, <3>3, <3>4
  <2>4. CASE proc = "exit" /\ GetSample
    <3>1. mq # <<>> /\ mq' = Tail(mq)
      BY <2>4 DEF GetSample
    <3>2. /\ Len(mq') = Len(mq) - 1
          /\ \A i \in 1..Len(mq') : mq'[i] = mq[i + 1]
      BY <1>0, <3>1, HeadTailProperties
    <3>3. \A i \in 1..Len(mq) : mq[i] = DONE => i = Len(mq)
      BY <2>4 DEF EndInv
    <3> QED
      BY <1>0, <3>2, <3>3
  <2>5. proc = "exit" => \A s \in Samples : ~MQPut(s)
    BY DEF EndInv, Live, MQPut
  <2> QED
    BY <2>1, <2>2, <2>3, <2>4, <2>5, QueueFrame
<1>7. ASSUME proc' = "exit", Ended' PROVE mq' = <<>>
  <2>1. CASE proc # "exit"
    <3>1. UNCHANGED <<trn, closing>> /\ ~Over
      BY <1>7, <2>1, OverFrame
    <3> QED
      BY <1>7, <3>1 DEF EndInv, Ended
  <2>2. CASE proc = "exit" /\ Ended
    <3>1. mq = <<>> /\ main # "wait" /\ ~GetSample
      BY <2>2 DEF EndInv, GetSample
    <3>2. ~MQPutEnd /\ \A s \in Samples : ~MQPut(s)
      BY <2>2, <3>1 DEF MQPutEnd, EndInv, Live, MQPut
    <3> QED
      BY <3>1, <3>2, QueueFrame
  <2>3. CASE proc = "exit" /\ GetSample /\ Head(mq) = DONE
    <3>1. mq # <<>> /\ mq' = Tail(mq) /\ mq[1] = DONE
      BY <1>0, <2>3, HeadTailProperties DEF GetSample
    <3>2. Len(mq) = 1
      <4>1. Len(mq) # 0
        BY <1>0, <3>1, EmptySeq
      <4>2. 1 \in 1..Len(mq)
        BY <1>0, <4>1
      <4> QED
        BY <2>3, <3>1, <4>2 DEF EndInv
    <3> QED
      BY <1>0, <3>1, <3>2, HeadTailProperties, EmptySeq
  <2> QED
    BY <1>7, <2>1, <2>2, <2>3, EndFrame
<1> QED
  BY <1>1, <1>4, <1>5, <1>6, <1>7 DEF EndInv

\* The end signal follows the processor's end, which follows its last task; and
\* update_param_version and the Trainer pass the validation results one for one.
THEOREM EndInvariance == Spec => [](ValidInv /\ EndInv)
<1>1. Init => ValidInv /\ EndInv
  <2>1. Len(<<0>>) = 1 /\ Elements(<<>>) = {}
    BY DEF Elements
  <2> QED
    BY <2>1 DEF Init, ValidInv, EndInv, One, Ended, Over
<1>2. /\ TypeOK /\ SyncInv /\ PlaceInv /\ (ValidInv /\ EndInv) /\ [Next]_vars
      => (ValidInv /\ EndInv)'
  BY ValidStep, EndStep DEF PlaceInv
<1> QED
  BY <1>1, <1>2, TypeCorrectness, SyncInvariance, Placed, PTL DEF Spec

\* When the Trainer has seen the end signal of a processor that did not raise,
\* no sample is on its way; and when it returns, it has logged every
\* validation result (CleanEnd).
THEOREM EndsClean == Spec => []CleanEnd
<1>1. ValidInv /\ EndInv => CleanEnd
  BY DEF ValidInv, EndInv, CleanEnd, Ended
<1> QED
  BY <1>1, EndInvariance, PTL

-----------------------------------------------------------------------------
(* How old a sample can be when it is trained on.                          *)

LEMMA DivFacts ==
  ASSUME NEW k \in Nat \ {0}
  PROVE  /\ \A a \in Nat : a \div k \in Nat
         /\ \A a, b \in Nat : a <= b => a \div k <= b \div k
         /\ \A a \in Nat : a < k => a \div k = 0
         /\ \A a \in Nat : (k + a) \div k = 1 + (a \div k)
OBVIOUS

\* The samples a version of the weights takes, those the Trainer has taken
\* for the next one, and the number of versions of Freshness.
PerVersion == RequiredSamples * TriggerSteps
Consumed == (localStep - 1) * RequiredSamples + Len(batch)
MaxAge == ((MaxRequired - 1) \div PerVersion) + 2

\* A sample that is being put is one version behind the Trainer, and two from
\* the step that makes a new version until pause() has gathered the tasks.
Behind ==
  IF trn = "waitValid" \/ (trn = "pausing" /\ pauseC \in {"start", "cancel", "gather"})
  THEN 2 ELSE 1

\* The i-th of the queue is trained on (Consumed + i - 1) \div PerVersion
\* versions from now.
FreshInv ==
  /\ \A s \in Samples : tag[s] <= version
  /\ Len(mq) <= MaxRequired
  /\ ~Ended =>
       /\ \A s \in Samples : task[s] = "put" => tver <= tag[s] + Behind
       /\ \A i \in 1..Len(mq) : mq[i] # DONE =>
            tver + ((Consumed + i - 1) \div PerVersion) <= tag[mq[i]] + MaxAge
       /\ \A i \in 1..Len(batch) : tver <= tag[batch[i]] + MaxAge

LEMMA ConsumedTypes ==
  ASSUME TypeOK, BatchInv
  PROVE  /\ PerVersion \in Nat \ {0} /\ MaxRequired \in Nat \ {0}
         /\ MaxAge \in Nat
         /\ Consumed \in Nat /\ Consumed <= PerVersion
         /\ (MaxRequired - 1) \div PerVersion \in Nat
<1>1. /\ RequiredSamples \in Nat \ {0} /\ TriggerSteps \in Nat \ {0}
      /\ MaxRequired \in Nat \ {0}
      /\ localStep \in 1..TriggerSteps /\ Len(batch) \in Nat
  BY ConstantsAssumption, LenProperties DEF TypeOK
<1>2. PerVersion \in Nat \ {0}
  BY <1>1 DEF PerVersion
<1>3. (MaxRequired - 1) \div PerVersion \in Nat
  BY <1>1, <1>2, DivFacts
<1>4. Len(batch) <= RequiredSamples
  BY <1>1, EmptySeq DEF BatchInv
<1>5. (localStep - 1) * RequiredSamples \in Nat
  BY <1>1
<1>6. (localStep - 1) * RequiredSamples <= (TriggerSteps - 1) * RequiredSamples
  BY <1>1
<1>7. (TriggerSteps - 1) * RequiredSamples + RequiredSamples = PerVersion
  BY <1>1 DEF PerVersion
<1>8. (TriggerSteps - 1) * RequiredSamples \in Nat
  BY <1>1
<1>9. Consumed \in Nat /\ Consumed <= PerVersion
  BY <1>1, <1>4, <1>5, <1>6, <1>7, <1>8 DEF Consumed
<1> QED
  BY <1>1, <1>2, <1>3, <1>9 DEF MaxAge

\* The step that takes the last of a version starts the count again.
LEMMA ConsumedTrain ==
  ASSUME TypeOK, BatchInv, Train
  PROVE  \/ tver' = tver /\ Consumed' = Consumed /\ trn' = "log"
         \/ /\ tver' = tver + 1 /\ Consumed = PerVersion /\ Consumed' = 0
            /\ trn' = "waitValid"
<1>1. /\ RequiredSamples \in Nat \ {0} /\ TriggerSteps \in Nat \ {0}
      /\ localStep \in 1..TriggerSteps
      /\ Len(batch) = RequiredSamples /\ Len(batch') = 0
  BY ConstantsAssumption, EmptySeq DEF TypeOK, BatchInv, Train
<1>2. CASE localStep < TriggerSteps
  <2>1. localStep' = localStep + 1 /\ tver' = tver /\ trn' = "log"
    BY <1>2 DEF Train
  <2>2. (localStep + 1 - 1) * RequiredSamples =
          (localStep - 1) * RequiredSamples + RequiredSamples
    BY <1>1
  <2> QED
    BY <1>1, <2>1, <2>2 DEF Consumed
<1>3. CASE ~(localStep < TriggerSteps)
  <2>1. /\ localStep' = 1 /\ tver' = tver + 1 /\ trn' = "waitValid"
        /\ localStep = TriggerSteps
    BY <1>1, <1>3 DEF Train, NextVersion
  <2>2. (TriggerSteps - 1) * RequiredSamples + RequiredSamples = PerVersion
    BY <1>1 DEF PerVersion
  <2> QED
    BY <1>1, <2>1, <2>2 DEF Consumed
<1> QED
  BY <1>2, <1>3

LEMMA TagFrame ==
  ASSUME TypeOK, [Next]_vars
  PROVE  \A s \in Samples :
           \/ TaskStored(s) /\ tag'[s] = version
           \/ tag'[s] = tag[s] /\ (task'[s] = "put" => task[s] = "put")
<1> DEFINE Same(s) == tag'[s] = tag[s] /\ (task'[s] = "put" => task[s] = "put")
<1>1. ASSUME UNCHANGED <<tag, task>> PROVE \A s \in Samples : Same(s)
  BY <1>1
<1>2. CASE ~SampleStep
  BY <1>1, <1>2, SampleFrame DEF sampleVars
<1>3. CASE FeedPut \/ MQPutEnd \/ GetSample \/ Train \/ ProcTake \/ ProcGet
  BY <1>1, <1>3
     DEF FeedPut, MQPutEnd, mqFrame, GetSample, Train, trnFrame, taskVars,
         ProcTake, ProcGet
<1>4. CASE ProcSubmit
  BY <1>4 DEF ProcSubmit, TypeOK
<1>5. ASSUME NEW t \in Samples, Task(t) \/ Server(t) \/ MQPut(t)
      PROVE  \A s \in Samples :
               (TaskStored(s) /\ tag'[s] = version) \/ Same(s)
  <2>1. CASE TaskStored(t)
    BY <2>1 DEF TaskStored, TypeOK
  <2>2. CASE ~TaskStored(t)
    BY <1>5, <2>2
       DEF Task, TaskAcked, TaskCancelled, TaskFailed, Server, ServerAccept,
           ServerFinish, ServerRefuse, ServerFail, serverFrame, MQPut, mqFrame,
           TypeOK
  <2> QED
    BY <2>1, <2>2
<1> QED
  BY <1>2, <1>3, <1>4, <1>5 DEF SampleStep

\* A sample that a task or a queue works on is nowhere else.
LEMMA OnlyTask ==
  ASSUME TypeOK, SampleAccounting, NEW s \in Samples,
         task[s] \notin {"none", "ack"}
  PROVE  s \notin Elements(mq) /\ s \notin Elements(batch)
<1>1. /\ Count(s, pending) \in Nat /\ Count(s, cancelQ) \in Nat
      /\ Count(s, mq) \in Nat /\ Count(s, batch) \in Nat
  BY CopiesTypes
<1>2. Copies(s) = One(s < feedNext)
  BY DEF SampleAccounting
<1>3. Count(s, mq) = 0 /\ Count(s, batch) = 0
  BY <1>1, <1>2 DEF Copies, One
<1> QED
  BY <1>3, CountElements DEF TypeOK

LEMMA FreshTags ==
  ASSUME TypeOK, SyncInv, [Next]_vars, \A s \in Samples : tag[s] <= version
  PROVE  \A s \in Samples : tag'[s] <= version'
<1>1. version' \in Nat /\ version <= version'
  <2>1. CASE UpdEnter
    BY <2>1 DEF UpdEnter, SyncInv, TypeOK
  <2>2. CASE ~UpdEnter
    <3>1. UNCHANGED version
      BY <2>2, SyncFrame
         DEF syncVars, Rpc, PauseEnter, PauseCancel, PauseGather, PauseExit,
             UpdCount, UpdExit, ResEnter, ResServers, ResExit, resFrame, Trainer,
             GetSample, Train, SyncStart, SyncPaused, SyncTransfer,
             LogValidation, Final, CloseWait, trnFrame, countVars
    <3> QED
      BY <3>1 DEF TypeOK
  <2> QED
    BY <2>1, <2>2
<1>2. \A s \in Samples : tag'[s] = version \/ tag'[s] = tag[s]
  BY TagFrame
<1>3. version \in Nat /\ \A s \in Samples : tag[s] \in Nat
  BY DEF TypeOK
<1> QED
  BY <1>1, <1>2, <1>3

LEMMA QueueBound ==
  ASSUME TypeOK, [Next]_vars, Len(mq) <= MaxRequired
  PROVE  Len(mq') <= MaxRequired
<1>1. Len(mq) \in Nat /\ MaxRequired \in Nat
  BY ConstantsAssumption, LenProperties DEF TypeOK
<1>2. ASSUME NEW x \in Samples \cup {DONE}, PutSample(x)
      PROVE  Len(mq') <= MaxRequired
  BY <1>1, <1>2, PutElements
<1>3. GetSample => Len(mq') <= MaxRequired
  BY <1>1, HeadTailProperties DEF GetSample, TypeOK
<1>4. UNCHANGED mq => Len(mq') <= MaxRequired
  OBVIOUS
<1> QED
  BY <1>2, <1>3, <1>4, QueueFrame DEF MQPutEnd, MQPut

LEMMA FreshPut ==
  ASSUME TypeOK, SyncInv, BatchInv, FreshInv, [Next]_vars, ~Ended',
         NEW s \in Samples, task'[s] = "put"
  PROVE  tver' <= tag'[s] + Behind'
<1>1. ~Ended
  BY EndFrame
<1>2. tver \in Nat /\ version \in Nat /\ tag[s] \in Nat
  BY DEF TypeOK
<1>3. tver <= version + Behind
  BY <1>2 DEF SyncInv, Behind
<1>4. CASE ~Rpc /\ ~Trainer
  <2>1. tver' = tver /\ Behind' = Behind
    BY <1>4, SyncFrame DEF syncVars, Behind
  <2>2. CASE TaskStored(s) /\ tag'[s] = version
    BY <1>3, <2>1, <2>2
  <2>3. CASE tag'[s] = tag[s] /\ task[s] = "put"
    BY <1>1, <2>1, <2>3 DEF FreshInv
  <2> QED
    BY <2>2, <2>3, TagFrame
<1>5. CASE Rpc
  <2>1. UNCHANGED <<tver, trn, task, tag>>
    BY <1>5
       DEF Rpc, PauseEnter, PauseCancel, PauseGather, PauseExit, UpdEnter,
           UpdCount, UpdExit, ResEnter, ResServers, ResExit, rpcFrame, resFrame,
           trnVars, taskVars
  <2>2. tver <= tag[s] + Behind /\ s \in Live
    BY <1>1, <2>1 DEF FreshInv, Live
  <2>3. ~PauseGather
    BY <2>2 DEF PauseGather
  <2>4. pauseC \in {"start", "cancel", "gather"} => pauseC' \in {"start", "cancel", "gather"}
    BY <1>5, <2>3
       DEF Rpc, PauseEnter, PauseCancel, PauseExit, UpdEnter, UpdCount, UpdExit,
           ResEnter, ResServers, ResExit, resFrame
  <2>5. Behind' >= Behind
    BY <2>1, <2>4 DEF Behind
  <2>6. Behind \in Nat /\ Behind' \in Nat
    BY DEF Behind
  <2> QED
    BY <1>2, <2>1, <2>2, <2>5, <2>6
<1>6. CASE Trainer
  <2>1. UNCHANGED <<task, tag>>
    BY <1>6
       DEF Trainer, GetSample, Train, SyncStart, SyncPaused, SyncTransfer,
           LogValidation, Final, CloseWait, trnFrame, taskVars
  <2>2. tver <= tag[s] + Behind /\ s \in Live
    BY <1>1, <2>1 DEF FreshInv, Live
  <2>3. CASE Train
    <3>1. Behind = 1 /\ Behind' = IF trn' = "waitValid" THEN 2 ELSE 1
      BY <2>3, ConsumedTrain DEF Train, Behind
    <3> QED
      BY <1>2, <2>1, <2>2, <2>3, <3>1, ConsumedTrain
  <2>4. CASE SyncStart
    BY <2>1, <2>2, <2>4 DEF SyncStart, Behind
  <2>5. CASE SyncPaused
    BY <2>1, <2>2, <2>5 DEF SyncPaused, Behind
  <2>6. CASE GetSample \/ SyncTransfer \/ LogValidation \/ CloseWait
    BY <2>1, <2>2, <2>6
       DEF GetSample, SyncTransfer, LogValidation, CloseWait, Behind
  <2>7. ~Final
    BY <1>1 DEF Final, Ended
  <2> QED
    BY <1>6, <2>3, <2>4, <2>5, <2>6, <2>7 DEF Trainer
<1> QED
  BY <1>4, <1>5, <1>6

LEMMA FreshQueue ==
  ASSUME TypeOK, TypeOK', BatchInv, BatchInv', SampleAccounting, FreshInv,
         [Next]_vars, ~Ended', NEW j \in 1..Len(mq'), mq'[j] # DONE
  PROVE  tver' + ((Consumed' + j - 1) \div PerVersion) <= tag'[mq'[j]] + MaxAge
<1> DEFINE D(a) == a \div PerVersion
<1> SUFFICES tver' + D(Consumed' + j - 1) <= tag'[mq'[j]] + MaxAge
  OBVIOUS
<1>0. Len(mq') \in Nat /\ j \in Nat /\ 1 <= j /\ j <= Len(mq')
  <2>1. Len(mq') \in Nat
    BY LenProperties DEF TypeOK
  <2> QED
    BY <2>1
<1>1. ~Ended
  BY EndFrame
<1>2. /\ PerVersion \in Nat \ {0} /\ MaxRequired \in Nat \ {0}
      /\ MaxAge = D(MaxRequired - 1) + 2
      /\ Consumed \in Nat /\ Consumed <= PerVersion
  BY ConsumedTypes DEF MaxAge
<1>3. /\ \A a \in Nat : D(a) \in Nat
      /\ \A a, b \in Nat : a <= b => D(a) <= D(b)
      /\ \A a \in Nat : D(PerVersion + a) = 1 + D(a)
  BY <1>2, DivFacts
<1>4. /\ mq \in Seq(Samples \cup {DONE}) /\ Len(mq) \in Nat /\ Len(mq) <= MaxRequired
      /\ tver \in Nat /\ \A s \in Samples : tag[s] \in Nat
  BY LenProperties DEF TypeOK, FreshInv
<1>5. \A i \in 1..Len(mq) : mq[i] # DONE =>
        /\ mq[i] \in Samples /\ tag'[mq[i]] = tag[mq[i]]
        /\ tver + D(Consumed + i - 1) <= tag[mq[i]] + MaxAge
  <2> SUFFICES ASSUME NEW i \in 1..Len(mq), mq[i] # DONE
               PROVE  /\ mq[i] \in Samples /\ tag'[mq[i]] = tag[mq[i]]
                      /\ tver + D(Consumed + i - 1) <= tag[mq[i]] + MaxAge
    OBVIOUS
  <2>1. mq[i] \in Samples
    BY <1>4, ElementOfSeq
  <2>2. mq[i] \in Elements(mq)
    BY DEF Elements
  <2>3. ~TaskStored(mq[i])
    BY <2>1, <2>2, OnlyTask DEF TaskStored
  <2> QED
    BY <1>1, <2>1, <2>3, TagFrame DEF FreshInv
<1> HIDE DEF D
<1>12. /\ Consumed + j - 1 \in Nat /\ MaxRequired - 1 \in Nat
       /\ \A i \in 1..Len(mq) : Consumed + i - 1 \in Nat
  BY <1>0, <1>2
<1>13. /\ D(Consumed + j - 1) \in Nat /\ D(MaxRequired - 1) \in Nat
       /\ \A i \in 1..Len(mq) : D(Consumed + i - 1) \in Nat
       /\ D(PerVersion + (MaxRequired - 1)) = 1 + D(MaxRequired - 1)
  BY <1>3, <1>12
<1>6. ASSUME NEW x \in Samples \cup {DONE}, PutSample(x), UNCHANGED trnVars,
             x # DONE => tag'[x] = tag[x] /\ tver <= tag[x] + Behind
      PROVE  tver' + D(Consumed' + j - 1) <= tag'[mq'[j]] + MaxAge
  <2>1. /\ tver' = tver /\ Consumed' = Consumed
    BY <1>6 DEF trnVars, Consumed
  <2>2. CASE j = Len(mq')
    <3>1. mq'[j] = x
      <4>1. \A q \in Seq(Samples \cup {DONE}) :
              mq' = Append(q, x) => mq'[Len(mq')] = x
        BY AppendProperties
      <4>2. CASE Len(mq) >= MaxRequired
        <5>1. mq # <<>> /\ mq' = Append(Tail(mq), x)
          BY <1>2, <1>4, <1>6, <4>2, EmptySeq DEF PutSample
        <5> QED
          BY <1>4, <2>2, <4>1, <5>1, HeadTailProperties
      <4>3. CASE ~(Len(mq) >= MaxRequired)
        BY <1>4, <1>6, <2>2, <4>1, <4>3 DEF PutSample
      <4> QED
        BY <4>2, <4>3
    <3>2. Len(mq') <= MaxRequired
      BY <1>4, QueueBound
    <3>3. x \in Samples /\ tag'[x] = tag[x] /\ tver <= tag[x] + Behind /\ tag[x] \in Nat
      BY <1>4, <1>6, <3>1
    <3>4. CASE Behind = 2
      <4>1. Consumed = 0
        <5>1. batch = <<>> /\ localStep = 1
          BY <3>4 DEF Behind, BatchInv
        <5> QED
          BY <5>1, EmptySeq, ConstantsAssumption DEF Consumed
      <4>2. D(Consumed + j - 1) <= D(MaxRequired - 1)
        BY <1>0, <1>2, <1>3, <2>2, <3>2, <4>1
      <4>3. D(Consumed + j - 1) \in Nat /\ D(MaxRequired - 1) \in Nat
        BY <1>13
      <4> QED
        BY SMTT(30), <1>0, <1>2, <1>4, <2>1, <3>1, <3>3, <3>4, <4>2, <4>3
    <3>5. CASE Behind # 2
      <4>1. Behind = 1
        BY <3>5 DEF Behind
      <4>2. D(Consumed + j - 1) <= D(PerVersion + (MaxRequired - 1))
        BY <1>0, <1>2, <1>3, <2>2, <3>2
      <4>3. /\ D(Consumed + j - 1) \in Nat /\ D(MaxRequired - 1) \in Nat
            /\ D(PerVersion + (MaxRequired - 1)) = 1 + D(MaxRequired - 1)
        BY <1>13
      <4> QED
        BY SMTT(30), <1>0, <1>2, <1>4, <2>1, <3>1, <3>3, <4>1, <4>2, <4>3
    <3> QED
      BY <3>4, <3>5
  <2>3. CASE j # Len(mq')
    <3>1. PICK i \in 1..Len(mq) : j <= i /\ mq'[j] = mq[i]
      <4>1. \A q \in Seq(Samples \cup {DONE}) :
              mq' = Append(q, x) => j \in 1..Len(q) /\ mq'[j] = q[j]
        BY <2>3, AppendProperties
      <4>2. CASE Len(mq) >= MaxRequired
        <5>1. mq # <<>> /\ mq' = Append(Tail(mq), x)
          BY <1>2, <1>4, <1>6, <4>2, EmptySeq DEF PutSample
        <5>2. /\ Tail(mq) \in Seq(Samples \cup {DONE})
              /\ Len(Tail(mq)) = Len(mq) - 1
              /\ \A i \in 1..Len(Tail(mq)) : Tail(mq)[i] = mq[i + 1]
          BY <1>4, <5>1, HeadTailProperties
        <5>3. j \in 1..Len(Tail(mq)) /\ mq'[j] = Tail(mq)[j]
          BY <4>1, <5>1, <5>2
        <5>4. j + 1 \in 1..Len(mq) /\ mq'[j] = mq[j + 1]
          BY <1>4, <5>2, <5>3
        <5> QED
          BY <5>4
      <4>3. CASE ~(Len(mq) >= MaxRequired)
        BY <1>4, <1>6, <4>1, <4>3 DEF PutSample
      <4> QED
        BY <4>2, <4>3
    <3>2. D(Consumed + j - 1) <= D(Consumed + i - 1)
      <4>1. Consumed + j - 1 <= Consumed + i - 1
        BY <1>0, <1>2, <3>1
      <4> QED
        BY <1>3, <1>12, <4>1
    <3>3. D(Consumed + j - 1) \in Nat /\ D(Consumed + i - 1) \in Nat
      BY <1>13
    <3>4. mq[i] \in Samples /\ tag[mq[i]] \in Nat
      BY <1>0, <1>4, <1>5, <3>1
    <3>5. /\ tag'[mq[i]] = tag[mq[i]]
          /\ tver + D(Consumed + i - 1) <= tag[mq[i]] + MaxAge
      BY <1>5, <3>1
    <3>6. tver + D(Consumed + j - 1) <= tag[mq[i]] + MaxAge
      BY SMTT(30), <1>2, <1>4, <3>2, <3>3, <3>4, <3>5
    <3> QED
      BY <2>1, <3>1, <3>5, <3>6
  <2> QED
    BY <2>2, <2>3
<1>7. CASE MQPutEnd
  BY <1>6, <1>7 DEF MQPutEnd, mqFrame
<1>8. ASSUME NEW s \in Samples, MQPut(s)
      PROVE  tver' + D(Consumed' + j - 1) <= tag'[mq'[j]] + MaxAge
  BY <1>1, <1>6, <1>8 DEF MQPut, mqFrame, FreshInv
<1>9. CASE GetSample
  <2>1. mq # <<>> /\ mq' = Tail(mq) /\ tver' = tver
    BY <1>9 DEF GetSample
  <2>2. j + 1 \in 1..Len(mq) /\ mq'[j] = mq[j + 1]
    BY <1>4, <2>1, HeadTailProperties
  <2>3. Consumed' = Consumed + 1
    <3>1. /\ batch' = Append(batch, Head(mq)) /\ localStep' = localStep
          /\ Head(mq) \in Samples
      BY <1>4, <1>9, QueueTypes DEF GetSample, Ended
    <3>2. Len(batch') = Len(batch) + 1 /\ Len(batch) \in Nat
      BY <3>1, AppendProperties, LenProperties DEF TypeOK
    <3>3. (localStep - 1) * RequiredSamples \in Nat
      BY ConstantsAssumption DEF TypeOK
    <3> QED
      BY <3>1, <3>2, <3>3 DEF Consumed
  <2>4. Consumed' + j - 1 = Consumed + (j + 1) - 1
    BY <1>0, <1>2, <2>3
  <2> QED
    BY <1>0, <1>5, <2>1, <2>2, <2>4
<1>10. CASE Train
  <2>1. mq' = mq
    BY <1>10 DEF Train
  <2>2. CASE tver' = tver /\ Consumed' = Consumed
    BY <1>0, <1>5, <2>1, <2>2
  <2>3. CASE tver' = tver + 1 /\ Consumed = PerVersion /\ Consumed' = 0
    <3>1. D(Consumed + j - 1) = 1 + D(Consumed' + j - 1)
      <4>1. j - 1 \in Nat /\ Consumed + j - 1 = PerVersion + (j - 1)
            /\ Consumed' + j - 1 = j - 1
        BY <1>0, <1>2, <2>3
      <4> QED
        BY <1>0, <1>2, <1>3, <4>1
    <3>2. D(Consumed' + j - 1) \in Nat
      <4>1. Consumed' + j - 1 \in Nat
        BY <1>0, <2>3
      <4> QED
        BY <1>3, <4>1
    <3> QED
      BY <1>0, <1>4, <1>5, <2>1, <2>3, <3>1, <3>2
  <2> QED
    BY <1>10, <2>2, <2>3, ConsumedTrain
<1>11. CASE UNCHANGED mq /\ ~GetSample /\ ~Train
  <2>1. UNCHANGED <<tver, localStep, batch>>
    <3>1. CASE ~Trainer
      BY <3>1, TrainerFrame
    <3>2. CASE Trainer
      BY <1>1, <1>11, <3>2
         DEF Trainer, SyncStart, SyncPaused, SyncTransfer, LogValidation, Final,
             CloseWait, Ended
    <3> QED
      BY <3>1, <3>2
  <2>2. Consumed' = Consumed
    BY <2>1 DEF Consumed
  <2> QED
    BY <1>0, <1>5, <1>11, <2>1, <2>2
<1> QED
  BY <1>7, <1>8, <1>9, <1>10, <1>11, QueueFrame

LEMMA FreshBatch ==
  ASSUME TypeOK, TypeOK', SyncInv, BatchInv, SampleAccounting, FreshInv,
         [Next]_vars, ~Ended', NEW j \in 1..Len(batch')
  PROVE  tver' <= tag'[batch'[j]] + MaxAge
<1>1. ~Ended
  BY EndFrame
<1>2. /\ batch \in Seq(Samples) /\ Len(batch) \in Nat
      /\ mq \in Seq(Samples \cup {DONE}) /\ Len(mq) \in Nat
      /\ tver \in Nat /\ \A s \in Samples : tag[s] \in Nat
      /\ Len(batch') \in Nat
  BY LenProperties DEF TypeOK
<1>3. \A i \in 1..Len(batch) :
        tag'[batch[i]] = tag[batch[i]] /\ tver <= tag[batch[i]] + MaxAge
  <2> SUFFICES ASSUME NEW i \in 1..Len(batch)
               PROVE  /\ tag'[batch[i]] = tag[batch[i]]
                      /\ tver <= tag[batch[i]] + MaxAge
    OBVIOUS
  <2>1. batch[i] \in Samples /\ batch[i] \in Elements(batch)
    BY <1>2, ElementOfSeq DEF Elements
  <2>2. ~TaskStored(batch[i])
    BY <2>1, OnlyTask DEF TaskStored
  <2> QED
    BY <1>1, <2>1, <2>2, TagFrame DEF FreshInv
<1>4. CASE GetSample
  <2>1. /\ mq # <<>> /\ Head(mq) # DONE /\ batch' = Append(batch, Head(mq))
        /\ UNCHANGED <<tver, tag>>
    BY <1>1, <1>4 DEF GetSample, Ended, trnFrame, taskVars
  <2>2. Head(mq) \in Samples /\ Head(mq) = mq[1] /\ 1 \in 1..Len(mq)
    BY <1>2, <2>1, QueueTypes, HeadTailProperties, EmptySeq
  <2>3. /\ Len(batch') = Len(batch) + 1 /\ batch'[Len(batch) + 1] = Head(mq)
        /\ \A i \in 1..Len(batch) : batch'[i] = batch[i]
    BY <1>2, <2>1, <2>2, AppendProperties
  <2>4. CASE j = Len(batch) + 1
    <3>1. tver + ((Consumed + 1 - 1) \div PerVersion) <= tag[mq[1]] + MaxAge
      BY <1>1, <2>1, <2>2 DEF FreshInv
    <3>2. (Consumed + 1 - 1) \div PerVersion \in Nat /\ MaxAge \in Nat
      <4>1. Consumed + 1 - 1 \in Nat /\ PerVersion \in Nat \ {0} /\ MaxAge \in Nat
        BY ConsumedTypes
      <4> QED
        BY <4>1, DivFacts
    <3>3. tag[mq[1]] \in Nat
      BY <1>2, <2>2
    <3>4. tver <= tag[mq[1]] + MaxAge
      BY <1>2, <3>1, <3>2, <3>3
    <3> QED
      BY <2>1, <2>2, <2>3, <2>4, <3>4
  <2>5. CASE j # Len(batch) + 1
    <3>1. j \in 1..Len(batch)
      BY <1>2, <2>3, <2>5
    <3> QED
      BY <1>3, <2>1, <2>3, <3>1
  <2> QED
    BY <2>4, <2>5
<1>5. CASE Train
  BY <1>5, EmptySeq DEF Train
<1>6. CASE ~GetSample /\ ~Train
  <2>1. UNCHANGED <<tver, batch>>
    <3>1. CASE ~Trainer
      BY <3>1, TrainerFrame
    <3>2. CASE Trainer
      BY <1>1, <1>6, <3>2
         DEF Trainer, SyncStart, SyncPaused, SyncTransfer, LogValidation, Final,
             CloseWait, Ended
    <3> QED
      BY <3>1, <3>2
  <2> QED
    BY <1>3, <2>1
<1> QED
  BY <1>4, <1>5, <1>6

LEMMA FreshStep ==
  ASSUME TypeOK, TypeOK', SyncInv, BatchInv, BatchInv', SampleAccounting,
         FreshInv, [Next]_vars
  PROVE  FreshInv'
<1>1. \A s \in Samples : tag'[s] <= version'
  BY FreshTags DEF FreshInv
<1>2. Len(mq') <= MaxRequired
  BY QueueBound DEF FreshInv
<1>3. ~Ended' => \A s \in Samples :
                  task'[s] = "put" => tver' <= tag'[s] + Behind'
  BY FreshPut
<1>4. ~Ended' => \A i \in 1..Len(mq') : mq'[i] # DONE =>
                  tver' + ((Consumed' + i - 1) \div PerVersion)
                    <= tag'[mq'[i]] + MaxAge
  BY FreshQueue
<1>5. ~Ended' => \A i \in 1..Len(batch') : tver' <= tag'[batch'[i]] + MaxAge
  BY FreshBatch
<1>6. MaxAge' = MaxAge /\ PerVersion' = PerVersion
  BY DEF MaxAge, PerVersion
<1> QED
  BY <1>1, <1>2, <1>3, <1>4, <1>5, <1>6 DEF FreshInv

\* A sample further back in the queue may be older by the versions that are
\* made of the samples before it: the inductive invariant of Freshness.
THEOREM FreshInvariance == Spec => []FreshInv
<1>1. ASSUME Init, TypeOK PROVE FreshInv
  <2>1. Len(mq) = 0 /\ Len(batch) = 0 /\ \A s \in Samples : task[s] # "put"
    BY <1>1, EmptySeq DEF Init
  <2>2. version = 0 /\ \A s \in Samples : tag[s] = 0
    BY <1>1 DEF Init
  <2> QED
    BY <2>1, <2>2, ConstantsAssumption DEF FreshInv
<1>2. /\ TypeOK /\ TypeOK' /\ SyncInv /\ PlaceInv /\ PlaceInv' /\ FreshInv
      /\ [Next]_vars
      => FreshInv'
  BY FreshStep DEF PlaceInv
<1> QED
  BY <1>1, <1>2, TypeCorrectness, SyncInvariance, Placed, PTL DEF Spec

\* What a training step uses is at most so many versions old: those that
\* max_required_samples, rounded up, are worth, and one (Freshness).
THEOREM TrainsFresh == Spec => []Freshness
<1>1. TypeOK /\ PlaceInv /\ FreshInv => Freshness
  <2> SUFFICES ASSUME TypeOK, PlaceInv, FreshInv, trn = "train",
                      NEW i \in 1..Len(batch)
               PROVE  tver <= tag[batch[i]]
                        + ((MaxRequired - 1) \div PerVersion) + 2
    BY DEF Freshness, PerVersion
  <2>1. tag[batch[i]] \in Nat /\ (MaxRequired - 1) \div PerVersion \in Nat
    <3>1. batch[i] \in Samples
      BY ElementOfSeq DEF TypeOK
    <3> QED
      BY <3>1, ConsumedTypes DEF PlaceInv, TypeOK
  <2>2. ~Ended
    BY DEF PlaceInv, BatchInv, Ended
  <2>3. tver <= tag[batch[i]] + MaxAge
    BY <2>2 DEF FreshInv
  <2> QED
    BY <2>1, <2>3 DEF MaxAge
<1> QED
  BY <1>1, TypeCorrectness, Placed, FreshInvariance, PTL

-----------------------------------------------------------------------------
(* The order in which the coroutines get the lock.                         *)

\* A coroutine is in the queue once, and the monitor's resume is in front of
\* the pause() that was called after its test.
Once == \A i, j \in 1..Len(lockQ) : lockQ[i] = lockQ[j] => i = j
Ahead == \A i, j \in 1..Len(lockQ) :
           lockQ[i] = "pause" /\ lockQ[j] = "mon" => j < i

LEMMA QueueRelease ==
  ASSUME TypeOK, LockExclusion, Once, NEW c \in Coroutines,
         Enter(c) \/ c \in Holders, Release
  PROVE  /\ Once' /\ (Ahead => Ahead')
         /\ ~InLockQ(c)'
         /\ \A d \in Coroutines \ {c} : InLockQ(d)' <=> InLockQ(d)
<1>1. lockQ \in Seq(Coroutines) /\ Len(lockQ) \in Nat
  BY LenProperties DEF TypeOK
<1>2. CASE lockQ = <<>>
  <2>1. lockQ' = lockQ /\ Len(lockQ) = 0
    BY <1>2, EmptySeq DEF Release
  <2> QED
    BY <2>1 DEF Once, Ahead, InLockQ
<1>3. CASE lockQ # <<>>
  <2>1. lockQ' = Tail(lockQ) /\ Head(lockQ) = c
    BY <1>3 DEF Release, Enter, Granted, LockExclusion
  <2>2. /\ Len(lockQ) # 0 /\ Len(lockQ') = Len(lockQ) - 1 /\ lockQ[1] = c
        /\ \A i \in 1..Len(lockQ') : lockQ'[i] = lockQ[i + 1]
    BY <1>1, <1>3, <2>1, HeadTailProperties, EmptySeq
  <2>3. Once' /\ (Ahead => Ahead')
    BY SMTT(30), <1>1, <2>2 DEF Once, Ahead
  <2>4. ~InLockQ(c)'
    BY <1>1, <2>2 DEF Once, InLockQ
  <2>5. ASSUME NEW d \in Coroutines \ {c} PROVE InLockQ(d)' <=> InLockQ(d)
    <3>1. ASSUME NEW i \in 1..Len(lockQ), lockQ[i] = d
          PROVE  i - 1 \in 1..Len(lockQ') /\ lockQ'[i - 1] = d
      <4>1. i # 1
        BY <2>2, <3>1
      <4> QED
        BY <1>1, <2>2, <3>1, <4>1
    <3>2. ASSUME NEW i \in 1..Len(lockQ'), lockQ'[i] = d
          PROVE  i + 1 \in 1..Len(lockQ) /\ lockQ[i + 1] = d
      BY <1>1, <2>2, <3>2
    <3> QED
      BY <3>1, <3>2 DEF InLockQ
  <2> QED
    BY <2>3, <2>4, <2>5
<1> QED
  BY <1>2, <1>3

LEMMA QueueHold ==
  ASSUME TypeOK, Once, NEW c \in Coroutines, Hold(c)
  PROVE  /\ Once' /\ (Ahead => Ahead')
         /\ \A d \in Coroutines : InLockQ(d) => InLockQ(d)'
         /\ \A d \in Coroutines : InLockQ(d)' => InLockQ(d) \/ d = c
<1>1. CASE lockQ = <<>>
  <2>1. lockQ' = <<c>> /\ Len(<<c>>) = 1 /\ <<c>>[1] = c /\ Len(lockQ) = 0
    BY <1>1, EmptySeq DEF Hold
  <2> QED
    BY <2>1 DEF Once, Ahead, InLockQ
<1>2. CASE lockQ # <<>>
  BY <1>2 DEF Hold, Once, Ahead, InLockQ
<1> QED
  BY <1>1, <1>2

LEMMA QueueAwait ==
  ASSUME TypeOK, Once, NEW c \in Coroutines, AwaitLock(c)
  PROVE  /\ Once'
         /\ Ahead /\ (c = "mon" => ~InLockQ("pause")) => Ahead'
         /\ InLockQ(c)'
         /\ \A d \in Coroutines \ {c} : InLockQ(d)' <=> InLockQ(d)
<1>1. /\ lockQ' = Append(lockQ, c) /\ ~InLockQ(c)
      /\ lockQ \in Seq(Coroutines) /\ Len(lockQ) \in Nat
  BY LenProperties DEF AwaitLock, TypeOK
<1>2. /\ Len(lockQ') = Len(lockQ) + 1 /\ lockQ'[Len(lockQ) + 1] = c
      /\ \A i \in 1..Len(lockQ) : lockQ'[i] = lockQ[i]
  BY <1>1, AppendProperties
<1>3. \A i \in 1..Len(lockQ') : i \in 1..Len(lockQ) \/ i = Len(lockQ) + 1
  BY <1>1, <1>2
<1>4. \A i \in 1..Len(lockQ) : lockQ[i] # c
  BY <1>1 DEF InLockQ
<1>5. Once'
  BY <1>1, <1>2, <1>3, <1>4 DEF Once
<1>6. ASSUME Ahead, c = "mon" => ~InLockQ("pause") PROVE Ahead'
  <2> SUFFICES ASSUME NEW i \in 1..Len(lockQ'), NEW j \in 1..Len(lockQ'),
                      lockQ'[i] = "pause", lockQ'[j] = "mon"
               PROVE  j < i
    BY DEF Ahead
  <2>1. CASE i \in 1..Len(lockQ) /\ j \in 1..Len(lockQ)
    BY <1>2, <1>6, <2>1 DEF Ahead
  <2>2. CASE i = Len(lockQ) + 1
    <3>1. j # i
      BY <2>2
    <3> QED
      BY <1>1, <1>2, <1>3, <2>2, <3>1
  <2>3. CASE i \in 1..Len(lockQ) /\ j = Len(lockQ) + 1
    <3>1. c = "mon" /\ lockQ[i] = "pause"
      BY <1>2, <2>3
    <3> QED
      BY <1>6, <2>3, <3>1 DEF InLockQ
  <2> QED
    BY <1>3, <2>1, <2>2, <2>3
<1>7. InLockQ(c)'
  BY <1>1, <1>2 DEF InLockQ
<1>8. ASSUME NEW d \in Coroutines \ {c} PROVE InLockQ(d)' <=> InLockQ(d)
  BY <1>1, <1>2, <1>3, <1>8 DEF InLockQ
<1> QED
  BY <1>5, <1>6, <1>7, <1>8

Places == {"pauseSet", "idle", "submit", "drain", "drainWait"}
Pausing == {"start", "cancel", "gather", "clear"}

\* The ways a step can use the lock.
LEMMA LockSteps ==
  ASSUME TypeOK, LockExclusion, [Next]_vars
  PROVE  \/ UNCHANGED lockQ /\ ~AwaitLock("proc") /\ ~AwaitLock("mon")
         \/ \E c \in Coroutines : AwaitLock(c)
         \/ Enter("proc") /\ Hold("proc") /\ ProcDrainLock
         \/ Enter("pause") /\ Hold("pause") /\ PauseEnter
         \/ Enter("upd") /\ Hold("upd") /\ UpdEnter
         \/ Enter("res") /\ Hold("res") /\ ResEnter
         \/ \E c \in Coroutines :
              /\ Enter(c) \/ c \in Holders
              /\ Release
              /\ c = "proc" => Processor
              /\ c = "pause" => PauseExit
              /\ c = "mon" => MonCheck \/ MonResume
<1> USE DEF Coroutines, loopVars
<1>0. \A c \in Coroutines : AwaitLock(c) => lockQ' # lockQ
  <2> SUFFICES ASSUME NEW c \in Coroutines, lockQ' = Append(lockQ, c)
               PROVE  lockQ' # lockQ
    BY DEF AwaitLock
  <2>1. lockQ \in Seq(Coroutines) /\ Len(lockQ) \in Nat
    BY LenProperties DEF TypeOK
  <2>2. Len(lockQ') = Len(lockQ) + 1
    BY <2>1, AppendProperties
  <2> QED
    BY <2>1, <2>2
<1> HIDE DEF Coroutines
<1>a. {"proc", "pause", "upd", "res", "mon", "main"} \subseteq Coroutines
  BY DEF Coroutines
<1>1. CASE FeedPut \/ UNCHANGED vars
  BY <1>0, <1>1, <1>a DEF FeedPut, vars
<1>2. CASE MainStop
  BY <1>2, <1>a DEF MainStop
<1>3. CASE ProcPause \/ ProcTake \/ ProcStarve \/ ProcGet \/ ProcDrained
  BY <1>0, <1>3, <1>a
     DEF ProcPause, ProcTake, ProcStarve, ProcGet, ProcDrained
<1>4. CASE ProcPauseSet \/ ProcIdle \/ ProcSubmit
  BY <1>4, <1>a DEF ProcPauseSet, ProcIdle, ProcSubmit, Processor
<1>5. CASE ProcDrainLock
  BY <1>5 DEF ProcDrainLock
<1>6. CASE ProcDrainEmpty
  BY <1>6, <1>a DEF ProcDrainEmpty, Processor, Enter
<1>7. CASE ProcDrainWake
  BY <1>7, <1>a DEF ProcDrainWake, Processor, Holders
<1>8. ASSUME NEW s \in Samples, Task(s) \/ Server(s) \/ MQPut(s)
      PROVE  UNCHANGED lockQ
  BY <1>8
     DEF Task, TaskStored, TaskAcked, TaskCancelled, TaskFailed, Server,
         ServerAccept, ServerFinish, ServerRefuse, ServerFail, serverFrame,
         taskFrame, MQPut, mqFrame
<1>9. CASE MQPutEnd \/ Trainer
  BY <1>0, <1>9, <1>a
     DEF MQPutEnd, mqFrame, Trainer, GetSample, Train, SyncStart, SyncPaused,
         SyncTransfer, LogValidation, Final, CloseWait, trnFrame
<1>10. CASE PauseCancel \/ PauseGather \/ UpdCount \/ ResServers
  BY <1>0, <1>10, <1>a DEF PauseCancel, PauseGather, UpdCount, ResServers
<1>11. CASE PauseEnter \/ UpdEnter
  BY <1>11 DEF PauseEnter, UpdEnter
<1>12. CASE PauseExit \/ UpdExit
  BY <1>12, <1>a DEF PauseExit, UpdExit, Holders
<1>13. CASE ResEnter
  BY <1>13, <1>a DEF ResEnter, Unpause
<1>14. CASE ResExit
  BY <1>14, <1>a DEF ResExit, Unpause, Holders
<1>15. CASE MonWake
  BY <1>0, <1>15, <1>a DEF MonWake
<1>16. CASE MonCheck \/ MonResume
  BY <1>16, <1>a DEF MonCheck, MonResume
<1>17. UNCHANGED lockQ => ~AwaitLock("proc") /\ ~AwaitLock("mon")
  BY <1>0, <1>a
<1> QED
  BY <1>1, <1>2, <1>3, <1>4, <1>5, <1>6, <1>7, <1>8, <1>9, <1>10, <1>11, <1>12,
     <1>13, <1>14, <1>15, <1>16, <1>17 DEF Next, Processor, Rpc, Monitor

\* Who is in the queue is where it needs the lock.
LockInv ==
  /\ Once
  /\ InLockQ("pause") => pauseC \in Pausing
  /\ InLockQ("proc") => proc \in Places

LEMMA LockInvStep ==
  ASSUME TypeOK, SyncInv, LockExclusion, LockInv, [Next]_vars
  PROVE  LockInv'
<1>a. {"proc", "pause", "upd", "res", "mon", "main"} \subseteq Coroutines
  BY DEF Coroutines
<1>0. Once /\ lockQ \in Seq(Coroutines)
  BY DEF LockInv, TypeOK
\* What leaves the places of the lock does not leave the lock to itself.
<1>1. ASSUME ~PauseExit, pauseC \in Pausing PROVE pauseC' \in Pausing
  <2>1. ~SyncPaused /\ ~SyncStart
    BY <1>1 DEF SyncPaused, Pausing, SyncStart, SyncInv
  <2>2. CASE ~Rpc /\ ~Trainer
    BY <1>1, <2>2, SyncFrame DEF syncVars
  <2>3. CASE Rpc
    BY <1>1, <2>3
       DEF Rpc, PauseEnter, PauseCancel, PauseGather, UpdEnter, UpdCount,
           UpdExit, ResEnter, ResServers, ResExit, resFrame, Pausing
  <2>4. CASE Trainer
    BY <1>1, <2>1, <2>4
       DEF Trainer, GetSample, Train, SyncTransfer, LogValidation, Final,
           CloseWait
  <2> QED
    BY <2>2, <2>3, <2>4
<1>2. ASSUME proc \in Places, ~Processor PROVE proc' \in Places
  BY <1>2, ProcessorFrame DEF Places
<1>3. CASE UNCHANGED lockQ
  <2>1. Once' /\ \A c \in Coroutines : InLockQ(c)' <=> InLockQ(c)
    BY <1>0, <1>3 DEF Once, InLockQ
  <2>2. InLockQ("pause") => ~PauseExit
    <3> SUFFICES ASSUME PauseExit PROVE ~InLockQ("pause")
      OBVIOUS
    <3>1. lockQ # <<>> /\ Head(lockQ) = "pause" /\ lockQ' = Tail(lockQ)
      BY <1>a DEF PauseExit, Release, LockExclusion, Holders, Granted
    <3>2. Len(lockQ') # Len(lockQ)
      BY <1>0, <3>1, HeadTailProperties, LenProperties
    <3> QED
      BY <1>3, <3>2
  <2>3. ASSUME InLockQ("proc") PROVE proc' \in Places
    <3>1. proc \in Places
      BY <2>3 DEF LockInv
    <3>2. CASE Processor
      <4>1. lockQ # <<>>
        BY <2>3, EmptySeq DEF InLockQ
      <4>2. Tail(lockQ) # lockQ
        BY <1>0, <4>1, HeadTailProperties, LenProperties
      <4>3. ~ProcPauseSet /\ ~ProcDrainEmpty /\ ~ProcDrainWake /\ ~ProcIdle
            /\ ~ProcSubmit /\ ~ProcDrained
        BY <1>3, <2>3, <4>1, <4>2
           DEF ProcPauseSet, ProcDrainEmpty, ProcDrainWake, ProcIdle, ProcSubmit,
               ProcDrained, Release
      <4> QED
        BY <3>1, <3>2, <4>3
           DEF Processor, ProcPause, ProcTake, ProcStarve, ProcGet, ProcDrainLock,
               Places
    <3> QED
      BY <1>2, <3>1, <3>2
  <2> QED
    BY <1>1, <1>a, <2>1, <2>2, <2>3 DEF LockInv
<1>4. ASSUME NEW c \in Coroutines, AwaitLock(c) PROVE LockInv'
  <2>1. UNCHANGED <<pauseC, proc>>
    BY <1>4 DEF AwaitLock, procVars, rpcVars
  <2>2. c = "pause" => pauseC \in Pausing
    BY <1>4 DEF AwaitLock, WantsLock, Pausing
  <2>3. c = "proc" => proc \in Places
    BY <1>4 DEF AwaitLock, WantsLock, Places
  <2> QED
    BY <1>0, <1>4, <1>a, <2>1, <2>2, <2>3, QueueAwait DEF LockInv
<1>5. CASE Enter("proc") /\ Hold("proc") /\ ProcDrainLock
  BY <1>0, <1>5, <1>a, QueueHold
     DEF LockInv, ProcDrainLock, procFrame, rpcVars, Places
<1>6. CASE Enter("pause") /\ Hold("pause") /\ PauseEnter
  BY <1>0, <1>6, <1>a, QueueHold
     DEF LockInv, PauseEnter, rpcFrame, procVars, Pausing
<1>7. CASE Enter("upd") /\ Hold("upd") /\ UpdEnter
  BY <1>0, <1>7, <1>a, QueueHold DEF LockInv, UpdEnter, rpcFrame, procVars
<1>8. CASE Enter("res") /\ Hold("res") /\ ResEnter
  <2>1. UNCHANGED pauseC /\ (proc \in Places => proc' \in Places)
    BY <1>8 DEF ResEnter, resFrame, Unpause, NotifyAll, Places
  <2> QED
    BY <1>0, <1>8, <1>a, <2>1, QueueHold DEF LockInv
<1>9. ASSUME NEW c \in Coroutines, Enter(c) \/ c \in Holders, Release,
             c = "proc" => Processor, c = "pause" => PauseExit
      PROVE  LockInv'
  <2>1. Once' /\ ~InLockQ(c)' /\ \A d \in Coroutines \ {c} : InLockQ(d)' <=> InLockQ(d)
    BY <1>0, <1>9, QueueRelease
  <2>2. CASE UNCHANGED lockQ
    BY <1>3, <2>2
  <2>3. CASE lockQ' # lockQ
    <3>1. lockQ # <<>> /\ Head(lockQ) = c
      BY <1>9, <2>3 DEF Release, Enter, Granted, LockExclusion
    <3>2. PauseExit => c = "pause"
      BY <1>a, <3>1 DEF PauseExit, LockExclusion, Holders, Granted
    <3>3. InLockQ("pause")' => pauseC' \in Pausing
      BY <1>1, <1>a, <2>1, <3>2 DEF LockInv
    <3>4. Processor => c = "proc" \/ proc' \in Places \/ lockQ' = lockQ
      BY <3>1, <1>a
         DEF Processor, ProcPause, ProcPauseSet, ProcTake, ProcStarve, ProcGet,
             ProcDrained, ProcDrainLock, ProcDrainEmpty, ProcDrainWake, ProcIdle,
             ProcSubmit, Enter, Granted, Holders, LockExclusion, Places
    <3>5. InLockQ("proc")' => proc' \in Places
      BY <1>2, <1>a, <2>1, <2>3, <3>4 DEF LockInv
    <3> QED
      BY <2>1, <3>3, <3>5 DEF LockInv
  <2> QED
    BY <2>2, <2>3
<1> QED
  BY <1>3, <1>4, <1>5, <1>6, <1>7, <1>8, <1>9, LockSteps

-----------------------------------------------------------------------------
(* The flags of a synchronisation.                                         *)

\* The monitor may not resume from the end of pause() to the end of resume(),
\* and the servers refuse only in between; without partial rollout they never
\* do.
FlagInv ==
  /\ trigger => pauseC # "done" /\ trn # "transfer" /\ resC = "none"
  /\ srvPaused => \/ pauseC \in {"gather", "clear", "done"}
                  \/ trn = "transfer"
                  \/ resC # "none"
  /\ ~Partial => ~srvPaused /\ pauseC # "cancel"

LEMMA FlagFrame ==
  ASSUME [Next]_vars, ~Rpc
  PROVE  UNCHANGED <<trigger, srvPaused>>
<1> USE DEF flagVars, srvVars
<1>1. ASSUME NEW c \in Coroutines, AwaitLock(c)
      PROVE  UNCHANGED <<trigger, srvPaused>>
  BY <1>1 DEF AwaitLock
<1>2. CASE FeedPut \/ Processor \/ MainStop
  BY <1>2
     DEF FeedPut, MainStop, Processor, ProcPause, ProcPauseSet, ProcTake,
         ProcStarve, ProcGet, ProcDrained, ProcDrainLock, ProcDrainEmpty,
         ProcDrainWake, ProcIdle, ProcSubmit, procFrame
<1>3. ASSUME NEW s \in Samples, Task(s) \/ Server(s) \/ MQPut(s)
      PROVE  UNCHANGED <<trigger, srvPaused>>
  BY <1>3
     DEF Task, TaskStored, TaskAcked, TaskCancelled, TaskFailed, Server,
         ServerAccept, ServerFinish, ServerRefuse, ServerFail, serverFrame,
         taskFrame, MQPut, mqFrame
<1>4. CASE MQPutEnd \/ Monitor
  BY <1>4
     DEF MQPutEnd, mqFrame, Monitor, MonCheck, MonWake, MonResume, monFrame
<1>5. CASE Trainer
  BY <1>5
     DEF Trainer, GetSample, Train, SyncStart, SyncPaused, SyncTransfer,
         LogValidation, Final, CloseWait, trnFrame
<1>6. CASE UNCHANGED vars
  BY <1>6 DEF vars
<1> QED
  BY <1>1, <1>2, <1>3, <1>4, <1>5, <1>6 DEF Next

LEMMA FlagStep ==
  ASSUME TypeOK, SyncInv, FlagInv, [Next]_vars
  PROVE  FlagInv'
<1>1. CASE ~Rpc /\ ~Trainer
  BY <1>1, SyncFrame, FlagFrame DEF syncVars, FlagInv
<1>2. CASE PauseEnter \/ PauseCancel \/ PauseGather \/ PauseExit
  BY <1>2
     DEF PauseEnter, PauseCancel, PauseGather, PauseExit, rpcFrame, flagVars,
         srvVars, trnVars, FlagInv, SyncInv
<1>3. CASE UpdEnter \/ UpdCount \/ UpdExit
  BY <1>3
     DEF UpdEnter, UpdCount, UpdExit, rpcFrame, flagVars, srvVars, trnVars,
         FlagInv
<1>4. CASE ResEnter \/ ResServers \/ ResExit
  BY <1>4
     DEF ResEnter, ResServers, ResExit, Unpause, resFrame, trnVars, FlagInv,
         SyncInv
<1>5. CASE Trainer
  <2>1. UNCHANGED <<trigger, srvPaused>>
    BY <1>5
       DEF Trainer, GetSample, Train, SyncStart, SyncPaused, SyncTransfer,
           LogValidation, Final, CloseWait, trnFrame, flagVars
  <2>2. CASE GetSample \/ Train \/ LogValidation \/ Final \/ CloseWait
    BY <2>1, <2>2
       DEF GetSample, Train, NextVersion, LogValidation, Final, CloseWait,
           FlagInv
  <2>3. CASE SyncStart \/ SyncPaused \/ SyncTransfer
    BY <2>1, <2>3 DEF SyncStart, SyncPaused, SyncTransfer, FlagInv, SyncInv
  <2> QED
    BY <1>5, <2>2, <2>3 DEF Trainer
<1> QED
  BY <1>1, <1>2, <1>3, <1>4, <1>5 DEF Rpc

-----------------------------------------------------------------------------
(* active_tasks.                                                           *)

LEMMA ActiveEmpty ==
  ASSUME TypeOK
  PROVE  ActiveLen = 0 <=> Live = {} /\ finished = 0 /\ failed = 0
<1>1. Cardinality(Live) \in Nat /\ (Cardinality(Live) = 0 <=> Live = {})
  BY ActiveLenType, FS_EmptySet
<1> QED
  BY <1>1 DEF ActiveLen, TypeOK

\* A step changes the task of one sample, which only ProcSubmit creates.
LEMMA TaskFrame ==
  ASSUME TypeOK, [Next]_vars
  PROVE  \/ UNCHANGED task
         \/ ProcSubmit /\ ~paused
         \/ \E s \in Samples : Task(s) \/ Server(s) \/ MQPut(s)
<1>1. CASE ~SampleStep
  BY <1>1, SampleFrame DEF sampleVars
<1>2. CASE FeedPut \/ ProcTake \/ ProcGet \/ MQPutEnd \/ GetSample \/ Train
  BY <1>2
     DEF FeedPut, ProcTake, ProcGet, MQPutEnd, GetSample, Train, trnFrame,
         taskVars
<1>3. CASE ProcSubmit
  BY <1>3 DEF ProcSubmit
<1> QED
  BY <1>1, <1>2, <1>3 DEF SampleStep

\* The counters of active_tasks change where a task ends and where the set
\* is drained.
LEMMA ActiveFrame ==
  ASSUME [Next]_vars
  PROVE  \/ UNCHANGED <<finished, failed>>
         \/ ProcDrainWake
         \/ PauseGather
         \/ \E s \in Samples : TaskAcked(s) \/ TaskCancelled(s) \/ TaskFailed(s)
<1> USE DEF taskVars
<1>1. ASSUME NEW c \in Coroutines, AwaitLock(c)
      PROVE  UNCHANGED <<finished, failed>>
  BY <1>1 DEF AwaitLock
<1>2. CASE FeedPut \/ MainStop \/ MQPutEnd
  BY <1>2 DEF FeedPut, MainStop, MQPutEnd, mqFrame
<1>3. CASE Processor
  BY <1>3
     DEF Processor, ProcPause, ProcPauseSet, ProcTake, ProcStarve, ProcGet,
         ProcDrained, ProcDrainLock, ProcDrainEmpty, ProcIdle, ProcSubmit
<1>4. ASSUME NEW s \in Samples, TaskStored(s) \/ Server(s) \/ MQPut(s)
      PROVE  UNCHANGED <<finished, failed>>
  BY <1>4
     DEF TaskStored, Server, ServerAccept, ServerFinish, ServerRefuse,
         ServerFail, serverFrame, MQPut, mqFrame
<1>5. CASE Rpc
  BY <1>5
     DEF Rpc, PauseEnter, PauseCancel, PauseExit, UpdEnter, UpdCount, UpdExit,
         ResEnter, ResServers, ResExit, resFrame
<1>6. CASE Monitor \/ Trainer
  BY <1>6
     DEF Monitor, MonCheck, MonWake, MonResume, monFrame, Trainer, GetSample,
         Train, SyncStart, SyncPaused, SyncTransfer, LogValidation, Final,
         CloseWait, trnFrame
<1>7. CASE UNCHANGED vars
  BY <1>7 DEF vars
<1> QED
  BY <1>1, <1>2, <1>3, <1>4, <1>5, <1>6, <1>7 DEF Next, Task

\* An empty active_tasks stays empty until a task is created.
LEMMA StaysEmpty ==
  ASSUME TypeOK, [Next]_vars, Live = {}, ~ProcSubmit
  PROVE  /\ Live' = {} /\ UNCHANGED task
         /\ finished = 0 => finished' = 0
         /\ failed = 0 => failed' = 0
<1>1. \A s \in Samples : task[s] = "none"
  BY DEF Live
<1>2. \A s \in Samples : ~Task(s) /\ ~Server(s) /\ ~MQPut(s)
  BY <1>1
     DEF Task, TaskStored, TaskAcked, TaskCancelled, TaskFailed, Server,
         ServerAccept, ServerFinish, ServerRefuse, ServerFail, MQPut
<1>3. UNCHANGED task
  BY <1>2, TaskFrame
<1>4. UNCHANGED <<finished, failed>> \/ ProcDrainWake \/ PauseGather
  BY <1>2, ActiveFrame DEF Task
<1> QED
  BY <1>3, <1>4 DEF Live, ProcDrainWake, PauseGather

\* The processor has drained active_tasks when it waits for a resume.
IdleEmpty == proc \in {"idle", "idleWait"} => ActiveLen = 0

LEMMA IdleEmptyStep ==
  ASSUME TypeOK, TypeOK', IdleEmpty, [Next]_vars
  PROVE  IdleEmpty'
<1> SUFFICES ASSUME proc' \in {"idle", "idleWait"} PROVE ActiveLen' = 0
  BY DEF IdleEmpty
<1>1. CASE ProcDrained
  <2>1. reason = "pause"
    BY <1>1 DEF ProcDrained, TypeOK
  <2>2. ~(ActiveLen > 0)
    BY <1>1, <2>1 DEF ProcDrained, DrainTest
  <2>3. ActiveLen' = ActiveLen
    BY <1>1 DEF ProcDrained, taskVars, ActiveLen, Live
  <2> QED
    BY <2>2, <2>3, ActiveLenType
<1>2. CASE ~ProcDrained
  <2>1. proc \in {"idle", "idleWait"} /\ ~ProcSubmit
    <3>1. CASE Processor
      BY <1>2, <3>1
         DEF Processor, ProcPause, ProcPauseSet, ProcTake, ProcStarve, ProcGet,
             ProcDrainLock, ProcDrainEmpty, ProcDrainWake, ProcIdle, ProcSubmit,
             TakePending, TakeCancelled
    <3>2. CASE ~Processor
      BY <3>2, ProcessorFrame DEF Processor
    <3> QED
      BY <3>1, <3>2
  <2>2. Live = {} /\ finished = 0 /\ failed = 0
    BY <2>1, ActiveEmpty DEF IdleEmpty
  <2>3. Live' = {} /\ finished' = 0 /\ failed' = 0
    BY <2>1, <2>2, StaysEmpty
  <2>4. Cardinality(Live') = 0
    BY <2>3, FS_EmptySet
  <2> QED
    BY <2>3, <2>4 DEF ActiveLen
<1> QED
  BY <1>1, <1>2

\* The queue of Rollouter.lock, the flags pause() and resume() leave, and
\* active_tasks at the processor's wait.
THEOREM LoopInvariance == Spec => [](LockInv /\ FlagInv /\ IdleEmpty)
<1>1. Init => LockInv /\ FlagInv /\ IdleEmpty
  <2>1. Len(<<>>) = 0
    BY EmptySeq
  <2> QED
    BY <2>1 DEF Init, LockInv, FlagInv, IdleEmpty, Once, InLockQ
<1>2. /\ TypeOK /\ TypeOK' /\ SyncInv /\ LockExclusion
      /\ (LockInv /\ FlagInv /\ IdleEmpty) /\ [Next]_vars
      => (LockInv /\ FlagInv /\ IdleEmpty)'
  BY LockInvStep, FlagStep, IdleEmptyStep
<1> QED
  BY <1>1, <1>2, TypeCorrectness, SyncInvariance, LockExcludes, PTL DEF Spec

-----------------------------------------------------------------------------
(* The synchronous mode: what staleness_samples is worth when               *)
(* max_required_samples is what one version of the weights takes.          *)

\* What holds in every mode.
Known ==
  /\ TypeOK /\ SyncInv /\ LockExclusion /\ HandInv /\ BatchInv
  /\ SampleAccounting /\ EndInv /\ FreshInv /\ LockInv /\ FlagInv /\ IdleEmpty

\* The invariants of every mode, which those of the synchronous mode rest on.
THEOREM KnownInvariance == Spec => []Known
BY TypeCorrectness, SyncInvariance, LockExcludes, Placed, EndInvariance,
   FreshInvariance, LoopInvariance, PTL DEF Known, PlaceInv

\* The samples whose task still awaits an answer, and those whose put_sample
\* is answered.
Asked == {s \in Samples : task[s] \notin {"none", "ack"}}
Acked == {s \in Samples : task[s] = "ack"}
Unanswered == Cardinality(Asked)

\* The end signal is taken, and the last tasks are drained.
EndTaken == proc \in {"drain", "drainWait"} /\ reason = "done"

\* A version is made and the Rollouter has not counted again: what the Trainer
\* has taken since then counts for nothing, and all of it for the version.
Syncing == trn \in {"waitValid", "pausing", "transfer"} \/ updC \in {"start", "size"}
Spent == IF Syncing THEN PerVersion ELSE Consumed

Charge == Unanswered + One(hand # DONE) + Len(mq) + Spent + failed + One(EndTaken)

\* Where the processor can be from pause() to the end of resume(), and what is
\* left from the gathering of the tasks to the count.
Halted ==
  \/ pauseC \in {"cancel", "gather", "clear", "done"}
  \/ trn = "transfer"
  \/ resC # "none"
Emptied ==
  \/ pauseC \in {"clear", "done"}
  \/ trn = "transfer"
  \/ updC \in {"start", "size"}

ExactInv ==
  ~Over =>
    /\ staleness = Charge /\ staleness <= MaxRequired
    /\ proc = "get" => staleness < MaxRequired
    /\ updC \in {"start", "size"} =>
         trn \in {"log", "collect"} /\ batch = <<>> /\ localStep = 1
    /\ Emptied => finished = 0 /\ Live = {}
    /\ updC = "size" => updBase = 0
    /\ Halted => paused /\ proc # "get" /\ hand = DONE /\ Asked = {} /\ ~EndTaken
    /\ proc = "drain" /\ InLockQ("proc") /\ ActiveLen = 0 =>
         mq = <<>> /\ batch = <<>>
    /\ Cardinality(Acked \ Elements(mq)) <= Spent

\* No sample is cut.
Uncut ==
  cancelQ = <<>> /\ \A s \in Samples : task[s] \notin {"ref", "mix", "cut"}
CalmInv == proc # "crashed" => Uncut

LEMMA AskedTypes ==
  ASSUME TypeOK
  PROVE  /\ IsFiniteSet(Asked) /\ Unanswered \in Nat
         /\ Unanswered = 0 => Asked = {}
         /\ Asked = {} => Unanswered = 0
         /\ IsFiniteSet(Acked)
<1>1. Asked \subseteq Samples /\ Acked \subseteq Samples
  BY DEF Asked, Acked
<1>2. IsFiniteSet(Asked) /\ IsFiniteSet(Acked)
  BY <1>1, SamplesFinite, FS_Subset
<1> QED
  BY <1>2, FS_CardinalityType, FS_EmptySet DEF Unanswered

LEMMA AskedStep ==
  ASSUME TypeOK, NEW s \in Samples, NEW p \in TaskPcs,
         task' = [task EXCEPT ![s] = p]
  PROVE  Unanswered' = Unanswered + One(p \notin {"none", "ack"})
                         - One(task[s] \notin {"none", "ack"})
<1>1. IsFiniteSet(Asked) /\ Unanswered \in Nat
  BY AskedTypes
<1>2. Unanswered = Cardinality(Asked) /\ Unanswered' = Cardinality(Asked')
  BY DEF Unanswered
<1>3. \A t \in Samples : task'[t] = IF t = s THEN p ELSE task[t]
  BY DEF TypeOK
<1>4. CASE p \in {"none", "ack"} /\ task[s] \in {"none", "ack"}
  <2>1. Asked' = Asked
    BY <1>3, <1>4 DEF Asked
  <2> QED
    BY <1>1, <1>2, <1>4, <2>1 DEF One
<1>5. CASE p \notin {"none", "ack"} /\ task[s] \notin {"none", "ack"}
  <2>1. Asked' = Asked
    BY <1>3, <1>5 DEF Asked
  <2> QED
    BY <1>1, <1>2, <1>5, <2>1 DEF One
<1>6. CASE p \notin {"none", "ack"} /\ task[s] \in {"none", "ack"}
  <2>1. Asked' = Asked \cup {s} /\ s \notin Asked
    BY <1>3, <1>6 DEF Asked
  <2>2. Cardinality(Asked') = Cardinality(Asked) + 1
    BY <1>1, <2>1, FS_AddElement
  <2> QED
    BY <1>1, <1>2, <1>6, <2>2 DEF One
<1>7. CASE p \in {"none", "ack"} /\ task[s] \notin {"none", "ack"}
  <2>1. Asked' = Asked \ {s} /\ s \in Asked
    BY <1>3, <1>7 DEF Asked
  <2>2. Cardinality(Asked') = Cardinality(Asked) - 1
    BY <1>1, <2>1, FS_RemoveElement
  <2> QED
    BY <1>1, <1>2, <1>7, <2>2 DEF One
<1> QED
  BY <1>4, <1>5, <1>6, <1>7

LEMMA ChargeTypes ==
  ASSUME Known
  PROVE  /\ Unanswered \in Nat /\ Len(mq) \in Nat /\ Spent \in Nat
         /\ failed \in Nat /\ staleness \in Nat
         /\ MaxRequired \in Nat \ {0} /\ PerVersion \in Nat \ {0}
         /\ Consumed \in Nat /\ Spent <= PerVersion
         /\ One(hand # DONE) \in {0, 1} /\ One(EndTaken) \in {0, 1}
<1>1. Len(mq) \in Nat /\ failed \in Nat /\ staleness \in Nat
  BY LenProperties DEF Known, TypeOK
<1>2. /\ PerVersion \in Nat \ {0} /\ MaxRequired \in Nat \ {0}
      /\ Consumed \in Nat /\ Consumed <= PerVersion
  BY ConsumedTypes DEF Known
<1>3. Unanswered \in Nat
  BY AskedTypes DEF Known
<1> QED
  BY <1>1, <1>2, <1>3 DEF Spent, One

LEMMA ChargeTypesNext ==
  Known' => (/\ Unanswered \in Nat /\ Len(mq) \in Nat /\ Spent \in Nat
             /\ failed \in Nat /\ staleness \in Nat)'
<1>1. Known => /\ Unanswered \in Nat /\ Len(mq) \in Nat /\ Spent \in Nat
               /\ failed \in Nat /\ staleness \in Nat
  BY ChargeTypes
<1> QED
  BY <1>1, PTL

\* While a version is made, all that max_required_samples allows is spent.
LEMMA Full ==
  ASSUME Known, Synchronous, ExactInv, ~Over, Spent = PerVersion
  PROVE  /\ Asked = {} /\ hand = DONE /\ mq = <<>> /\ failed = 0 /\ ~EndTaken
         /\ staleness = MaxRequired
<1>1. /\ Unanswered \in Nat /\ Len(mq) \in Nat /\ Spent \in Nat
      /\ failed \in Nat /\ staleness \in Nat /\ MaxRequired \in Nat
      /\ One(hand # DONE) \in {0, 1} /\ One(EndTaken) \in {0, 1}
  BY ChargeTypes
<1>2. staleness = Charge /\ staleness <= MaxRequired /\ Spent = MaxRequired
  BY DEF ExactInv, Synchronous, PerVersion
<1>3. /\ Unanswered = 0 /\ One(hand # DONE) = 0 /\ Len(mq) = 0 /\ failed = 0
      /\ One(EndTaken) = 0 /\ staleness = MaxRequired
  BY <1>1, <1>2 DEF Charge
<1>4. hand = DONE /\ ~EndTaken
  BY <1>3 DEF One
<1>5. mq = <<>>
  BY <1>3, EmptySeq, LenProperties DEF Known, TypeOK
<1>6. Asked = {}
  BY <1>3, AskedTypes DEF Known
<1> QED
  BY <1>3, <1>4, <1>5, <1>6

\* The processor does not come back, and the Trainer does not end before it.
LEMMA BeforeOver ==
  ASSUME Known, [Next]_vars, ~Over'
  PROVE  ~Over /\ ~Ended /\ main = "wait" /\ DONE \notin Elements(mq)
         /\ ~MQPutEnd /\ ~MainStop /\ ~Final /\ ~CloseWait
<1>1. ~Over
  BY OverFrame DEF Known, Over
<1> QED
  BY <1>1
     DEF Known, EndInv, Over, MQPutEnd, MainStop, Final, CloseWait, Ended

LEMMA SpentStep ==
  ASSUME Known, Synchronous, ExactInv, [Next]_vars, ~Over'
  PROVE  /\ GetSample => /\ Spent' = Spent + 1 /\ Head(mq) \in Samples
                         /\ Len(mq') = Len(mq) - 1
                         /\ Elements(mq) = Elements(mq') \cup {Head(mq)}
         /\ UpdCount => Spent = PerVersion /\ Spent' = 0
         /\ ~GetSample /\ ~UpdCount => Spent' = Spent
<1>0. ~Over /\ ~Ended /\ DONE \notin Elements(mq) /\ ~Final /\ ~CloseWait
  BY BeforeOver
<1>1. mq \in Seq(Samples \cup {DONE}) /\ batch \in Seq(Samples) /\ Len(batch) \in Nat
  BY LenProperties DEF Known, TypeOK
<1>2. updC \in {"start", "size"} =>
        trn \in {"log", "collect"} /\ batch = <<>> /\ localStep = 1
  BY <1>0 DEF ExactInv
<1>3. CASE GetSample
  <2>1. mq # <<>> /\ mq' = Tail(mq) /\ trn = "collect" /\ updC' = updC
    BY <1>3 DEF GetSample
  <2>2. /\ Head(mq) \in Elements(mq) /\ Head(mq) \in Samples \cup {DONE}
        /\ Elements(mq) = Elements(mq') \cup {Head(mq)}
    BY <1>1, <2>1, ElementsTypes, QueueTypes
  <2>3. Head(mq) \in Samples /\ Head(mq) # DONE
    BY <1>0, <2>2
  <2>4. ~Syncing
    BY <1>0, <2>1, Full DEF Syncing, Spent
  <2>5. /\ batch' = Append(batch, Head(mq)) /\ localStep' = localStep
        /\ trn' \in {"train", "collect"}
    BY <1>3, <2>3 DEF GetSample
  <2>6. Len(batch') = Len(batch) + 1
    BY <1>1, <2>3, <2>5, AppendProperties
  <2>7. Consumed' = Consumed + 1
    <3>1. (localStep - 1) * RequiredSamples \in Nat
      BY ConstantsAssumption DEF Known, TypeOK
    <3> QED
      BY <1>1, <2>5, <2>6, <3>1 DEF Consumed
  <2>8. ~Syncing'
    BY <2>1, <2>4, <2>5 DEF Syncing
  <2>9. Len(mq') = Len(mq) - 1
    BY <1>1, <2>1, HeadTailProperties
  <2>10. ~UpdCount
    BY <2>4 DEF UpdCount, Syncing
  <2> QED
    BY <2>2, <2>3, <2>4, <2>7, <2>8, <2>9, <2>10, <1>3 DEF Spent
<1>4. CASE UpdCount
  <2>1. /\ updC = "size" /\ updC' = "putVal"
        /\ UNCHANGED <<trn, batch, localStep, mq>>
    BY <1>4 DEF UpdCount, rpcFrame, trnVars
  <2>2. Consumed' = 0 /\ ~Syncing' /\ Syncing
    BY <1>2, <2>1, EmptySeq, ConstantsAssumption DEF Consumed, Syncing
  <2>3. ~GetSample
    BY <2>1 DEF GetSample
  <2> QED
    BY <1>4, <2>2, <2>3 DEF Spent
<1>5. CASE Train
  <2>1. /\ updC' = updC /\ trn = "train" /\ batch # <<>> /\ ~GetSample /\ ~UpdCount
    BY <1>5, ConstantsAssumption, EmptySeq
       DEF Train, Known, BatchInv, GetSample, UpdCount
  <2>2. ~Syncing
    BY <1>2, <2>1 DEF Syncing
  <2>3. CASE Consumed' = Consumed /\ trn' = "log"
    BY <2>1, <2>2, <2>3 DEF Spent, Syncing
  <2>4. CASE Consumed = PerVersion /\ trn' = "waitValid"
    BY <2>1, <2>2, <2>4 DEF Spent, Syncing, PerVersion
  <2> QED
    BY <1>5, <2>1, <2>3, <2>4, ConsumedTrain DEF Known
<1>6. CASE SyncStart \/ SyncPaused \/ SyncTransfer
  <2>1. Syncing /\ Syncing' /\ ~GetSample /\ ~UpdCount
    BY <1>6
       DEF SyncStart, SyncPaused, SyncTransfer, Syncing, GetSample, UpdCount,
           Known, SyncInv
  <2> QED
    BY <2>1 DEF Spent, PerVersion
<1>7. CASE LogValidation
  <2>1. /\ UNCHANGED <<updC, batch, localStep>> /\ trn = "log" /\ trn' = "collect"
        /\ ~GetSample /\ ~UpdCount
    BY <1>7 DEF LogValidation, GetSample, UpdCount
  <2> QED
    BY <2>1 DEF Spent, Syncing, Consumed, PerVersion
<1>8. CASE ~Trainer /\ ~UpdCount
  <2>1. UNCHANGED <<trn, batch, localStep>>
    BY <1>8, TrainerFrame
  <2>2. updC' \in {"start", "size"} <=> updC \in {"start", "size"}
    BY <1>8, UpdFrame DEF UpdEnter, UpdExit, Trainer
  <2>3. ~GetSample
    BY <1>8 DEF Trainer
  <2> QED
    BY <1>8, <2>1, <2>2, <2>3 DEF Spent, Syncing, Consumed, PerVersion
<1> QED
  BY <1>0, <1>3, <1>4, <1>5, <1>6, <1>7, <1>8 DEF Trainer

-----------------------------------------------------------------------------
(* staleness_samples is exact: step by step.                               *)

\* A sample that is being put finds room.
LEMMA RoomToPut ==
  ASSUME Known, Synchronous, ExactInv, ~Over, NEW s \in Samples,
         task[s] \notin {"none", "ack"}
  PROVE  /\ Len(mq) < MaxRequired /\ Unanswered >= 1
         /\ Spent < PerVersion /\ ~Syncing /\ ~Halted
<1>1. s \in Asked
  BY DEF Asked
<1>2. Unanswered \in Nat /\ Unanswered # 0
  BY <1>1, AskedTypes DEF Known
<1>3. staleness = Charge /\ staleness <= MaxRequired /\ MaxRequired = PerVersion
  BY DEF ExactInv, Synchronous, PerVersion
<1>4. Len(mq) < MaxRequired /\ Spent < PerVersion
  BY <1>2, <1>3, ChargeTypes DEF Charge
<1> QED
  BY <1>1, <1>2, <1>4, ChargeTypes DEF Spent, ExactInv

\* What leaves the tasks is in the queue or counted as failed.
LEMMA TaskCount ==
  ASSUME TypeOK, NEW s \in Samples, Task(s) \/ Server(s) \/ MQPut(s),
         ~TaskCancelled(s), MQPut(s) => Len(mq) < MaxRequired
  PROVE  /\ Unanswered' + Len(mq') + failed' = Unanswered + Len(mq) + failed
         /\ Len(mq') >= Len(mq)
<1>1. Unanswered \in Nat /\ Len(mq) \in Nat /\ failed \in Nat
  BY AskedTypes, LenProperties DEF TypeOK
<1>2. CASE Task(s)
  <2>1. UNCHANGED mq
    BY <1>2 DEF Task, TaskStored, TaskAcked, TaskCancelled, TaskFailed, mqVars
  <2>2. CASE TaskStored(s)
    <3>1. task[s] = "ok" /\ task' = [task EXCEPT ![s] = "put"] /\ failed' = failed
      BY <2>2 DEF TaskStored
    <3>2. Unanswered' = Unanswered + One("put" \notin {"none", "ack"})
                          - One(task[s] \notin {"none", "ack"})
      BY <3>1, AskedStep DEF TaskPcs
    <3> QED
      BY <1>1, <2>1, <3>1, <3>2 DEF One
  <2>3. CASE TaskAcked(s)
    <3>1. task[s] = "ack" /\ task' = [task EXCEPT ![s] = "none"] /\ failed' = failed
      BY <2>3 DEF TaskAcked
    <3>2. Unanswered' = Unanswered + One("none" \notin {"none", "ack"})
                          - One(task[s] \notin {"none", "ack"})
      BY <3>1, AskedStep DEF TaskPcs
    <3> QED
      BY <1>1, <2>1, <3>1, <3>2 DEF One
  <2>4. CASE TaskFailed(s)
    <3>1. task[s] = "err" /\ task' = [task EXCEPT ![s] = "none"] /\ failed' = failed + 1
      BY <2>4 DEF TaskFailed
    <3>2. Unanswered' = Unanswered + One("none" \notin {"none", "ack"})
                          - One(task[s] \notin {"none", "ack"})
      BY <3>1, AskedStep DEF TaskPcs
    <3> QED
      BY <1>1, <2>1, <3>1, <3>2 DEF One
  <2> QED
    BY <1>2, <2>2, <2>3, <2>4 DEF Task
<1>3. CASE Server(s)
  <2>1. UNCHANGED <<mq, failed>>
    BY <1>3
       DEF Server, ServerAccept, ServerFinish, ServerRefuse, ServerFail,
           serverFrame, mqVars
  <2>2. PICK p \in TaskPcs : /\ p \notin {"none", "ack"}
                             /\ task[s] \notin {"none", "ack"}
                             /\ task' = [task EXCEPT ![s] = p]
    BY <1>3
       DEF Server, ServerAccept, ServerFinish, ServerRefuse, ServerFail, TaskPcs
  <2>3. Unanswered' = Unanswered + One(p \notin {"none", "ack"})
                        - One(task[s] \notin {"none", "ack"})
    BY <2>2, AskedStep
  <2> QED
    BY <1>1, <2>1, <2>2, <2>3 DEF One
<1>4. CASE MQPut(s)
  <2>1. task[s] = "put" /\ task' = [task EXCEPT ![s] = "ack"] /\ failed' = failed
    BY <1>4 DEF MQPut, mqFrame
  <2>2. Unanswered' = Unanswered + One("ack" \notin {"none", "ack"})
                        - One(task[s] \notin {"none", "ack"})
    BY <2>1, AskedStep DEF TaskPcs
  <2>3. Len(mq') = IF Len(mq) >= MaxRequired THEN Len(mq) ELSE Len(mq) + 1
    BY <1>4, PutElements DEF MQPut
  <2>4. Len(mq') = Len(mq) + 1
    BY <1>1, <1>4, <2>3, ConstantsAssumption
  <2> QED
    BY <1>1, <2>1, <2>2, <2>4 DEF One
<1> QED
  BY <1>2, <1>3, <1>4

\* The processor takes a sample, or the end signal, and submits the sample.
LEMMA HandCount ==
  ASSUME TypeOK, TypeOK', HandInv, SampleAccounting, cancelQ = <<>>, Processor
  PROVE  /\ ProcTake \/ ProcGet =>
              /\ TakePending /\ Unanswered' = Unanswered
              /\ One(hand # DONE) = 0 /\ One(EndTaken) = 0
              /\ One(hand # DONE)' + One(EndTaken)' = 1
         /\ ProcSubmit =>
              /\ Unanswered' + One(hand # DONE)' = Unanswered + One(hand # DONE)
              /\ UNCHANGED staleness
              /\ One(EndTaken) = 0 /\ One(EndTaken)' = 0
         /\ ~ProcTake /\ ~ProcGet /\ ~ProcSubmit =>
              /\ Unanswered' = Unanswered /\ One(hand # DONE)' = One(hand # DONE)
              /\ UNCHANGED staleness
<1>1. CASE ProcTake \/ ProcGet
  <2>1. TakePending
    BY <1>1 DEF ProcTake, ProcGet
  <2>2. UNCHANGED task /\ proc \in {"top", "get"}
    BY <1>1 DEF ProcTake, ProcGet, taskVars
  <2>3. Unanswered' = Unanswered
    BY <2>2 DEF Unanswered, Asked
  <2>4. One(hand # DONE) = 0 /\ One(EndTaken) = 0
    BY <2>2 DEF HandInv, EndTaken, One
  <2>5. One(hand # DONE)' + One(EndTaken)' = 1
    BY <2>1 DEF TakePending, EndTaken, One
  <2>6. ~ProcSubmit
    BY <2>2 DEF ProcSubmit
  <2> QED
    BY <1>1, <2>1, <2>3, <2>4, <2>5, <2>6
<1>2. CASE ProcSubmit
  <2>1. UNCHANGED staleness /\ One(EndTaken) = 0 /\ One(EndTaken)' = 0
    BY <1>2 DEF ProcSubmit, EndTaken, One
  <2>2. Unanswered' + One(hand # DONE)' = Unanswered + One(hand # DONE)
    <3>1. CASE paused
      <4>1. UNCHANGED <<hand, task>>
        BY <1>2, <3>1 DEF ProcSubmit
      <4> QED
        BY <4>1 DEF Unanswered, Asked
    <3>2. CASE ~paused
      <4>1. hand \in Samples /\ hand' = DONE /\ task' = [task EXCEPT ![hand] = "new"]
        BY <1>2, <3>2 DEF ProcSubmit, HandInv, TypeOK
      <4>2. task[hand] \in {"none", "ack"}
        <5>1. /\ Count(hand, pending) \in Nat /\ Count(hand, cancelQ) \in Nat
              /\ Count(hand, mq) \in Nat /\ Count(hand, batch) \in Nat
          BY <4>1, CopiesTypes
        <5>2. Copies(hand) = One(hand < feedNext)
          BY <4>1 DEF SampleAccounting
        <5>3. One(hand < feedNext) <= 1 /\ One(hand = hand) = 1
          BY DEF One
        <5>4. One(task[hand] \notin {"none", "ack"}) = 0
          BY SMTT(30), <5>1, <5>2, <5>3 DEF Copies, One
        <5> QED
          BY <5>4 DEF One
      <4>3. Unanswered' = Unanswered + One("new" \notin {"none", "ack"})
                            - One(task[hand] \notin {"none", "ack"})
        BY <4>1, AskedStep DEF TaskPcs
      <4>4. One("new" \notin {"none", "ack"}) = 1 /\ One(task[hand] \notin {"none", "ack"}) = 0
        BY <4>2 DEF One
      <4>5. One(hand # DONE) = 1 /\ One(hand # DONE)' = 0
        BY <1>2, <4>1 DEF One, HandInv, ProcSubmit
      <4> QED
        BY <4>3, <4>4, <4>5, AskedTypes
    <3> QED
      BY <3>1, <3>2
  <2>3. ~ProcTake /\ ~ProcGet
    BY <1>2 DEF ProcSubmit, ProcTake, ProcGet
  <2> QED
    BY <1>2, <2>1, <2>2, <2>3
<1>3. CASE ~ProcTake /\ ~ProcGet /\ ~ProcSubmit
  <2>1. UNCHANGED <<hand, task, staleness>>
    BY <1>3
       DEF Processor, ProcPause, ProcPauseSet, ProcStarve, ProcDrained,
           ProcDrainLock, ProcDrainEmpty, ProcDrainWake, ProcIdle, taskVars
  <2>2. Unanswered' = Unanswered /\ One(hand # DONE)' = One(hand # DONE)
    BY <2>1 DEF Unanswered, Asked
  <2> QED
    BY <1>3, <2>1, <2>2
<1> QED
  BY <1>1, <1>2, <1>3

LEMMA ChargeTask ==
  ASSUME Known, Known', Synchronous, ExactInv, CalmInv, ~Over,
         NEW s \in Samples, Task(s) \/ Server(s) \/ MQPut(s)
  PROVE  staleness' = Charge' /\ staleness' <= MaxRequired
<1>0. UNCHANGED <<hand, proc, reason, staleness, trn, updC, localStep, batch>>
  BY DEF Task, TaskStored, TaskAcked, TaskCancelled, TaskFailed, Server,
         ServerAccept, ServerFinish, ServerRefuse, ServerFail, serverFrame,
         taskFrame, MQPut, mqFrame, procVars, countVars, trnVars, rpcVars
<1>1. Spent' = Spent /\ EndTaken' = EndTaken /\ (hand # DONE)' = (hand # DONE)
  BY <1>0 DEF Spent, Syncing, Consumed, EndTaken, PerVersion
<1>2. /\ Unanswered \in Nat /\ Len(mq) \in Nat /\ Spent \in Nat /\ failed \in Nat
      /\ One(hand # DONE) \in {0, 1} /\ One(EndTaken) \in {0, 1}
  BY ChargeTypes
<1>3. /\ One(hand # DONE)' = One(hand # DONE) /\ One(EndTaken)' = One(EndTaken)
  BY <1>1 DEF One
<1>4. TypeOK /\ ~TaskCancelled(s)
  BY DEF Known, TaskCancelled, CalmInv, Uncut, Over
<1>5. MQPut(s) => Len(mq) < MaxRequired
  BY RoomToPut DEF MQPut
<1>9. Unanswered' + Len(mq') + failed' = Unanswered + Len(mq) + failed
  BY <1>4, <1>5, TaskCount
<1>10. staleness = Charge /\ staleness <= MaxRequired
  BY DEF ExactInv
<1>11. Unanswered' \in Nat /\ Len(mq') \in Nat /\ failed' \in Nat
  BY ChargeTypesNext
<1> QED
  <2>1. staleness' = staleness
    BY <1>0
  <2>2. Charge' = Unanswered' + One(hand # DONE) + Len(mq') + Spent + failed'
                    + One(EndTaken)
    BY <1>1, <1>3 DEF Charge
  <2>3. PICK u \in Nat, l \in Nat, f \in Nat, x \in Nat, y \in Nat, z \in Nat :
          /\ u = Unanswered /\ l = Len(mq) /\ f = failed
          /\ x = One(hand # DONE) /\ y = Spent /\ z = One(EndTaken)
    BY <1>2
  <2>4. PICK v \in Nat, m \in Nat, g \in Nat :
          v = Unanswered' /\ m = Len(mq') /\ g = failed'
    BY <1>11
  <2>5. v + m + g = u + l + f
    BY <1>9, <2>3, <2>4
  <2>6. v + x + m + y + g + z = u + x + l + y + f + z
    BY <2>5
  <2>7. Charge' = Charge
    BY <2>2, <2>3, <2>4, <2>6 DEF Charge
  <2> QED
    BY <1>10, <2>1, <2>7

LEMMA ChargeProcessor ==
  ASSUME Known, Known', Synchronous, ExactInv, CalmInv, ~Over, Processor, ~Over'
  PROVE  staleness' = Charge' /\ staleness' <= MaxRequired
<1>0. UNCHANGED <<mq, trn, updC, localStep, batch>>
  BY DEF Processor, ProcPause, ProcPauseSet, ProcTake, ProcStarve, ProcGet,
         ProcDrained, ProcDrainLock, ProcDrainEmpty, ProcDrainWake, ProcIdle,
         ProcSubmit, procFrame, mqVars, trnVars, rpcVars
<1>1. Spent' = Spent
  BY <1>0 DEF Spent, Syncing, Consumed, PerVersion
<1>2. /\ Unanswered \in Nat /\ Len(mq) \in Nat /\ Spent \in Nat /\ failed \in Nat
      /\ staleness \in Nat /\ MaxRequired \in Nat
      /\ One(hand # DONE) \in {0, 1} /\ One(EndTaken) \in {0, 1}
  BY ChargeTypes
<1>3. staleness = Charge /\ staleness <= MaxRequired
  BY DEF ExactInv
<1>4. TypeOK /\ HandInv
  BY DEF Known
<1>h. SampleAccounting /\ TypeOK' /\ cancelQ = <<>>
  BY DEF Known, CalmInv, Uncut, Over
<1>5. CASE ProcTake \/ ProcGet
  <2>1. /\ TakePending /\ Unanswered' = Unanswered
        /\ One(hand # DONE) = 0 /\ One(EndTaken) = 0
        /\ One(hand # DONE)' + One(EndTaken)' = 1
    BY <1>4, <1>5, <1>h, HandCount
  <2>2. staleness < MaxRequired
    BY <1>2, <1>5 DEF ProcTake, ProcGet, ShouldPause, ExactInv
  <2>3. UNCHANGED failed
    BY <1>5 DEF ProcTake, ProcGet, taskVars
  <2>4. One(hand # DONE)' \in Nat /\ One(EndTaken)' \in Nat
    BY DEF One
  <2>5. staleness' = staleness + 1
    BY <2>1 DEF TakePending
  <2>6. mq' = mq /\ Charge' = Unanswered' + One(hand # DONE)' + Len(mq') + Spent'
                                + failed' + One(EndTaken)'
    BY <1>0 DEF Charge
  <2>7. Charge' = Charge + 1
    BY <1>1, <1>2, <2>1, <2>3, <2>4, <2>6 DEF Charge
  <2> QED
    BY <1>2, <1>3, <2>2, <2>5, <2>7
<1>6. CASE ProcSubmit
  <2>1. /\ Unanswered' + One(hand # DONE)' = Unanswered + One(hand # DONE)
        /\ UNCHANGED staleness /\ One(EndTaken) = 0 /\ One(EndTaken)' = 0
    BY <1>4, <1>6, <1>h, HandCount
  <2>2. UNCHANGED failed
    BY <1>6 DEF ProcSubmit
  <2>3. Unanswered' \in Nat /\ One(hand # DONE)' \in Nat
    BY ChargeTypesNext DEF One
  <2> QED
    BY <1>0, <1>1, <1>2, <1>3, <2>1, <2>2, <2>3 DEF Charge
<1>7. CASE ~ProcTake /\ ~ProcGet /\ ~ProcSubmit
  <2>2. /\ Unanswered' = Unanswered /\ One(hand # DONE)' = One(hand # DONE)
        /\ UNCHANGED staleness
    BY <1>4, <1>7, <1>h, HandCount
  <2>3. failed' = failed
    <3>1. CASE ProcDrainWake
      BY <1>2, <3>1 DEF ProcDrainWake, Over
    <3>2. CASE ~ProcDrainWake
      BY <1>7, <3>2
         DEF Processor, ProcPause, ProcPauseSet, ProcStarve, ProcDrained,
             ProcDrainLock, ProcDrainEmpty, ProcIdle, taskVars
    <3> QED
      BY <3>1, <3>2
  <2>4. EndTaken' <=> EndTaken
    <3>1. CASE ProcDrained
      <4>1. reason # "done" /\ reason' = reason
        BY <3>1 DEF ProcDrained, Over
      <4> QED
        BY <4>1 DEF EndTaken
    <3>2. CASE ProcDrainWake \/ ProcDrainEmpty
      BY <3>2 DEF ProcDrainWake, ProcDrainEmpty, EndTaken, Over
    <3>3. CASE ProcPause \/ ProcPauseSet \/ ProcStarve \/ ProcDrainLock \/ ProcIdle
      BY <3>3
         DEF ProcPause, ProcPauseSet, ProcStarve, ProcDrainLock, ProcIdle, EndTaken
    <3> QED
      BY <1>7, <3>1, <3>2, <3>3 DEF Processor
  <2>5. One(EndTaken)' = One(EndTaken)
    BY <2>4 DEF One
  <2> QED
    BY <1>0, <1>1, <1>2, <1>3, <2>2, <2>3, <2>5 DEF Charge
<1> QED
  BY <1>5, <1>6, <1>7

LEMMA ChargeOther ==
  ASSUME Known, Known', Synchronous, ExactInv, ~Over', [Next]_vars, ~Processor,
         \A s \in Samples : ~Task(s) /\ ~Server(s) /\ ~MQPut(s)
  PROVE  staleness' = Charge' /\ staleness' <= MaxRequired
<1>1. ~Over /\ ~MQPutEnd
  BY BeforeOver
<1>2. /\ Unanswered \in Nat /\ Len(mq) \in Nat /\ Spent \in Nat /\ failed \in Nat
      /\ staleness \in Nat /\ MaxRequired \in Nat
      /\ One(hand # DONE) \in {0, 1} /\ One(EndTaken) \in {0, 1}
  BY ChargeTypes
<1>3. staleness = Charge /\ staleness <= MaxRequired
  BY <1>1 DEF ExactInv
<1>4. Unanswered' = Unanswered
  <2>1. UNCHANGED task
    BY TaskFrame DEF Processor, Known
  <2> QED
    BY <2>1 DEF Unanswered, Asked
<1>5. One(hand # DONE)' = One(hand # DONE) /\ One(EndTaken)' = One(EndTaken)
  <2>1. UNCHANGED hand /\ (EndTaken' <=> EndTaken)
    BY ProcessorFrame DEF EndTaken
  <2> QED
    BY <2>1 DEF One
<1>6. failed' = failed
  <2>1. CASE PauseGather
    <3>1. Spent = PerVersion
      BY <2>1 DEF PauseGather, Known, SyncInv, Spent, Syncing
    <3> QED
      BY <1>1, <2>1, <3>1, Full DEF PauseGather
  <2>2. CASE ~PauseGather
    BY <2>2, ActiveFrame DEF Task, Processor
  <2> QED
    BY <2>1, <2>2
<1>7. CASE UpdCount
  <2>1. Spent = PerVersion /\ Spent' = 0
    BY <1>7, SpentStep
  <2>2. staleness' = updBase + Len(mq) /\ updBase = 0 /\ mq' = mq
    BY <1>1, <1>7 DEF UpdCount, ExactInv, rpcFrame
  <2>3. /\ mq = <<>> /\ Len(mq) = 0 /\ One(hand # DONE) = 0 /\ One(EndTaken) = 0
        /\ failed = 0 /\ Unanswered = 0
    BY <1>1, <2>1, Full, AskedTypes, EmptySeq DEF One, Known
  <2> QED
    BY <1>2, <1>4, <1>5, <1>6, <2>1, <2>2, <2>3 DEF Charge
<1>8. CASE GetSample
  <2>1. staleness' = staleness
    BY <1>8 DEF GetSample, trnFrame, countVars
  <2>2. Spent' = Spent + 1 /\ Len(mq') = Len(mq) - 1
    BY <1>8, SpentStep
  <2> QED
    BY SMTT(30), <1>2, <1>3, <1>4, <1>5, <1>6, <2>1, <2>2 DEF Charge
<1>9. CASE ~UpdCount /\ ~GetSample
  <2>1. Spent' = Spent
    BY <1>9, SpentStep
  <2>2. staleness' = staleness
    BY <1>9, StalenessFrame DEF Processor
  <2>3. mq' = mq
    BY <1>1, <1>9, QueueFrame
  <2> QED
    BY <1>2, <1>3, <1>4, <1>5, <1>6, <2>1, <2>2, <2>3 DEF Charge
<1> QED
  BY <1>7, <1>8, <1>9

LEMMA ChargeStep ==
  ASSUME Known, Known', Synchronous, ExactInv, CalmInv, ~Over', [Next]_vars
  PROVE  staleness' = Charge' /\ staleness' <= MaxRequired
<1>1. ~Over
  BY BeforeOver
<1> QED
  BY <1>1, ChargeTask, ChargeProcessor, ChargeOther

-----------------------------------------------------------------------------
(* What a step can do to the state a synchronisation halts.                *)

LEMMA HaltedFrame ==
  ASSUME SyncInv, [Next]_vars
  PROVE  /\ Halted' => Halted \/ PauseEnter
         /\ Emptied' => Emptied \/ PauseGather
         /\ (ResEnter \/ ResExit) /\ resC' = "none" => ~Halted'
<1> USE DEF Halted, Emptied
<1>1. CASE ~Rpc /\ ~Trainer
  BY <1>1, SyncFrame DEF syncVars, Rpc
<1>2. CASE PauseEnter \/ PauseCancel \/ PauseGather \/ PauseExit
  BY <1>2
     DEF PauseEnter, PauseCancel, PauseGather, PauseExit, ResEnter, ResExit,
         rpcFrame, trnVars, SyncInv
<1>3. CASE UpdEnter \/ UpdCount \/ UpdExit
  BY <1>3
     DEF UpdEnter, UpdCount, UpdExit, ResEnter, ResExit, rpcFrame, trnVars,
         SyncInv, resFrame, Unpause
<1>4. CASE ResEnter \/ ResServers \/ ResExit
  BY <1>4
     DEF ResEnter, ResServers, ResExit, Unpause, resFrame, trnVars, SyncInv
<1>5. CASE Trainer
  <2>1. CASE GetSample \/ Train \/ LogValidation \/ Final \/ CloseWait
    BY <2>1
       DEF GetSample, Train, NextVersion, LogValidation, Final, CloseWait,
           ResEnter, ResExit, resFrame, trnVars
  <2>2. CASE SyncStart \/ SyncPaused \/ SyncTransfer
    BY <2>2
       DEF SyncStart, SyncPaused, SyncTransfer, SyncInv, ResEnter, ResExit,
           resFrame, trnVars
  <2> QED
    BY <1>5, <2>1, <2>2 DEF Trainer
<1> QED
  BY <1>1, <1>2, <1>3, <1>4, <1>5 DEF Rpc

\* Only the monitor and the end of resume() clear `paused'.
LEMMA PausedFrame ==
  ASSUME [Next]_vars, paused
  PROVE  \/ paused'
         \/ MonResume
         \/ (ResEnter \/ ResExit) /\ resC' = "none"
<1> USE DEF flagVars
<1>1. ASSUME NEW c \in Coroutines, AwaitLock(c) PROVE UNCHANGED paused
  BY <1>1 DEF AwaitLock
<1>2. CASE FeedPut \/ MainStop \/ MQPutEnd
  BY <1>2 DEF FeedPut, MainStop, MQPutEnd, mqFrame
<1>3. CASE Processor
  BY <1>3
     DEF Processor, ProcPause, ProcPauseSet, ProcTake, ProcStarve, ProcGet,
         ProcDrained, ProcDrainLock, ProcDrainEmpty, ProcDrainWake, ProcIdle,
         ProcSubmit
<1>4. ASSUME NEW s \in Samples, Task(s) \/ Server(s) \/ MQPut(s)
      PROVE  UNCHANGED paused
  BY <1>4
     DEF Task, TaskStored, TaskAcked, TaskCancelled, TaskFailed, Server,
         ServerAccept, ServerFinish, ServerRefuse, ServerFail, serverFrame,
         taskFrame, MQPut, mqFrame
<1>5. CASE PauseEnter \/ PauseCancel \/ PauseGather \/ PauseExit \/ UpdEnter
           \/ UpdCount \/ UpdExit \/ ResServers
  BY <1>5
     DEF PauseEnter, PauseCancel, PauseGather, PauseExit, UpdEnter, UpdCount,
         UpdExit, ResServers
<1>6. CASE ResEnter \/ ResExit
  BY <1>6 DEF ResEnter, ResExit, Unpause
<1>7. CASE MonCheck \/ MonWake \/ MonResume
  BY <1>7 DEF MonCheck, MonWake
<1>8. CASE Trainer
  BY <1>8
     DEF Trainer, GetSample, Train, SyncStart, SyncPaused, SyncTransfer,
         LogValidation, Final, CloseWait, trnFrame
<1>9. CASE UNCHANGED vars
  BY <1>9 DEF vars
<1> QED
  BY <1>1, <1>2, <1>3, <1>4, <1>5, <1>6, <1>7, <1>8, <1>9 DEF Next, Rpc, Monitor

LEMMA TakeFrame ==
  ASSUME [Next]_vars
  PROVE  /\ UNCHANGED hand \/ ProcTake \/ ProcGet \/ ProcSubmit
         /\ EndTaken' => EndTaken \/ ProcTake \/ ProcGet
<1>1. CASE ~Processor
  BY <1>1, ProcessorFrame DEF EndTaken
<1>2. CASE ProcPause \/ ProcPauseSet \/ ProcStarve \/ ProcIdle
  BY <1>2 DEF ProcPause, ProcPauseSet, ProcStarve, ProcIdle, EndTaken
<1>3. CASE ProcDrained \/ ProcDrainLock \/ ProcDrainEmpty \/ ProcDrainWake
  BY <1>3
     DEF ProcDrained, ProcDrainLock, ProcDrainEmpty, ProcDrainWake, EndTaken
<1>4. CASE ProcSubmit
  BY <1>4 DEF ProcSubmit, EndTaken
<1> QED
  BY <1>1, <1>2, <1>3, <1>4 DEF Processor

LEMMA ActiveEmptyNext ==
  TypeOK' => (ActiveLen = 0 <=> Live = {} /\ finished = 0 /\ failed = 0)'
<1>1. TypeOK => (ActiveLen = 0 <=> Live = {} /\ finished = 0 /\ failed = 0)
  BY ActiveEmpty
<1> QED
  BY <1>1, PTL

LEMMA ActiveZero ==
  ASSUME TypeOK, TypeOK', HandInv, [Next]_vars, ActiveLen' = 0
  PROVE  ActiveLen = 0 \/ ProcDrainWake \/ PauseGather
<1> SUFFICES ASSUME ~ProcDrainWake, ~PauseGather PROVE ActiveLen = 0
  OBVIOUS
<1>1. Live' = {} /\ finished' = 0 /\ failed' = 0
  BY ActiveEmptyNext
<1>2. \A s \in Samples : ~TaskAcked(s) /\ ~TaskCancelled(s) /\ ~TaskFailed(s)
  <2>1. finished \in Nat /\ failed \in Nat
    BY DEF TypeOK
  <2>2. finished' # finished + 1 /\ failed' # failed + 1
    BY <1>1, <2>1
  <2> QED
    BY <2>2 DEF TaskAcked, TaskCancelled, TaskFailed
<1>3. finished = 0 /\ failed = 0
  BY <1>1, <1>2, ActiveFrame
<1>4. \A s \in Samples : task'[s] = "none"
  BY <1>1 DEF Live
<1>5. UNCHANGED task
  <2>1. ~(ProcSubmit /\ ~paused)
    <3> SUFFICES ASSUME ProcSubmit, ~paused PROVE FALSE
      OBVIOUS
    <3>1. hand \in Samples /\ task' = [task EXCEPT ![hand] = "new"]
      BY DEF ProcSubmit, TypeOK, HandInv
    <3> QED
      BY <1>4, <3>1 DEF TypeOK
  <2>2. \A s \in Samples : ~(Task(s) \/ Server(s) \/ MQPut(s))
    BY <1>2, <1>4
       DEF Task, TaskStored, Server, ServerAccept, ServerFinish, ServerRefuse,
           ServerFail, MQPut, TypeOK
  <2> QED
    BY <2>1, <2>2, TaskFrame
<1>7. Live = {}
  BY <1>1, <1>5 DEF Live
<1> QED
  BY <1>3, <1>7, ActiveEmpty

-----------------------------------------------------------------------------
(* The monitor's resume and the pause of a synchronisation.                *)

\* Between its test and its resume the monitor runs or waits for the lock. In
\* the synchronous mode no synchronisation can be ahead of it there.
MonInv ==
  mon = "resume" =>
    /\ cpu = "mon" \/ InLockQ("mon")
    /\ ~Over => /\ ~Halted /\ Ahead
                /\ cpu = "mon" => staleness < MaxRequired

LEMMA CpuFrame ==
  ASSUME [Next]_vars
  PROVE  /\ cpu = "mon" => \/ UNCHANGED <<cpu, lockQ>> /\ ~PauseEnter
                           \/ AwaitLock("mon")
                           \/ Monitor
         /\ cpu = "mon" => UNCHANGED staleness
         /\ cpu' = "mon" => cpu = "mon" \/ MonWake \/ MonResume
         /\ mon' = "resume" => mon = "resume" \/ MonWake
<1> USE DEF Runs, Suspend, Continue, Idle, countVars
<1>0. cpu = "mon" => ~PauseEnter
  BY DEF PauseEnter, Enter
<1>1. ASSUME NEW c \in Coroutines, AwaitLock(c)
      PROVE  /\ cpu = "mon" => c = "mon"
             /\ cpu' # "mon" /\ UNCHANGED <<mon, staleness>>
  BY <1>1 DEF AwaitLock
<1>2. CASE FeedPut \/ MainStop
  BY <1>2 DEF FeedPut, MainStop, Enter
<1>3. CASE Processor
  BY <1>3
     DEF Processor, ProcPause, ProcPauseSet, ProcTake, ProcStarve, ProcGet,
         ProcDrained, ProcDrainLock, ProcDrainEmpty, ProcDrainWake, ProcIdle,
         ProcSubmit, procFrame, Enter
<1>4. ASSUME NEW s \in Samples, Task(s) \/ Server(s) \/ MQPut(s)
      PROVE  UNCHANGED <<cpu, lockQ, mon, staleness, pauseC>>
  BY <1>4
     DEF Task, TaskStored, TaskAcked, TaskCancelled, TaskFailed, Server,
         ServerAccept, ServerFinish, ServerRefuse, ServerFail, serverFrame,
         taskFrame, MQPut, mqFrame, rpcVars
<1>5. CASE MQPutEnd
  BY <1>0, <1>5 DEF MQPutEnd, mqFrame, countVars
<1>6. CASE PauseEnter \/ PauseGather \/ PauseExit \/ UpdEnter \/ UpdCount \/ UpdExit
  <2>1. cpu # "mon"
    BY <1>6
       DEF PauseEnter, PauseGather, PauseExit, UpdEnter, UpdCount, UpdExit, Enter
  <2>2. mon' = mon
    BY <1>6
       DEF PauseEnter, PauseGather, PauseExit, UpdEnter, UpdCount, UpdExit, rpcFrame
  <2>3. cpu' = cpu \/ cpu' = "idle"
    BY <1>6
       DEF PauseEnter, PauseGather, PauseExit, UpdEnter, UpdCount, UpdExit, loopVars
  <2> QED
    BY <2>1, <2>2, <2>3
<1>7. CASE PauseCancel \/ ResServers
  BY <1>7 DEF PauseCancel, ResServers, rpcFrame, resFrame, loopVars, PauseEnter
<1>8. CASE ResEnter \/ ResExit
  BY <1>8 DEF ResEnter, ResExit, Unpause, resFrame, Enter
<1>9. CASE Monitor
  BY <1>9 DEF Monitor, MonCheck, MonWake, MonResume, monFrame
<1>10. CASE Trainer
  <2>1. UNCHANGED <<loopVars, mon, countVars>>
    BY <1>10
       DEF Trainer, GetSample, Train, SyncStart, SyncPaused, SyncTransfer,
           LogValidation, Final, CloseWait, trnFrame
  <2>2. cpu = "mon" => ~PauseEnter
    BY DEF PauseEnter, Enter
  <2> QED
    BY <2>1, <2>2 DEF loopVars
<1>11. CASE UNCHANGED vars
  BY <1>11 DEF vars, loopVars, PauseEnter, Enter
<1> QED
  BY <1>1, <1>2, <1>3, <1>4, <1>5, <1>6, <1>7, <1>8, <1>9, <1>10, <1>11, <1>0
     DEF Next, Rpc

LEMMA MonStep ==
  ASSUME Known, Known', Synchronous, ExactInv, MonInv, [Next]_vars
  PROVE  MonInv'
<1>a. {"proc", "pause", "upd", "res", "mon", "main"} \subseteq Coroutines
  BY DEF Coroutines
<1>b. TypeOK /\ SyncInv /\ LockExclusion /\ LockInv /\ FlagInv /\ Once
  BY DEF Known, LockInv
\* Room left means that no version is being handed over.
<1>c. ASSUME ~Over', staleness < MaxRequired
      PROVE  ~Syncing /\ pauseC = "none" /\ trn # "transfer" /\ ~InLockQ("pause")
  <2>1. ~Over
    BY BeforeOver, <1>c
  <2>2. ~Syncing
    <3>1. staleness \in Nat /\ MaxRequired \in Nat
      BY ChargeTypes
    <3> QED
      BY <1>c, <2>1, <3>1, Full DEF Spent
  <2>3. pauseC = "none" /\ trn # "transfer"
    BY <1>b, <2>2 DEF Syncing, SyncInv
  <2> QED
    BY <1>b, <2>2, <2>3 DEF LockInv, Pausing
<1> SUFFICES ASSUME mon' = "resume"
             PROVE  /\ cpu' = "mon" \/ InLockQ("mon")'
                    /\ ~Over' => /\ ~Halted' /\ Ahead'
                                 /\ cpu' = "mon" => staleness' < MaxRequired
  BY DEF MonInv
<1>1. CASE MonWake
  <2>1. /\ cpu' = "mon" /\ trigger /\ ~(staleness >= MaxRequired)
        /\ UNCHANGED <<lockQ, pauseC, trn, resC, staleness>>
    BY <1>1
       DEF MonWake, Continue, ShouldPause, monFrame, countVars, rpcVars, trnVars
  <2>2. staleness < MaxRequired
    BY <2>1, ChargeTypes
  <2>3. ASSUME ~Over' PROVE ~Halted' /\ Ahead'
    <3>1. pauseC = "none" /\ trn # "transfer" /\ ~InLockQ("pause") /\ resC = "none"
      BY <1>b, <1>c, <2>1, <2>2, <2>3 DEF FlagInv
    <3> QED
      BY <2>1, <3>1 DEF Halted, Ahead, InLockQ
  <2> QED
    BY <2>1, <2>2, <2>3
<1>2. CASE ~MonWake
  <2>1. mon = "resume" /\ (cpu = "mon" \/ InLockQ("mon"))
    BY <1>2, CpuFrame DEF MonInv
  <2>2. ~MonCheck /\ ~MonResume
    BY <2>1 DEF MonCheck, MonResume
  <2>3. cpu' = "mon" \/ InLockQ("mon")'
    <3>1. CASE cpu = "mon"
      BY <1>2, <1>a, <1>b, <2>2, <3>1, CpuFrame, QueueAwait DEF Monitor
    <3>2. CASE InLockQ("mon")
      <4>1. CASE UNCHANGED lockQ
        BY <3>2, <4>1 DEF InLockQ
      <4>2. ASSUME NEW c \in Coroutines, AwaitLock(c) PROVE InLockQ("mon")'
        BY <1>a, <1>b, <3>2, <4>2, QueueAwait
      <4>3. CASE Hold("proc") \/ Hold("pause") \/ Hold("upd") \/ Hold("res")
        BY <1>a, <1>b, <3>2, <4>3, QueueHold
      <4>4. ASSUME NEW c \in Coroutines \ {"mon"}, Enter(c) \/ c \in Holders, Release
            PROVE  InLockQ("mon")'
        BY <1>a, <1>b, <3>2, <4>4, QueueRelease
      <4> QED
        BY <1>b, <2>2, <4>1, <4>2, <4>3, <4>4, LockSteps
    <3> QED
      BY <2>1, <3>1, <3>2
  <2>4. ASSUME ~Over' PROVE ~Halted' /\ Ahead' /\ (cpu' = "mon" => staleness' < MaxRequired)
    <3>1. ~Halted /\ Ahead /\ (cpu = "mon" => staleness < MaxRequired)
      BY <2>1, <2>4, BeforeOver DEF MonInv
    <3>2. ~PauseEnter
      <4> SUFFICES ASSUME PauseEnter, InLockQ("mon") PROVE FALSE
        BY <2>1 DEF PauseEnter, Enter, Runs, Idle
      <4>1. PICK j \in 1..Len(lockQ) : lockQ[j] = "mon"
        BY DEF InLockQ
      <4>2. lockQ \in Seq(Coroutines) /\ lockQ # <<>> /\ Len(lockQ) \in Nat
        BY <1>b, <4>1, EmptySeq, LenProperties DEF TypeOK
      <4>3. lockQ[1] = "pause"
        BY <4>2, HeadTailProperties DEF PauseEnter, Enter, Granted
      <4> QED
        BY <3>1, <4>1, <4>2, <4>3 DEF Ahead
    <3>3. ~Halted'
      BY <1>b, <3>1, <3>2, HaltedFrame
    <3>4. cpu' = "mon" => staleness' < MaxRequired
      BY <1>2, <2>2, <3>1, CpuFrame
    <3>5. Ahead'
      <4>1. CASE UNCHANGED lockQ
        BY <3>1, <4>1 DEF Ahead
      <4>2. ASSUME NEW c \in Coroutines, AwaitLock(c) PROVE Ahead'
        <5>1. c = "mon" => ~InLockQ("pause")
          BY <1>c, <2>1, <2>4, <3>1, <4>2 DEF AwaitLock
        <5> QED
          BY <1>b, <3>1, <4>2, <5>1, QueueAwait
      <4>3. CASE Hold("proc") \/ Hold("pause") \/ Hold("upd") \/ Hold("res")
        BY <1>a, <1>b, <3>1, <4>3, QueueHold
      <4>4. ASSUME NEW c \in Coroutines, Enter(c) \/ c \in Holders, Release
            PROVE  Ahead'
        BY <1>b, <3>1, <4>4, QueueRelease
      <4> QED
        BY <1>b, <4>1, <4>2, <4>3, <4>4, LockSteps
    <3> QED
      BY <3>3, <3>4, <3>5
  <2> QED
    BY <2>3, <2>4
<1> QED
  BY <1>1, <1>2

-----------------------------------------------------------------------------
(* The parts of ExactInv, step by step.                                    *)

\* A sample is cut only if a server refuses it.
LEMMA UncutStep ==
  ASSUME TypeOK, Uncut, [Next]_vars, \A s \in Samples : ~ServerRefuse(s)
  PROVE  Uncut'
<1>1. cancelQ = <<>> /\ \A s \in Samples : task[s] \notin {"ref", "mix", "cut"}
  BY DEF Uncut
<1>2. cancelQ' = cancelQ
  <2>1. CASE ~SampleStep
    BY <2>1, SampleFrame DEF sampleVars
  <2>2. CASE FeedPut \/ ProcGet \/ ProcSubmit \/ MQPutEnd \/ GetSample \/ Train
    BY <2>2
       DEF FeedPut, ProcGet, TakePending, ProcSubmit, MQPutEnd, mqFrame,
           GetSample, Train, trnFrame
  <2>3. CASE ProcTake
    BY <1>1, <2>3 DEF ProcTake, TakePending
  <2>4. ASSUME NEW s \in Samples, Task(s) \/ Server(s) \/ MQPut(s)
        PROVE  cancelQ' = cancelQ
    BY <1>1, <2>4
       DEF Task, TaskStored, TaskAcked, TaskCancelled, TaskFailed, Server,
           ServerAccept, ServerFinish, ServerRefuse, ServerFail, serverFrame,
           MQPut, mqFrame
  <2> QED
    BY <2>1, <2>2, <2>3, <2>4 DEF SampleStep
<1>3. ASSUME NEW s \in Samples, ~(task'[s] \notin {"ref", "mix", "cut"}) PROVE FALSE
  <2>1. CASE ProcSubmit /\ ~paused
    <3>1. task' = [task EXCEPT ![hand] = "new"] \/ UNCHANGED task
      BY <2>1 DEF ProcSubmit
    <3> QED
      BY <1>1, <1>3, <3>1 DEF TypeOK
  <2>2. ASSUME NEW t \in Samples, Task(t) \/ Server(t) \/ MQPut(t) PROVE FALSE
    <3>1. PICK p \in TaskPcs : /\ p \notin {"ref", "mix", "cut"}
                               /\ task' = [task EXCEPT ![t] = p]
      BY <1>1, <2>2
         DEF Task, TaskStored, TaskAcked, TaskCancelled, TaskFailed, Server,
             ServerAccept, ServerFinish, ServerFail, MQPut, TaskPcs
    <3> QED
      BY <1>1, <1>3, <3>1 DEF TypeOK
  <2> QED
    BY <1>1, <1>3, <2>1, <2>2, TaskFrame
<1> QED
  BY <1>1, <1>2, <1>3 DEF Uncut

\* No server may refuse a request while a sample awaits an answer.
LEMMA CalmStep ==
  ASSUME Known, Synchronous, ExactInv, CalmInv, [Next]_vars
  PROVE  CalmInv'
<1> SUFFICES ASSUME proc' # "crashed" PROVE Uncut'
  BY DEF CalmInv
<1>a. TypeOK
  BY DEF Known
<1>1. proc # "crashed"
  BY <1>a, OverFrame DEF Over
<1>2. Uncut
  BY <1>1 DEF CalmInv
<1>4. \A s \in Samples : ~ServerRefuse(s)
  <2> SUFFICES ASSUME NEW s \in Samples, ServerRefuse(s) PROVE FALSE
    OBVIOUS
  <2>1. task[s] \in {"new", "gen"} /\ MayRefuse
    BY DEF ServerRefuse
  <2>2. Halted
    BY <2>1 DEF MayRefuse, Halted, Known, FlagInv
  <2>3. proc # "exit"
    BY <2>1 DEF Known, EndInv, Live
  <2> QED
    BY <1>1, <2>1, <2>2, <2>3, RoomToPut DEF Over
<1> QED
  BY <1>2, <1>4, <1>a, UncutStep

LEMMA ExactGet ==
  ASSUME Known, Synchronous, ExactInv, [Next]_vars, ~Over', proc' = "get"
  PROVE  staleness' < MaxRequired
<1>1. ~Over /\ staleness \in Nat /\ MaxRequired \in Nat \ {0}
  BY BeforeOver, ChargeTypes
<1>2. CASE ProcStarve
  BY <1>1, <1>2 DEF ProcStarve, ShouldPause
<1>3. CASE ~ProcStarve
  <2>1. proc = "get" /\ staleness < MaxRequired
    BY <1>1, <1>3, StarveFrame DEF ExactInv, Known
  <2>2. CASE UpdCount
    <3>1. mq = <<>> /\ Len(mq) = 0 /\ updBase = 0
      BY <1>1, <2>2, SpentStep, Full, EmptySeq DEF UpdCount, ExactInv
    <3> QED
      BY <1>1, <2>2, <3>1 DEF UpdCount
  <2>3. ~(ProcTake /\ TakePending) /\ ~(ProcGet /\ TakePending)
    BY DEF TakePending
  <2> QED
    BY <2>1, <2>2, <2>3, StalenessFrame
<1> QED
  BY <1>2, <1>3

LEMMA ExactUpd ==
  ASSUME Known, Synchronous, ExactInv, [Next]_vars, ~Over',
         updC' \in {"start", "size"}
  PROVE  trn' \in {"log", "collect"} /\ batch' = <<>> /\ localStep' = 1
<1>1. ~Over /\ ~Ended
  BY BeforeOver
<1>2. CASE SyncTransfer
  BY <1>1, <1>2 DEF SyncTransfer, Known, BatchInv, Ended
<1>3. CASE ~SyncTransfer
  <2>1. updC \in {"start", "size"}
    BY <1>3, UpdFrame DEF UpdEnter, UpdCount, UpdExit
  <2>2. trn \in {"log", "collect"} /\ batch = <<>> /\ localStep = 1
    BY <1>1, <2>1 DEF ExactInv
  <2>3. mq = <<>>
    BY <1>1, <2>1, Full DEF Spent, Syncing
  <2>4. CASE Trainer
    BY <1>3, <2>2, <2>3, <2>4
       DEF Trainer, GetSample, Train, SyncStart, SyncPaused, LogValidation,
           Final, CloseWait
  <2>5. CASE ~Trainer
    BY <2>2, <2>5, TrainerFrame
  <2> QED
    BY <2>4, <2>5
<1> QED
  BY <1>2, <1>3

LEMMA ExactEmpty ==
  ASSUME Known, Synchronous, ExactInv, [Next]_vars, ~Over', Emptied'
  PROVE  finished' = 0 /\ Live' = {}
<1>1. ~Over /\ TypeOK /\ HandInv /\ SyncInv
  BY BeforeOver DEF Known
<1>2. CASE PauseGather
  BY <1>2 DEF PauseGather, rpcFrame, Live
<1>3. CASE Emptied
  <2>1. finished = 0 /\ Live = {}
    BY <1>1, <1>3 DEF ExactInv
  <2>2. Syncing
    BY <1>1, <1>3 DEF Emptied, SyncInv, Syncing
  <2>3. ~ProcSubmit
    BY <1>1, <2>2, Full DEF Spent, ProcSubmit, HandInv
  <2> QED
    BY <1>1, <2>1, <2>3, StaysEmpty
<1> QED
  BY <1>1, <1>2, <1>3, HaltedFrame

LEMMA ExactBase ==
  ASSUME Known, Synchronous, ExactInv, CalmInv, [Next]_vars, ~Over', updC' = "size"
  PROVE  updBase' = 0
<1>1. ~Over
  BY BeforeOver
<1>2. CASE UpdEnter
  <2>1. updC = "start" /\ updBase' = ActiveLen + Len(cancelQ)
    BY <1>2 DEF UpdEnter
  <2>2. finished = 0 /\ Live = {} /\ failed = 0
    BY <1>1, <2>1, Full DEF ExactInv, Emptied, Spent, Syncing
  <2>3. ActiveLen = 0
    BY <2>2, ActiveEmpty DEF Known
  <2>4. Len(cancelQ) = 0
    BY <1>1, EmptySeq DEF CalmInv, Uncut, Over
  <2> QED
    BY <2>1, <2>3, <2>4
<1>3. CASE ~UpdEnter
  BY <1>1, <1>3, UpdFrame, StalenessFrame
     DEF UpdCount, UpdExit, SyncTransfer, ExactInv
<1> QED
  BY <1>2, <1>3

LEMMA ExactHalted ==
  ASSUME Known, Synchronous, ExactInv, MonInv, [Next]_vars, ~Over', Halted'
  PROVE  paused' /\ proc' # "get" /\ hand' = DONE /\ Asked' = {} /\ ~EndTaken'
<1>1. ~Over /\ TypeOK /\ HandInv /\ SyncInv
  BY BeforeOver DEF Known
<1>2. CASE PauseEnter
  <2>1. Syncing
    BY <1>1, <1>2 DEF PauseEnter, SyncInv, Syncing
  <2>2. hand = DONE /\ Asked = {} /\ ~EndTaken /\ ~(staleness < MaxRequired)
    BY <1>1, <2>1, Full, ChargeTypes DEF Spent
  <2>3. proc # "get"
    BY <1>1, <2>2 DEF ExactInv
  <2>4. paused' /\ UNCHANGED <<proc, reason, hand, task>>
    BY <1>2 DEF PauseEnter, rpcFrame, procVars
  <2> QED
    BY <2>2, <2>3, <2>4 DEF Asked, EndTaken
<1>3. CASE Halted
  <2>1. paused /\ proc # "get" /\ hand = DONE /\ Asked = {} /\ ~EndTaken
    BY <1>1, <1>3 DEF ExactInv
  <2>2. paused'
    <3>1. ~MonResume
      BY <1>1, <1>3 DEF MonInv, MonResume
    <3> QED
      BY <1>1, <2>1, <3>1, PausedFrame, HaltedFrame
  <2>3. ~ProcTake /\ ~ProcGet /\ ~ProcSubmit /\ ~ProcStarve
    BY <1>1, <2>1 DEF ProcTake, ProcGet, ProcSubmit, ProcStarve, HandInv
  <2>4. proc' # "get" /\ hand' = DONE /\ ~EndTaken'
    BY <1>1, <2>1, <2>3, StarveFrame, TakeFrame
  <2>5. ASSUME NEW s \in Samples PROVE task'[s] \in {"none", "ack"}
    <3>1. \A t \in Samples : task[t] \in {"none", "ack"}
      BY <2>1 DEF Asked
    <3>2. ASSUME NEW t \in Samples, Task(t) \/ Server(t) \/ MQPut(t)
          PROVE  task' = [task EXCEPT ![t] = "none"]
      BY <3>1, <3>2
         DEF Task, TaskStored, TaskAcked, TaskCancelled, TaskFailed, Server,
             ServerAccept, ServerFinish, ServerRefuse, ServerFail, MQPut
    <3> QED
      BY <1>1, <2>3, <3>1, <3>2, TaskFrame DEF TypeOK
  <2> QED
    BY <2>2, <2>4, <2>5 DEF Asked
<1> QED
  BY <1>1, <1>2, <1>3, HaltedFrame

-----------------------------------------------------------------------------
\* The processor that waits for the lock in its drain went there with tasks
\* to wait for.
LEMMA ProcQueued ==
  ASSUME Known, [Next]_vars, proc' = "drain", InLockQ("proc")'
  PROVE  /\ proc = "drain" /\ ~Processor
         /\ InLockQ("proc") \/ AwaitLock("proc")
<1>a. TypeOK /\ LockExclusion /\ Once /\ (InLockQ("proc") => proc \in Places)
  BY DEF Known, LockInv
<1>b. {"proc", "pause", "upd", "res", "mon", "main"} \subseteq Coroutines
  BY DEF Coroutines
<1>1. ~(Release /\ (Enter("proc") \/ "proc" \in Holders))
  BY <1>a, <1>b, QueueRelease
<1>2. ~Processor
  <2>1. CASE ProcPauseSet
    BY <1>1, <2>1 DEF ProcPauseSet
  <2>2. CASE ProcTake \/ ProcGet
    <3>1. lockQ' = lockQ /\ proc \in {"top", "get"}
      BY <2>2 DEF ProcTake, ProcGet
    <3> QED
      BY <1>a, <3>1 DEF InLockQ, Places
  <2>3. CASE ProcDrainEmpty
    BY <1>1, <2>3 DEF ProcDrainEmpty, Enter
  <2>4. CASE ProcDrainWake
    <3>1. "proc" \in Holders
      BY <1>b, <2>4 DEF ProcDrainWake, Holders
    <3> QED
      BY <1>1, <2>4, <3>1 DEF ProcDrainWake
  <2>5. ~ProcPause /\ ~ProcStarve /\ ~ProcDrained /\ ~ProcDrainLock
        /\ ~ProcIdle /\ ~ProcSubmit
    BY <1>a DEF ProcPause, ProcStarve, ProcDrained, ProcDrainLock, ProcIdle,
                ProcSubmit, TypeOK
  <2> QED
    BY <2>1, <2>2, <2>3, <2>4, <2>5 DEF Processor
<1>3. proc = "drain"
  BY <1>2, ProcessorFrame
<1>4. InLockQ("proc") \/ AwaitLock("proc")
  <2>1. CASE UNCHANGED lockQ
    BY <2>1 DEF InLockQ
  <2>2. ASSUME NEW c \in Coroutines, AwaitLock(c)
        PROVE  InLockQ("proc") \/ AwaitLock("proc")
    BY <1>a, <1>b, <2>2, QueueAwait
  <2>3. CASE Hold("pause") \/ Hold("upd") \/ Hold("res")
    BY <1>a, <1>b, <2>3, QueueHold
  <2>4. ASSUME NEW c \in Coroutines \ {"proc"}, Enter(c) \/ c \in Holders, Release
        PROVE  InLockQ("proc")
    BY <1>a, <1>b, <2>4, QueueRelease
  <2>5. ~ProcDrainLock
    BY <1>2 DEF Processor
  <2> QED
    BY <1>2, <1>a, <2>1, <2>2, <2>3, <2>4, <2>5, LockSteps
<1> QED
  BY <1>2, <1>3, <1>4

\* What may make the drain find active_tasks empty.
LEMMA ExactDrain ==
  ASSUME Known, Known', Synchronous, ExactInv, [Next]_vars, ~Over',
         proc' = "drain", InLockQ("proc")', ActiveLen' = 0
  PROVE  mq' = <<>> /\ batch' = <<>>
<1>1. ~Over /\ ~MQPutEnd /\ TypeOK /\ TypeOK' /\ HandInv /\ SyncInv /\ BatchInv
  BY BeforeOver DEF Known
<1>2. proc = "drain" /\ ~Processor /\ (InLockQ("proc") \/ AwaitLock("proc"))
  BY ProcQueued
<1>3. CASE PauseGather
  <2>1. trn = "pausing" /\ UNCHANGED <<mq, batch>>
    BY <1>1, <1>3 DEF PauseGather, SyncInv, rpcFrame, trnVars
  <2> QED
    BY <1>1, <2>1, Full DEF Spent, Syncing, BatchInv
<1>4. CASE ~PauseGather
  <2>1. ActiveLen = 0 /\ Live = {}
    BY <1>1, <1>2, <1>4, ActiveZero, ActiveEmpty DEF Processor
  <2>2. ~AwaitLock("proc")
    <3>1. MaxConcurrent > 0 /\ MaxConcurrent \in Nat
      BY ConstantsAssumption
    <3>2. ~DrainTest
      BY <2>1, <3>1 DEF DrainTest
    <3> QED
      BY <1>2, <3>2 DEF AwaitLock, WantsLock
  <2>3. mq = <<>> /\ batch = <<>>
    BY <1>1, <1>2, <2>1, <2>2 DEF ExactInv
  <2>4. \A s \in Samples : ~MQPut(s)
    BY <2>1 DEF MQPut, Live
  <2>5. mq' = mq
    BY <1>1, <2>3, <2>4, QueueFrame DEF GetSample
  <2>6. batch' = <<>>
    <3>1. CASE Trainer
      BY <2>3, <3>1
         DEF Trainer, GetSample, Train, SyncStart, SyncPaused, SyncTransfer,
             LogValidation, Final, CloseWait
    <3>2. CASE ~Trainer
      BY <2>3, <3>2, TrainerFrame
    <3> QED
      BY <3>1, <3>2
  <2> QED
    BY <2>3, <2>5, <2>6
<1> QED
  BY <1>3, <1>4

\* The samples whose put_sample is answered and whose task is still there: they
\* are in the queue, or the Trainer has taken them for the coming version.
TakenLive == Acked \ Elements(mq)

LEMMA ExactAcked ==
  ASSUME Known, Known', Synchronous, ExactInv, [Next]_vars, ~Over'
  PROVE  Cardinality(TakenLive') <= Spent'
<1>0. ~Over /\ ~MQPutEnd /\ TypeOK /\ mq \in Seq(Samples \cup {DONE})
  BY BeforeOver DEF Known, TypeOK
<1>1. IsFiniteSet(TakenLive) /\ Cardinality(TakenLive) \in Nat
  BY <1>0, AskedTypes, FS_Difference, FS_CardinalityType DEF TakenLive
<1>2. Cardinality(TakenLive) <= Spent /\ Spent \in Nat
  BY <1>0, ChargeTypes DEF ExactInv, TakenLive
<1>3. \A s \in Samples : s \in Acked' => s \in Acked \/ MQPut(s)
  <2> SUFFICES ASSUME NEW s \in Samples, task'[s] = "ack", task[s] # "ack"
               PROVE  MQPut(s)
    BY DEF Acked
  <2>1. ~(ProcSubmit /\ ~paused)
    <3> SUFFICES ASSUME ProcSubmit, task' = [task EXCEPT ![hand] = "new"] PROVE FALSE
      BY DEF ProcSubmit
    <3> QED
      BY <1>0 DEF TypeOK
  <2>2. PICK t \in Samples : Task(t) \/ Server(t) \/ MQPut(t)
    BY <1>0, <2>1, TaskFrame
  <2>3. Task(t) \/ Server(t) => \E p \in TaskPcs \ {"ack"} : task' = [task EXCEPT ![t] = p]
    BY DEF Task, TaskStored, TaskAcked, TaskCancelled, TaskFailed, Server,
           ServerAccept, ServerFinish, ServerRefuse, ServerFail, TaskPcs
  <2>4. MQPut(t)
    BY <1>0, <2>2, <2>3 DEF TypeOK
  <2>5. task' = [task EXCEPT ![t] = "ack"]
    BY <2>4 DEF MQPut
  <2>6. s = t
    BY <1>0, <2>5 DEF TypeOK
  <2> QED
    BY <2>4, <2>6
<1>4. Acked' \subseteq Samples
  BY DEF Acked
<1>5. CASE UpdCount
  <2>1. Live = {} /\ UNCHANGED task
    BY <1>0, <1>5 DEF UpdCount, ExactInv, Emptied, rpcFrame
  <2>2. TakenLive' = {}
    BY <2>1 DEF TakenLive, Acked, Live
  <2>3. Spent' = 0
    BY <1>5, SpentStep
  <2> QED
    BY <2>2, <2>3, FS_EmptySet
<1>6. CASE GetSample
  <2>1. Spent' = Spent + 1 /\ Elements(mq) = Elements(mq') \cup {Head(mq)}
    BY <1>6, SpentStep
  <2>2. UNCHANGED task
    BY <1>6 DEF GetSample, trnFrame, taskVars
  <2>3. TakenLive' \subseteq TakenLive \cup {Head(mq)}
    BY <2>1, <2>2 DEF TakenLive, Acked, Elements
  <2>4. /\ IsFiniteSet(TakenLive \cup {Head(mq)})
        /\ Cardinality(TakenLive \cup {Head(mq)}) \in Nat
        /\ Cardinality(TakenLive \cup {Head(mq)}) <= Cardinality(TakenLive) + 1
    BY <1>1, FS_AddElement
  <2>5. /\ Cardinality(TakenLive') \in Nat
        /\ Cardinality(TakenLive') <= Cardinality(TakenLive \cup {Head(mq)})
    BY <2>3, <2>4, FS_Subset, FS_CardinalityType
  <2> QED
    BY <1>1, <1>2, <2>1, <2>4, <2>5
<1>7. CASE ~UpdCount /\ ~GetSample
  <2>1. Spent' = Spent
    BY <1>7, SpentStep
  <2>2. ASSUME NEW s \in Samples, MQPut(s) PROVE Elements(mq') = Elements(mq) \cup {s}
    <3>1. task[s] \notin {"none", "ack"} /\ PutSample(s)
      BY <2>2 DEF MQPut
    <3>2. Len(mq) < MaxRequired
      BY <1>0, <3>1, RoomToPut
    <3>3. ~(Len(mq) >= MaxRequired)
      BY <3>2, ChargeTypes
    <3> QED
      BY <1>0, <3>1, <3>3, PutElements
  <2>3. UNCHANGED mq \/ \E s \in Samples : MQPut(s)
    BY <1>0, <1>7, QueueFrame
  <2>4. Elements(mq) \subseteq Elements(mq')
    BY <2>2, <2>3 DEF Elements
  <2>5. \A s \in Samples : MQPut(s) => s \in Elements(mq')
    BY <2>2
  <2>6. TakenLive' \subseteq TakenLive
    <3>1. TakenLive' = Acked' \ Elements(mq')
      BY DEF TakenLive, Elements
    <3> QED
      BY <1>3, <1>4, <2>4, <2>5, <3>1 DEF TakenLive
  <2>7. Cardinality(TakenLive') <= Cardinality(TakenLive) /\ Cardinality(TakenLive') \in Nat
    BY <1>1, <2>6, FS_Subset, FS_CardinalityType
  <2> QED
    BY <1>1, <1>2, <2>1, <2>7
<1> QED
  BY <1>5, <1>6, <1>7

LEMMA ExactStep ==
  ASSUME Known, Known', Synchronous, ExactInv, CalmInv, MonInv, [Next]_vars
  PROVE  ExactInv'
<1> SUFFICES ASSUME ~Over' PROVE ExactInv'
  BY DEF ExactInv
<1>1. staleness' = Charge' /\ staleness' <= MaxRequired
  BY ChargeStep
<1>2. proc' = "get" => staleness' < MaxRequired
  BY ExactGet
<1>3. updC' \in {"start", "size"} =>
        trn' \in {"log", "collect"} /\ batch' = <<>> /\ localStep' = 1
  BY ExactUpd
<1>4. Emptied' => finished' = 0 /\ Live' = {}
  BY ExactEmpty
<1>5. updC' = "size" => updBase' = 0
  BY ExactBase
<1>6. Halted' => paused' /\ proc' # "get" /\ hand' = DONE /\ Asked' = {} /\ ~EndTaken'
  BY ExactHalted
<1>7. proc' = "drain" /\ InLockQ("proc")' /\ ActiveLen' = 0 => mq' = <<>> /\ batch' = <<>>
  BY ExactDrain
<1>8. Cardinality(TakenLive') <= Spent'
  BY ExactAcked
<1> QED
  BY <1>1, <1>2, <1>3, <1>4, <1>5, <1>6, <1>7, <1>8 DEF ExactInv, TakenLive

-----------------------------------------------------------------------------
LEMMA ExactInit ==
  ASSUME Init
  PROVE  ExactInv /\ CalmInv /\ MonInv
<1>1. Asked = {} /\ Acked = {}
  BY DEF Init, Asked, Acked
<1>2. /\ Cardinality({}) = 0 /\ Len(<<>>) = 0
      /\ Unanswered = 0
      /\ Cardinality(Acked \ Elements(mq)) = 0
  BY <1>1, FS_EmptySet, EmptySeq DEF Unanswered
<1>3. Spent = 0
  BY <1>2, ConstantsAssumption DEF Init, Spent, Syncing, Consumed
<1>4. One(hand # DONE) = 0 /\ One(EndTaken) = 0
  BY DEF Init, One, EndTaken
<1>5. Charge = 0
  BY <1>2, <1>3, <1>4 DEF Charge, Init
<1>6. MaxRequired \in Nat
  BY ConstantsAssumption
<1> QED
  BY <1>1, <1>2, <1>3, <1>5, <1>6
     DEF Init, ExactInv, CalmInv, Uncut, MonInv, Emptied, Halted

-----------------------------------------------------------------------------
\* What the synchronous mode keeps until the processor ends.
SyncMode == ExactInv /\ CalmInv /\ MonInv

LEMMA ExactOutstanding ==
  ASSUME Known, Synchronous, SyncMode, ~Over
  PROVE  Outstanding <= MaxRequired
<1>a. TypeOK /\ mq \in Seq(Samples \cup {DONE})
  BY DEF Known, TypeOK
<1>1. /\ IsFiniteSet(Asked) /\ IsFiniteSet(TakenLive) /\ IsFiniteSet(Elements(mq))
      /\ Cardinality(Elements(mq)) <= Len(mq)
  BY <1>a, AskedTypes, ElementsTypes, FS_Difference DEF TakenLive
<1> DEFINE Hand == IF hand # DONE THEN {hand} ELSE {}
<1>2. IsFiniteSet(Hand) /\ Cardinality(Hand) = One(hand # DONE)
  <2>1. CASE hand # DONE
    BY <2>1, FS_Singleton DEF One
  <2>2. CASE hand = DONE
    BY <2>2, FS_EmptySet DEF One
  <2> QED
    BY <2>1, <2>2
<1>3. OutSet \subseteq ((Asked \cup TakenLive) \cup Elements(mq)) \cup Hand
  <2>1. Elements(cancelQ) = {}
    <3>1. cancelQ = <<>>
      BY DEF SyncMode, CalmInv, Uncut, Over
    <3> QED
      BY <3>1, EmptySeq DEF Elements
  <2>2. \A s \in Samples : s # DONE
    BY <1>a, CopiesTypes
  <2> QED
    BY <2>1, <2>2 DEF OutSet, Live, Asked, TakenLive, Acked
<1> HIDE DEF Hand
<1>4. /\ IsFiniteSet(Asked \cup TakenLive)
      /\ IsFiniteSet((Asked \cup TakenLive) \cup Elements(mq))
      /\ IsFiniteSet(((Asked \cup TakenLive) \cup Elements(mq)) \cup Hand)
  BY <1>1, <1>2, FS_Union
<1>5. PICK u \in Nat, t \in Nat, e \in Nat, h \in Nat, a \in Nat, b \in Nat, c \in Nat :
        /\ u = Unanswered /\ t = Cardinality(TakenLive)
        /\ e = Cardinality(Elements(mq)) /\ h = Cardinality(Hand)
        /\ a = Cardinality(Asked \cup TakenLive)
        /\ b = Cardinality((Asked \cup TakenLive) \cup Elements(mq))
        /\ c = Cardinality(((Asked \cup TakenLive) \cup Elements(mq)) \cup Hand)
  BY <1>1, <1>2, <1>4, FS_CardinalityType DEF Unanswered
<1>6. a <= u + t /\ b <= a + e /\ c <= b + h
  <2>1. /\ Cardinality(Asked \cap TakenLive) \in Nat
        /\ Cardinality((Asked \cup TakenLive) \cap Elements(mq)) \in Nat
        /\ Cardinality(((Asked \cup TakenLive) \cup Elements(mq)) \cap Hand) \in Nat
    BY <1>1, <1>2, <1>4, FS_Intersection, FS_CardinalityType
  <2>2. a = u + t - Cardinality(Asked \cap TakenLive)
    BY <1>1, <1>5, FS_Union DEF Unanswered
  <2>3. b = a + e - Cardinality((Asked \cup TakenLive) \cap Elements(mq))
    BY <1>1, <1>4, <1>5, FS_Union
  <2>4. c = b + h - Cardinality(((Asked \cup TakenLive) \cup Elements(mq)) \cap Hand)
    BY <1>2, <1>4, <1>1, <1>5, FS_Union
  <2> QED
    BY <2>1, <2>2, <2>3, <2>4
<1>7. Outstanding = Cardinality(OutSet) /\ Outstanding \in Nat
  BY <1>a, OutTypes
<1>8. Outstanding <= c
  BY <1>3, <1>4, <1>5, <1>7, FS_Subset
<1>9. staleness = Charge /\ staleness <= MaxRequired /\ t <= Spent
  BY <1>5 DEF SyncMode, ExactInv, TakenLive
<1>10. PICK l \in Nat, p \in Nat, f \in Nat, y \in Nat, z \in Nat :
         l = Len(mq) /\ p = Spent /\ f = failed /\ y = One(EndTaken) /\ z = staleness
  BY ChargeTypes DEF One
<1>11. z = u + h + l + p + f + y
  BY <1>2, <1>5, <1>9, <1>10 DEF Charge
<1>12. MaxRequired \in Nat /\ z <= MaxRequired /\ t <= p /\ e <= l
  BY <1>1, <1>5, <1>9, <1>10, ConstantsAssumption
<1>13. c <= MaxRequired
  BY <1>6, <1>11, <1>12
<1> QED
  BY <1>7, <1>8, <1>12, <1>13

LEMMA ExactOutstandingNext ==
  (Known /\ Synchronous /\ SyncMode /\ ~Over => Outstanding <= MaxRequired)'
<1>1. Known /\ Synchronous /\ SyncMode /\ ~Over => Outstanding <= MaxRequired
  BY ExactOutstanding
<1> QED
  BY <1>1, PTL

LEMMA BoundStep ==
  ASSUME Known, Known', Synchronous, SyncMode', Outstanding <= MaxRequired,
         [Next]_vars
  PROVE  Outstanding' <= MaxRequired
<1>a. TypeOK /\ TypeOK'
  BY DEF Known
<1>1. CASE ~Over'
  <2>1. Synchronous'
    BY DEF Synchronous
  <2> QED
    BY <1>1, <2>1, ExactOutstandingNext
<1>2. CASE Over'
  <2>1. ~((ProcTake \/ ProcGet) /\ TakePending)
    BY <1>2 DEF TakePending, Over
  <2>2. Outstanding' <= Outstanding /\ Outstanding \in Nat /\ Outstanding' \in Nat
    BY <1>a, <2>1, OutShrinksCard, OutTypes, OutTypesNext
  <2> QED
    BY <2>2, ConstantsAssumption
<1> QED
  BY <1>1, <1>2

\* The Trainer that collects has taken less than one version.
LEMMA CollectRoom ==
  ASSUME TypeOK, BatchInv, trn = "collect"
  PROVE  Consumed < PerVersion
<1>1. /\ RequiredSamples \in Nat \ {0} /\ TriggerSteps \in Nat \ {0}
      /\ localStep \in 1..TriggerSteps /\ Len(batch) \in Nat
      /\ Len(batch) < RequiredSamples
  BY ConstantsAssumption, LenProperties DEF TypeOK, BatchInv
<1>2. (localStep - 1) * RequiredSamples <= (TriggerSteps - 1) * RequiredSamples
  BY <1>1
<1>3. (TriggerSteps - 1) * RequiredSamples + RequiredSamples = PerVersion
  BY <1>1 DEF PerVersion
<1>4. (localStep - 1) * RequiredSamples \in Nat /\ (TriggerSteps - 1) * RequiredSamples \in Nat
  BY <1>1
<1> QED
  BY <1>1, <1>2, <1>3, <1>4 DEF Consumed

\* The Trainer that waits with an empty queue has taken less than one version,
\* so staleness_samples, which is exact, leaves room.
LEMMA ExactNotStalled ==
  ASSUME Known, Synchronous, SyncMode
  PROVE  NeverStalled
<1> SUFFICES ASSUME Stalled PROVE FALSE
  BY DEF NeverStalled
<1>a. TypeOK /\ SyncInv /\ HandInv /\ BatchInv /\ IdleEmpty
  BY DEF Known
<1>1. ~Over /\ staleness = Charge /\ staleness >= MaxRequired
  BY DEF Stalled, Over, SyncMode, ExactInv
<1>2. hand = DONE /\ ~EndTaken /\ Live = {} /\ mq = <<>>
  BY <1>a DEF Stalled, HandInv, EndTaken
<1>3. failed = 0
  BY <1>a, ActiveEmpty DEF Stalled, IdleEmpty
<1>4. Asked = {}
  BY <1>2 DEF Asked, Live
<1>5. Unanswered = 0 /\ Len(mq) = 0 /\ One(hand # DONE) = 0 /\ One(EndTaken) = 0
  BY <1>2, <1>4, FS_EmptySet, EmptySeq DEF Unanswered, One
<1>6. Spent = Consumed
  BY DEF Stalled, Spent, Syncing
<1>7. Consumed < PerVersion
  BY <1>a, CollectRoom DEF Stalled
<1>8. staleness = Consumed
  BY <1>1, <1>3, <1>5, <1>6, ChargeTypes DEF Charge
<1>9. MaxRequired = PerVersion
  BY DEF Synchronous, PerVersion
<1> QED
  BY <1>1, <1>7, <1>8, <1>9, ChargeTypes

-----------------------------------------------------------------------------
(* The synchronous mode after the end of the processor.                    *)

\* What can still come to the Trainer: the samples that await an answer, those
\* in the queue, and the end signal.
Left == Unanswered + Len(mq) + One(main = "wait")

\* It fits into the queue and into the coming version, or nothing but the end
\* signal is left.
TermInv ==
  Over =>
    /\ Left <= MaxRequired
    /\ ~Ended =>
         \/ /\ trn \in {"collect", "train", "log"} /\ updC \in {"none", "putVal"}
            /\ Left + Consumed <= PerVersion
         \/ /\ Asked = {} /\ batch = <<>> /\ Elements(mq) \subseteq {DONE}
            /\ trn # "train"

LEMMA LeftTypes ==
  ASSUME Known
  PROVE  /\ Left \in Nat /\ Unanswered \in Nat /\ Len(mq) \in Nat
         /\ One(main = "wait") \in Nat
<1>1. Unanswered \in Nat /\ Len(mq) \in Nat
  BY ChargeTypes
<1>2. One(main = "wait") \in Nat
  BY DEF One
<1> QED
  BY <1>1, <1>2 DEF Left

LEMMA LeftTypesNext ==
  Known' => (/\ Left \in Nat /\ Unanswered \in Nat /\ Len(mq) \in Nat
             /\ One(main = "wait") \in Nat)'
<1>1. Known => /\ Left \in Nat /\ Unanswered \in Nat /\ Len(mq) \in Nat
               /\ One(main = "wait") \in Nat
  BY LeftTypes
<1> QED
  BY <1>1, PTL

LEMMA OverSteps ==
  ASSUME Over, [Next]_vars
  PROVE  ~Processor /\ UNCHANGED proc
<1>1. ~Processor
  BY DEF Over, Processor, ProcPause, ProcPauseSet, ProcTake, ProcStarve, ProcGet,
         ProcDrained, ProcDrainLock, ProcDrainEmpty, ProcDrainWake, ProcIdle,
         ProcSubmit
<1> QED
  BY <1>1, ProcessorFrame DEF Over

LEMMA LeftFrame ==
  ASSUME Known, Known', Over, [Next]_vars
  PROVE  /\ Asked' \subseteq Asked
         /\ Left' <= Left
         /\ GetSample => Left' = Left - 1
<1>a. TypeOK
  BY DEF Known
<1>b. /\ Unanswered \in Nat /\ Len(mq) \in Nat /\ One(main = "wait") \in Nat
      /\ Unanswered' \in Nat /\ Len(mq') \in Nat /\ One(main = "wait")' \in Nat
  BY LeftTypes, LeftTypesNext
<1>c. ~Processor
  BY OverSteps
<1>d. /\ Left = Unanswered + Len(mq) + One(main = "wait")
      /\ Left' = Unanswered' + Len(mq') + One(main = "wait")'
  BY DEF Left
<1>1. ASSUME NEW s \in Samples, MQPut(s)
      PROVE  Asked' \subseteq Asked /\ Left' <= Left /\ ~GetSample
  <2>1. /\ task[s] = "put" /\ PutSample(s) /\ task' = [task EXCEPT ![s] = "ack"]
        /\ main' = main
    BY <1>1 DEF MQPut
  <2>2. Unanswered' = Unanswered + One("ack" \notin {"none", "ack"})
                        - One(task[s] \notin {"none", "ack"})
    BY <1>a, <2>1, AskedStep DEF TaskPcs
  <2>3. Unanswered' = Unanswered - 1
    BY <1>b, <2>1, <2>2 DEF One
  <2>4. Len(mq') <= Len(mq) + 1 /\ Len(mq') >= Len(mq)
    <3>1. Len(mq') = IF Len(mq) >= MaxRequired THEN Len(mq) ELSE Len(mq) + 1
      BY <1>a, <2>1, PutElements
    <3> QED
      BY <1>b, <3>1
  <2>5. Asked' \subseteq Asked
    BY <1>a, <2>1 DEF Asked, TypeOK
  <2>6. One(main = "wait")' = One(main = "wait")
    BY <2>1 DEF One
  <2>7. ~GetSample
    <3> SUFFICES ASSUME GetSample PROVE FALSE
      OBVIOUS
    <3>1. mq # <<>> /\ mq' = Tail(mq)
      BY DEF GetSample
    <3>2. Len(mq') = Len(mq) - 1
      BY <1>a, <3>1, HeadTailProperties DEF TypeOK
    <3> QED
      BY <1>b, <2>4, <3>2
  <2> QED
    BY <1>b, <1>d, <2>3, <2>4, <2>5, <2>6, <2>7
<1>2. CASE MQPutEnd
  <2>1. main = "wait" /\ main' = "stop" /\ PutSample(DONE) /\ UNCHANGED <<task, trn>>
    BY <1>2 DEF MQPutEnd, mqFrame, trnVars
  <2>2. Unanswered' = Unanswered /\ Asked' = Asked
    BY <2>1 DEF Unanswered, Asked
  <2>3. Len(mq') = IF Len(mq) >= MaxRequired THEN Len(mq) ELSE Len(mq) + 1
    BY <1>a, <2>1, PutElements
  <2>4. One(main = "wait") = 1 /\ One(main = "wait")' = 0
    BY <2>1 DEF One
  <2>5. ~GetSample
    BY <2>1 DEF GetSample, trnFrame
  <2> QED
    BY <1>b, <1>d, <2>2, <2>3, <2>4, <2>5
<1>3. CASE GetSample
  <2>1. mq # <<>> /\ mq' = Tail(mq) /\ UNCHANGED <<main, task>>
    BY <1>3 DEF GetSample, trnFrame, taskVars
  <2>2. Len(mq') = Len(mq) - 1
    BY <1>a, <2>1, HeadTailProperties DEF TypeOK
  <2>3. Unanswered' = Unanswered /\ Asked' = Asked /\ One(main = "wait")' = One(main = "wait")
    BY <2>1 DEF Unanswered, Asked, One
  <2> QED
    BY <1>b, <1>d, <2>2, <2>3
<1>4. ASSUME ~GetSample, ~MQPutEnd, \A s \in Samples : ~MQPut(s)
      PROVE  Asked' \subseteq Asked /\ Left' <= Left
  <2>1. mq' = mq
    BY <1>4, QueueFrame
  <2>2. One(main = "wait")' = One(main = "wait")
    BY <1>4, MainFrame DEF One
  <2>3. Asked' \subseteq Asked
    <3>1. ASSUME NEW s \in Samples, Task(s) \/ Server(s) PROVE Asked' \subseteq Asked
      <4>1. PICK p \in TaskPcs : /\ p \notin {"none", "ack"} => task[s] \notin {"none", "ack"}
                                 /\ task' = [task EXCEPT ![s] = p]
        BY <3>1
           DEF Task, TaskStored, TaskAcked, TaskCancelled, TaskFailed, Server,
               ServerAccept, ServerFinish, ServerRefuse, ServerFail, TaskPcs
      <4> QED
        BY <1>a, <4>1 DEF Asked, TypeOK
    <3>2. UNCHANGED task \/ \E s \in Samples : Task(s) \/ Server(s)
      BY <1>4, <1>a, <1>c, TaskFrame DEF Processor
    <3>3. UNCHANGED task => Asked' \subseteq Asked
      BY DEF Asked
    <3> QED
      BY <3>1, <3>2, <3>3
  <2>4. Unanswered' <= Unanswered
    BY <1>a, <2>3, AskedTypes, FS_Subset DEF Unanswered
  <2> QED
    BY <1>b, <1>d, <2>1, <2>2, <2>3, <2>4
<1> QED
  BY <1>1, <1>2, <1>3, <1>4

-----------------------------------------------------------------------------
LEMMA ConsumedGet ==
  ASSUME TypeOK, GetSample, Head(mq) # DONE
  PROVE  /\ Consumed' = Consumed + 1 /\ trn' \in {"train", "collect"}
         /\ UNCHANGED updC
<1>1. mq # <<>> /\ mq \in Seq(Samples \cup {DONE}) /\ Head(mq) \in Samples
  <2>1. mq # <<>> /\ mq \in Seq(Samples \cup {DONE})
    BY DEF GetSample, TypeOK
  <2> QED
    BY <2>1, QueueTypes
<1>2. /\ batch' = Append(batch, Head(mq)) /\ localStep' = localStep
      /\ trn' \in {"train", "collect"} /\ UNCHANGED updC
  BY DEF GetSample
<1>3. Len(batch') = Len(batch) + 1 /\ Len(batch) \in Nat
  BY <1>1, <1>2, AppendProperties, LenProperties DEF TypeOK
<1>4. (localStep - 1) * RequiredSamples \in Nat
  BY ConstantsAssumption DEF TypeOK
<1> QED
  BY <1>2, <1>3, <1>4 DEF Consumed

\* The processor ends: each way out has charged one that never comes.
LEMMA TermEnter ==
  ASSUME Known, Synchronous, ExactInv, [Next]_vars, ~Over, Over'
  PROVE  TermInv'
<1>a. TypeOK /\ HandInv /\ SyncInv /\ BatchInv /\ EndInv
  BY DEF Known
<1>b. main = "wait" /\ ~Ended
  BY <1>a DEF EndInv
<1>c. Processor
  BY ProcessorFrame DEF Over
<1>d. /\ UNCHANGED <<main, mq, trn, updC, localStep, batch, closing>>
      /\ ProcDrained \/ ProcDrainWake \/ ProcDrainEmpty => UNCHANGED task
  BY <1>c
     DEF Processor, ProcPause, ProcPauseSet, ProcTake, ProcStarve, ProcGet,
         ProcDrained, ProcDrainLock, ProcDrainEmpty, ProcDrainWake, ProcIdle,
         ProcSubmit, procFrame, mqVars, trnVars, rpcVars, taskVars
<1>e. \/ ProcDrained /\ reason = "done"
      \/ ProcDrainWake /\ failed > 0
      \/ ProcDrainEmpty
  <2>1. ~ProcPause /\ ~ProcPauseSet /\ ~ProcStarve /\ ~ProcDrainLock /\ ~ProcIdle
    BY DEF ProcPause, ProcPauseSet, ProcStarve, ProcDrainLock, ProcIdle, Over
  <2>2. ~ProcTake /\ ~ProcGet /\ ~ProcSubmit
    BY DEF ProcTake, ProcGet, TakePending, TakeCancelled, ProcSubmit, Over
  <2>3. ProcDrained => reason = "done"
    BY <1>a DEF ProcDrained, Over, TypeOK
  <2>4. ProcDrainWake => failed > 0
    BY DEF ProcDrainWake, Over
  <2> QED
    BY <1>c, <2>1, <2>2, <2>3, <2>4 DEF Processor
<1>1. /\ Left' = Left /\ Asked' = Asked /\ Consumed' = Consumed /\ Elements(mq') = Elements(mq)
      /\ Left = Unanswered + Len(mq) + 1
  BY <1>b, <1>d, <1>e DEF Left, Unanswered, Asked, Consumed, Elements, One
<1>2. PICK u \in Nat, l \in Nat, p \in Nat, f \in Nat, h \in Nat, y \in Nat, z \in Nat :
        /\ u = Unanswered /\ l = Len(mq) /\ p = Spent /\ f = failed
        /\ h = One(hand # DONE) /\ y = One(EndTaken) /\ z = staleness
  BY ChargeTypes DEF One
<1>3. z = u + h + l + p + f + y /\ z <= MaxRequired /\ MaxRequired = PerVersion
  BY <1>2 DEF ExactInv, Charge, Synchronous, PerVersion
<1>4. ASSUME f + y >= 1 PROVE TermInv'
  <2>1. MaxRequired \in Nat /\ u + l + 1 + p <= MaxRequired
    BY SMTT(30), <1>2, <1>3, <1>4, ConstantsAssumption
  <2>2. p < PerVersion
    BY <1>2, <1>3, <2>1
  <2>3. ~Syncing /\ p = Consumed
    BY <1>2, <1>3, <2>1, <2>2 DEF Spent
  <2>4. trn \in {"collect", "train", "log"} /\ updC \in {"none", "putVal"}
    BY <1>a, <1>b, <2>3 DEF Syncing, Ended, TypeOK, TrainerPcs
  <2>5. Left <= MaxRequired /\ Left + Consumed <= PerVersion
    BY <1>1, <1>2, <1>3, <2>1, <2>3
  <2> QED
    BY <1>1, <1>d, <2>4, <2>5 DEF TermInv, PerVersion
<1>5. CASE ProcDrained /\ reason = "done"
  <2>1. y = 1
    BY <1>2, <1>5 DEF ProcDrained, EndTaken, One
  <2> QED
    BY <1>2, <1>4, <2>1
<1>6. CASE ProcDrainWake /\ failed > 0
  <2>1. f >= 1
    BY <1>2, <1>6
  <2> QED
    BY <1>2, <1>4, <2>1
<1>7. CASE ProcDrainEmpty
  <2>1. proc = "drain" /\ ActiveLen = 0 /\ lockQ # <<>> /\ Head(lockQ) = "proc"
    BY <1>7 DEF ProcDrainEmpty, Granted
  <2>2. InLockQ("proc")
    <3>1. lockQ \in Seq(Coroutines) /\ Len(lockQ) \in Nat
      BY <1>a, LenProperties DEF TypeOK
    <3>2. Len(lockQ) # 0 /\ lockQ[1] = "proc"
      BY <2>1, <3>1, HeadTailProperties, EmptySeq
    <3> QED
      BY <3>1, <3>2 DEF InLockQ
  <2>3. mq = <<>> /\ batch = <<>>
    BY <2>1, <2>2 DEF ExactInv
  <2>4. Asked = {} /\ Unanswered = 0
    BY <1>a, <2>1, ActiveEmpty, AskedTypes DEF Asked, Live
  <2>5. Len(mq) = 0 /\ Elements(mq) = {}
    BY <2>3, EmptySeq DEF Elements
  <2>6. trn # "train"
    BY <1>a, <2>3, EmptySeq, ConstantsAssumption DEF BatchInv
  <2>7. Left <= MaxRequired
    BY <1>1, <2>4, <2>5, ConstantsAssumption
  <2> QED
    BY <1>1, <1>d, <2>3, <2>4, <2>5, <2>6, <2>7 DEF TermInv
<1> QED
  BY <1>e, <1>5, <1>6, <1>7

LEMMA TermStay ==
  ASSUME Known, Known', Over, TermInv, [Next]_vars
  PROVE  TermInv'
<1>a. TypeOK /\ SyncInv /\ BatchInv /\ EndInv
  BY DEF Known
<1>b. MaxRequired \in Nat /\ PerVersion \in Nat /\ Consumed \in Nat
  BY ChargeTypes
<1>c. Left \in Nat /\ Left' \in Nat
  BY LeftTypes, LeftTypesNext
<1>1. Asked' \subseteq Asked /\ Left' <= Left /\ (GetSample => Left' = Left - 1)
  BY LeftFrame
<1>2. Left' <= MaxRequired
  BY <1>1, <1>b, <1>c DEF TermInv
<1> SUFFICES ASSUME ~Ended'
             PROVE  \/ /\ trn' \in {"collect", "train", "log"}
                       /\ updC' \in {"none", "putVal"}
                       /\ Left' + Consumed' <= PerVersion
                    \/ /\ Asked' = {} /\ batch' = <<>>
                       /\ Elements(mq') \subseteq {DONE} /\ trn' # "train"
  BY <1>2 DEF TermInv, PerVersion
<1>3. ~Ended
  BY <1>a, EndFrame
<1>d. Consumed' = Consumed /\ Left + Consumed <= PerVersion =>
        Left' + Consumed' <= PerVersion
  <2>1. PICK k \in Nat, m \in Nat, c \in Nat, v \in Nat :
          k = Left /\ m = Left' /\ c = Consumed /\ v = PerVersion
    BY <1>b, <1>c
  <2>2. m <= k
    BY <1>1, <2>1
  <2>3. k + c <= v => m + c <= v
    BY <2>2
  <2> QED
    BY <2>1, <2>3
<1>4. GetSample => Head(mq) # DONE
  BY <1>3 DEF GetSample, Ended
<1>5. ~Final /\ ~CloseWait
  BY <1>3 DEF Final, CloseWait, Ended
<1>6. CASE /\ trn \in {"collect", "train", "log"} /\ updC \in {"none", "putVal"}
           /\ Left + Consumed <= PerVersion
  <2>1. CASE GetSample
    BY <1>1, <1>4, <1>6, <1>a, <1>b, <1>c, <2>1, ConsumedGet
  <2>2. CASE Train
    <3>1. UNCHANGED <<updC, mq>> /\ batch' = <<>>
      BY <2>2 DEF Train
    <3>2. CASE Consumed' = Consumed /\ trn' = "log"
      BY <1>6, <1>d, <3>1, <3>2
    <3>3. CASE Consumed = PerVersion /\ trn' = "waitValid"
      <4>1. Left = 0
        BY <1>6, <1>b, <1>c, <3>3
      <4>2. Unanswered = 0 /\ Len(mq) = 0
        BY <4>1, LeftTypes DEF Left
      <4>3. Asked = {} /\ mq = <<>>
        BY <1>a, <4>2, AskedTypes, EmptySeq, LenProperties DEF TypeOK
      <4>4. Elements(mq') = {}
        BY <3>1, <4>3, EmptySeq DEF Elements
      <4> QED
        BY <1>1, <3>1, <3>3, <4>3, <4>4
    <3> QED
      BY <1>a, <2>2, <3>2, <3>3, ConsumedTrain
  <2>3. CASE LogValidation
    <3>1. UNCHANGED <<updC, batch, localStep>> /\ trn' = "collect"
      BY <2>3 DEF LogValidation
    <3>2. Consumed' = Consumed
      BY <3>1 DEF Consumed
    <3> QED
      BY <1>6, <1>d, <3>1, <3>2
  <2>4. CASE ~Trainer
    <3>1. UNCHANGED <<trn, batch, localStep>>
      BY <2>4, TrainerFrame
    <3>2. Consumed' = Consumed
      BY <3>1 DEF Consumed
    <3>3. updC' \in {"none", "putVal"}
      BY <1>6, <2>4, UpdFrame DEF UpdEnter, UpdCount, UpdExit, Trainer
    <3> QED
      BY <1>6, <1>d, <3>1, <3>2, <3>3
  <2>5. ~SyncStart /\ ~SyncPaused /\ ~SyncTransfer
    BY <1>6 DEF SyncStart, SyncPaused, SyncTransfer
  <2> QED
    BY <1>5, <2>1, <2>2, <2>3, <2>4, <2>5 DEF Trainer
<1>7. CASE /\ Asked = {} /\ batch = <<>> /\ Elements(mq) \subseteq {DONE}
           /\ trn # "train"
  <2>1. ~GetSample
    <3> SUFFICES ASSUME GetSample PROVE FALSE
      OBVIOUS
    <3>1. mq # <<>> /\ mq \in Seq(Samples \cup {DONE})
      BY <1>a DEF GetSample, TypeOK
    <3>2. Head(mq) \in Elements(mq)
      BY <3>1, ElementsTypes
    <3> QED
      BY <1>4, <1>7, <3>2
  <2>2. batch' = <<>> /\ trn' # "train"
    <3>1. CASE Trainer
      BY <1>7, <2>1, <3>1
         DEF Trainer, Train, NextVersion, SyncStart, SyncPaused, SyncTransfer,
             LogValidation, Final, CloseWait
    <3>2. CASE ~Trainer
      BY <1>7, <3>2, TrainerFrame
    <3> QED
      BY <3>1, <3>2
  <2>3. \A s \in Samples : ~MQPut(s)
    BY <1>7 DEF MQPut, Asked
  <2>4. Elements(mq') \subseteq {DONE}
    <3>1. CASE MQPutEnd
      BY <1>7, <1>a, <3>1, PutElements DEF MQPutEnd
    <3>2. CASE ~MQPutEnd
      <4>1. mq' = mq
        BY <2>1, <2>3, <3>2, QueueFrame
      <4> QED
        BY <1>7, <4>1 DEF Elements
    <3> QED
      BY <3>1, <3>2
  <2> QED
    BY <1>1, <1>7, <2>2, <2>4
<1> QED
  BY <1>3, <1>6, <1>7 DEF TermInv

-----------------------------------------------------------------------------
LEMMA TermStep ==
  ASSUME Known, Known', Synchronous, ExactInv, TermInv, [Next]_vars
  PROVE  TermInv'
<1>1. CASE Over
  BY <1>1, TermStay
<1>2. CASE ~Over /\ Over'
  BY <1>2, TermEnter
<1>3. CASE ~Over'
  BY <1>3 DEF TermInv
<1> QED
  BY <1>1, <1>2, <1>3

\* Before the end, what is stored and not yet trained on has the version that
\* the Trainer makes the next one of.
TagInv ==
  ~Ended =>
    \A s \in Samples :
      task[s] = "put" \/ s \in Elements(mq) \/ s \in Elements(batch) =>
        tag[s] = tver

LEMMA TagStep ==
  ASSUME Known, Known', Synchronous, ExactInv, TermInv, TagInv, [Next]_vars
  PROVE  TagInv'
<1>a. TypeOK /\ SyncInv /\ BatchInv /\ EndInv
  BY DEF Known
<1> SUFFICES ASSUME ~Ended', NEW s \in Samples,
                    \/ task'[s] = "put"
                    \/ s \in Elements(mq')
                    \/ s \in Elements(batch')
             PROVE  tag'[s] = tver'
  BY DEF TagInv, Elements
<1>1. ~Ended /\ s # DONE
  BY <1>a, EndFrame, CopiesTypes
<1>2. ~Final /\ ~CloseWait
  BY <1>1 DEF Final, CloseWait, Ended
\* The version changes when nothing is left of it.
<1>3. tver' = tver
  <2>1. CASE Train
    <3> SUFFICES ASSUME Consumed = PerVersion, trn' = "waitValid" PROVE FALSE
      BY <1>a, <2>1, ConsumedTrain
    <3>1. trn = "train" /\ batch' = <<>> /\ UNCHANGED <<task, mq>>
      BY <2>1 DEF Train, trnFrame, taskVars
    <3>2. Asked = {} /\ mq = <<>>
      <4>1. CASE ~Over
        BY <4>1, Full DEF Spent
      <4>2. CASE Over
        <5>1. Left + Consumed <= PerVersion /\ Left \in Nat /\ PerVersion \in Nat
          BY <1>1, <3>1, <4>2, LeftTypes, ChargeTypes DEF TermInv
        <5>2. Left = 0
          BY <5>1
        <5>3. Unanswered = 0 /\ Len(mq) = 0
          BY <5>2, LeftTypes DEF Left
        <5> QED
          BY <1>a, <5>3, AskedTypes, EmptySeq, LenProperties DEF TypeOK
      <4> QED
        BY <4>1, <4>2
    <3>3. Elements(mq') = {} /\ Elements(batch') = {}
      BY <3>1, <3>2, EmptySeq DEF Elements
    <3> QED
      BY <3>1, <3>2, <3>3 DEF Asked
  <2>2. CASE GetSample \/ SyncStart \/ SyncPaused \/ SyncTransfer \/ LogValidation
    BY <2>2 DEF GetSample, SyncStart, SyncPaused, SyncTransfer, LogValidation
  <2>3. CASE ~Trainer
    BY <2>3, TrainerFrame
  <2> QED
    BY <1>2, <2>1, <2>2, <2>3 DEF Trainer
<1>4. CASE TaskStored(s) /\ tag'[s] = version
  <2>1. task[s] = "ok" /\ s \in Asked
    BY <1>4 DEF TaskStored, Asked
  <2>2. updC # "start" /\ trn \notin {"waitValid", "pausing", "transfer"}
    <3>1. CASE ~Over
      BY <2>1, <3>1, RoomToPut DEF Syncing
    <3>2. CASE Over
      BY <1>1, <2>1, <3>2 DEF TermInv
    <3> QED
      BY <3>1, <3>2
  <2>3. tver = version
    BY <1>a, <2>2 DEF SyncInv
  <2> QED
    BY <1>3, <1>4, <2>3
<1>5. CASE tag'[s] = tag[s] /\ (task'[s] = "put" => task[s] = "put")
  <2>1. s \in Elements(mq') => s \in Elements(mq) \/ task[s] = "put"
    <3>1. CASE GetSample
      <4>1. mq # <<>> /\ mq' = Tail(mq) /\ mq \in Seq(Samples \cup {DONE})
        BY <1>a, <3>1 DEF GetSample, TypeOK
      <4>2. Elements(mq) = Elements(mq') \cup {Head(mq)}
        BY <4>1, ElementsTypes
      <4> QED
        BY <4>2
    <3>2. CASE MQPutEnd
      BY <1>1, <1>a, <3>2, PutElements DEF MQPutEnd
    <3>3. ASSUME NEW t \in Samples, MQPut(t)
          PROVE  s \in Elements(mq') => s \in Elements(mq) \/ task[s] = "put"
      BY <1>a, <3>3, PutElements DEF MQPut
    <3>4. CASE UNCHANGED mq
      BY <3>4 DEF Elements
    <3> QED
      BY <3>1, <3>2, <3>3, <3>4, QueueFrame
  <2>2. s \in Elements(batch') => s \in Elements(batch) \/ s \in Elements(mq)
    <3>1. CASE GetSample
      <4>1. mq # <<>> /\ mq \in Seq(Samples \cup {DONE}) /\ batch \in Seq(Samples)
        BY <1>a, <3>1 DEF GetSample, TypeOK
      <4>2. Head(mq) \in Elements(mq) /\ Head(mq) \in Samples \cup {DONE}
        BY <4>1, ElementsTypes, QueueTypes
      <4>3. CASE Head(mq) = DONE
        BY <3>1, <4>3, EmptySeq DEF GetSample, Elements
      <4>4. CASE Head(mq) # DONE
        <5>1. Elements(batch') = Elements(batch) \cup {Head(mq)}
          <6>1. batch' = Append(batch, Head(mq)) /\ Head(mq) \in Samples
            BY <3>1, <4>2, <4>4 DEF GetSample
          <6>2. Elements(Append(batch, Head(mq))) = Elements(batch) \cup {Head(mq)}
            BY <4>1, <6>1, ElementsTypes
          <6> QED
            BY <6>1, <6>2 DEF Elements
        <5> QED
          BY <4>2, <5>1
      <4> QED
        BY <4>3, <4>4
    <3>2. CASE Train
      BY <3>2, EmptySeq DEF Train, Elements
    <3>3. CASE SyncStart \/ SyncPaused \/ SyncTransfer \/ LogValidation
      BY <3>3 DEF SyncStart, SyncPaused, SyncTransfer, LogValidation, Elements
    <3>4. CASE ~Trainer
      BY <3>4, TrainerFrame DEF Elements
    <3> QED
      BY <1>2, <3>1, <3>2, <3>3, <3>4 DEF Trainer
  <2>3. tag[s] = tver
    BY <1>1, <1>5, <2>1, <2>2 DEF TagInv
  <2> QED
    BY <1>3, <1>5, <2>3
<1> QED
  BY <1>4, <1>5, <1>a, TagFrame

LEMMA DropStep ==
  ASSUME Known, Synchronous, ExactInv, TermInv, dropped = {}, [Next]_vars
  PROVE  dropped' = {}
<1>a. TypeOK /\ EndInv
  BY DEF Known
<1>b. MaxRequired \in Nat /\ Len(mq) \in Nat /\ Unanswered \in Nat
  BY ChargeTypes
<1>1. ASSUME NEW s \in Samples, MQPut(s) PROVE dropped' = {}
  <2>1. task[s] = "put" /\ PutSample(s)
    BY <1>1 DEF MQPut
  <2>2. Len(mq) < MaxRequired
    <3>1. CASE ~Over
      BY <2>1, <3>1, RoomToPut
    <3>2. CASE Over
      <4>1. s \in Asked
        BY <2>1 DEF Asked
      <4>2. Unanswered # 0
        BY <1>a, <4>1, AskedTypes
      <4> QED
        BY <1>b, <3>2, <4>2, LeftTypes DEF TermInv, Left
    <3> QED
      BY <3>1, <3>2
  <2>3. ~(Len(mq) >= MaxRequired)
    BY <1>b, <2>2
  <2> QED
    BY <2>1, <2>3 DEF PutSample
<1>2. CASE MQPutEnd
  <2>1. main = "wait" /\ Over /\ PutSample(DONE)
    BY <1>2 DEF MQPutEnd, Over
  <2>2. One(main = "wait") = 1
    BY <2>1 DEF One
  <2>3. ~(Len(mq) >= MaxRequired)
    BY <1>b, <2>1, <2>2, LeftTypes DEF TermInv, Left
  <2> QED
    BY <2>1, <2>3 DEF PutSample
<1>3. CASE Trainer
  BY <1>3
     DEF Trainer, GetSample, Train, SyncStart, SyncPaused, SyncTransfer,
         LogValidation, Final, CloseWait, trnFrame
<1> QED
  BY <1>1, <1>2, <1>3, TrainerFrame

\* The inductive invariant of the synchronous mode.
SyncModeInv ==
  Synchronous =>
    /\ SyncMode /\ TermInv /\ TagInv
    /\ dropped = {} /\ Outstanding <= MaxRequired

LEMMA SyncModeInit == Init => SyncModeInv
<1> SUFFICES ASSUME Init PROVE SyncModeInv
  OBVIOUS
<1>1. SyncMode
  BY ExactInit DEF SyncMode
<1>2. OutSet = {} /\ Elements(mq) = {} /\ Elements(batch) = {}
  <2>1. Elements(mq) = {} /\ Elements(batch) = {} /\ Elements(cancelQ) = {}
    BY EmptySeq DEF Init, Elements
  <2>2. \A s \in Samples : s # DONE
    BY ConstantsAssumption DEF Samples, DONE
  <2> QED
    BY <2>1, <2>2 DEF Init, OutSet, Live
<1>3. Outstanding <= MaxRequired
  <2>1. Outstanding = Cardinality(OutSet)
    BY DEF Outstanding, OutSet
  <2> QED
    BY <1>2, <2>1, FS_EmptySet, ConstantsAssumption
<1>4. TermInv /\ TagInv /\ dropped = {}
  BY <1>2 DEF Init, TermInv, TagInv, Over
<1> QED
  BY <1>1, <1>3, <1>4 DEF SyncModeInv

LEMMA SyncModeStep ==
  ASSUME Known, Known', SyncModeInv, [Next]_vars
  PROVE  SyncModeInv'
<1> SUFFICES ASSUME Synchronous PROVE SyncModeInv'
  BY DEF SyncModeInv, Synchronous
<1>1. /\ ExactInv /\ CalmInv /\ MonInv /\ TermInv /\ TagInv /\ dropped = {}
      /\ Outstanding <= MaxRequired
  BY DEF SyncModeInv, SyncMode
<1>2. SyncMode'
  BY <1>1, ExactStep, CalmStep, MonStep DEF SyncMode
<1>3. TermInv' /\ TagInv' /\ dropped' = {}
  BY <1>1, TermStep, TagStep, DropStep
<1>4. Outstanding' <= MaxRequired
  BY <1>1, <1>2, BoundStep
<1> QED
  BY <1>2, <1>3, <1>4 DEF SyncModeInv

\* With staleness_threshold 0 staleness_samples is exact until the processor
\* ends, and then what is left still fits (SyncModeInv).
THEOREM SyncModeInvariance == Spec => []SyncModeInv
<1>1. Init => SyncModeInv
  BY SyncModeInit
<1>2. Known /\ Known' /\ [Next]_vars /\ SyncModeInv => SyncModeInv'
  BY SyncModeStep
<1> QED
  BY <1>1, <1>2, KnownInvariance, PTL DEF Spec

\* With staleness_threshold 0 max_required_samples is exact, the queue never
\* evicts, a synchronisation interrupts nothing and training is on policy.
THEOREM SynchronousExact == Spec => []SynchronousMode
<1>1. ASSUME Known, SyncModeInv PROVE SynchronousMode
  <2>1. ExactBound /\ NoEviction
    BY <1>1 DEF SyncModeInv, ExactBound, NoEviction
  <2>2. NothingToInterrupt
    BY <1>1 DEF SyncModeInv, SyncMode, CalmInv, Uncut, NothingToInterrupt
  <2>3. OnPolicy
    <3> SUFFICES ASSUME Synchronous, trn = "train", NEW i \in 1..Len(batch)
                 PROVE  tag[batch[i]] = tver
      BY DEF OnPolicy
    <3>1. ~Ended
      BY <1>1 DEF Known, BatchInv, Ended
    <3>2. batch[i] \in Samples /\ batch[i] \in Elements(batch)
      BY <1>1 DEF Known, TypeOK, Elements
    <3> QED
      BY <1>1, <3>1, <3>2 DEF SyncModeInv, TagInv
  <2> QED
    BY <2>1, <2>2, <2>3 DEF SynchronousMode
<1>2. Known /\ SyncModeInv => SynchronousMode
  BY <1>1
<1> QED
  BY <1>2, KnownInvariance, SyncModeInvariance, PTL

\* With staleness_threshold 0 the Trainer never waits for a sample that a
\* paused Rollouter, which the monitor does not resume, will not produce.
THEOREM SynchronousNeverStalls == Spec => [](Synchronous => NeverStalled)
<1>1. Known /\ SyncModeInv => (Synchronous => NeverStalled)
  BY ExactNotStalled DEF SyncModeInv
<1> QED
  BY <1>1, KnownInvariance, SyncModeInvariance, PTL

-----------------------------------------------------------------------------
(* Without partial rollout: what staleness_samples can count twice.        *)

\* What the Trainer has of the coming version, or will find in the queue.
Arrived == Len(mq) + Consumed
Open == trn \in {"collect", "train", "log"}
Gathered == Open \/ trn = "transfer" \/ pauseC \in {"clear", "done"}
Working == ~Over /\ ~EndTaken

\* Since the tasks were gathered, one that is answered has put its sample into
\* the queue; update_param_version counts the queue and active_tasks, so each
\* of these twice and nothing else.
StallInv ==
  ~Partial =>
    /\ Uncut
    /\ updC = "size" => updBase <= ActiveLen
    /\ ~Ended /\ Arrived < PerVersion =>
         /\ Gathered => finished + Cardinality(Acked) <= Arrived
         /\ Open /\ Working /\ updC \in {"none", "putVal"} =>
              staleness <= Unanswered + One(hand # DONE) + failed + 2 * Arrived

LEMMA ActiveCount ==
  ASSUME TypeOK
  PROVE  /\ ActiveLen = Unanswered + Cardinality(Acked) + finished + failed
         /\ Unanswered \in Nat /\ Cardinality(Acked) \in Nat
         /\ finished \in Nat /\ failed \in Nat
<1>1. /\ IsFiniteSet(Asked) /\ IsFiniteSet(Acked)
      /\ Unanswered \in Nat /\ Cardinality(Acked) \in Nat
      /\ finished \in Nat /\ failed \in Nat
  BY AskedTypes, FS_CardinalityType DEF TypeOK
<1>2. Live = Asked \cup Acked /\ Asked \cap Acked = {}
  BY DEF Live, Asked, Acked
<1>3. Cardinality(Live) = Cardinality(Asked) + Cardinality(Acked)
  <2>1. Cardinality(Asked \cup Acked) =
          Cardinality(Asked) + Cardinality(Acked) - Cardinality(Asked \cap Acked)
    BY ONLY <1>1, FS_Union
  <2>2. Cardinality(Asked \cap Acked) = 0
    BY ONLY <1>2, FS_EmptySet
  <2>3. Cardinality(Asked) \in Nat
    BY <1>1 DEF Unanswered
  <2> QED
    BY ONLY <1>1, <1>2, <2>1, <2>2, <2>3
<1> QED
  BY <1>1, <1>3 DEF ActiveLen, Unanswered

LEMMA ActiveCountNext ==
  TypeOK' => (/\ Unanswered \in Nat /\ Cardinality(Acked) \in Nat
              /\ finished \in Nat /\ failed \in Nat
              /\ ActiveLen \in Nat /\ Cardinality(Live) \in Nat)'
<1>1. TypeOK => /\ Unanswered \in Nat /\ Cardinality(Acked) \in Nat
                /\ finished \in Nat /\ failed \in Nat
                /\ ActiveLen \in Nat /\ Cardinality(Live) \in Nat
  BY ActiveCount, ActiveLenType
<1> QED
  BY <1>1, PTL

\* active_tasks shrinks where the processor and pause() drain it, only.
LEMMA ActiveKept ==
  ASSUME TypeOK, TypeOK', [Next]_vars, ~ProcDrainWake, ~PauseGather
  PROVE  ActiveLen' >= ActiveLen
<1>1. IsFiniteSet(Live) /\ Cardinality(Live) \in Nat /\ finished \in Nat /\ failed \in Nat
  BY ActiveLenType DEF TypeOK
<1>2. ASSUME NEW s \in Samples, TaskAcked(s) \/ TaskCancelled(s) \/ TaskFailed(s)
      PROVE  ActiveLen' >= ActiveLen
  <2>1. /\ task[s] # "none" /\ task' = [task EXCEPT ![s] = "none"]
        /\ finished' + failed' = finished + failed + 1
    BY <1>1, <1>2 DEF TaskAcked, TaskCancelled, TaskFailed
  <2>2. s \in Live /\ Live' = Live \ {s}
    BY <2>1 DEF Live, TypeOK
  <2>3. Cardinality(Live') = Cardinality(Live) - 1
    BY <1>1, <2>2, FS_RemoveElement
  <2>4. finished' \in Nat /\ failed' \in Nat
    BY DEF TypeOK
  <2>5. /\ ActiveLen = Cardinality(Live) + finished + failed
        /\ ActiveLen' = Cardinality(Live') + finished' + failed'
    BY DEF ActiveLen
  <2>6. PICK l \in Nat, m \in Nat, f \in Nat, g \in Nat, x \in Nat, y \in Nat :
          /\ l = Cardinality(Live) /\ m = Cardinality(Live')
          /\ f = finished /\ g = finished' /\ x = failed /\ y = failed'
    <3>1. Cardinality(Live) # 0
      BY <1>1, <2>2, FS_EmptySet
    <3>2. Cardinality(Live') \in Nat
      BY ActiveCountNext
    <3> QED
      BY <1>1, <2>4, <3>2
  <2>7. m = l - 1 /\ g + y = f + x + 1
    BY <2>1, <2>3, <2>6
  <2>8. m + g + y = l + f + x
    BY <2>7
  <2>9. ActiveLen = l + f + x /\ ActiveLen' = m + g + y
    BY <2>5, <2>6
  <2> QED
    BY <2>8, <2>9
<1>3. ASSUME \A s \in Samples : ~TaskAcked(s) /\ ~TaskCancelled(s) /\ ~TaskFailed(s)
      PROVE  ActiveLen' >= ActiveLen
  <2>1. UNCHANGED <<finished, failed>>
    BY <1>3, ActiveFrame
  <2>2. Live \subseteq Live'
    <3>1. CASE ProcSubmit /\ ~paused
      <4>1. task' = [task EXCEPT ![hand] = "new"]
        BY <3>1 DEF ProcSubmit
      <4> QED
        BY <4>1 DEF Live, TypeOK
    <3>2. ASSUME NEW s \in Samples, Task(s) \/ Server(s) \/ MQPut(s)
          PROVE  Live \subseteq Live'
      <4>1. PICK p \in TaskPcs \ {"none"} : task' = [task EXCEPT ![s] = p]
        BY <1>3, <3>2
           DEF Task, TaskStored, Server, ServerAccept, ServerFinish,
               ServerRefuse, ServerFail, MQPut, TaskPcs
      <4> QED
        BY <4>1 DEF Live, TypeOK
    <3> QED
      BY <3>1, <3>2, TaskFrame DEF Live
  <2>3. IsFiniteSet(Live')
    <3>1. Live' \subseteq Samples
      BY DEF Live
    <3> QED
      BY <3>1, SamplesFinite, FS_Subset
  <2>4. Cardinality(Live) <= Cardinality(Live') /\ Cardinality(Live') \in Nat
    BY <2>2, <2>3, FS_Subset, FS_CardinalityType
  <2> QED
    BY <1>1, <2>1, <2>4 DEF ActiveLen
<1> QED
  BY <1>2, <1>3

LEMMA BaseStep ==
  ASSUME Known, TypeOK', Uncut, updC = "size" => updBase <= ActiveLen,
         [Next]_vars, updC' = "size"
  PROVE  updBase' <= ActiveLen'
<1>a. TypeOK /\ SyncInv /\ LockExclusion
  BY DEF Known
<1>1. ActiveLen \in Nat /\ ActiveLen' \in Nat /\ updBase' \in Nat
  BY <1>a, ActiveLenType, ActiveCountNext DEF TypeOK
<1>2. CASE UpdEnter
  <2>1. updBase' = ActiveLen + Len(cancelQ) /\ Len(cancelQ) = 0
    BY <1>2, EmptySeq DEF UpdEnter, Uncut
  <2>2. ~ProcDrainWake /\ ~PauseGather
    BY <1>2 DEF UpdEnter, ProcDrainWake, PauseGather, rpcFrame, procVars
  <2> QED
    BY <1>1, <1>a, <2>1, <2>2, ActiveKept
<1>3. CASE ~UpdEnter
  <2>1. updC = "size" /\ updBase' = updBase
    BY <1>3, UpdFrame, StalenessFrame DEF UpdCount, UpdExit, SyncTransfer
  <2>2. ~PauseGather
    BY <1>a, <2>1 DEF PauseGather, SyncInv
  <2>3. ~ProcDrainWake
    BY <1>a, <2>1 DEF ProcDrainWake, LockExclusion, Holders, Granted, Coroutines
  <2> QED
    BY <1>1, <1>a, <2>1, <2>2, <2>3, ActiveKept
<1> QED
  BY <1>2, <1>3

-----------------------------------------------------------------------------
LEMMA ArrivedTypes ==
  ASSUME Known
  PROVE  /\ Arrived \in Nat /\ Consumed \in Nat /\ Len(mq) \in Nat
         /\ PerVersion \in Nat \ {0} /\ MaxRequired \in Nat \ {0}
         /\ PerVersion <= MaxRequired
<1>1. PerVersion <= MaxRequired
  BY ConstantsAssumption DEF PerVersion
<1> QED
  BY <1>1, ChargeTypes DEF Arrived

LEMMA ArrivedTypesNext ==
  Known' => (Arrived \in Nat /\ Consumed \in Nat /\ Len(mq) \in Nat)'
<1>1. Known => Arrived \in Nat /\ Consumed \in Nat /\ Len(mq) \in Nat
  BY ArrivedTypes
<1> QED
  BY <1>1, PTL

\* What has arrived of the coming version only grows until it is made; and
\* while it is less than a version the queue is not full.
LEMMA ArrivedStep ==
  ASSUME Known, Known', [Next]_vars, ~Ended', Arrived' < PerVersion
  PROVE  \/ Train /\ trn' = "waitValid"
         \/ /\ Arrived < PerVersion
            /\ \/ Arrived' = Arrived /\ \A s \in Samples : ~MQPut(s)
               \/ Arrived' = Arrived + 1 /\ Consumed' = Consumed
                    /\ (MQPutEnd \/ \E s \in Samples : MQPut(s))
<1>a. TypeOK /\ BatchInv
  BY DEF Known
<1>1. ~Ended
  BY <1>a, EndFrame
<1>b. /\ Arrived \in Nat /\ Consumed \in Nat /\ Len(mq) \in Nat
      /\ PerVersion \in Nat /\ MaxRequired \in Nat /\ PerVersion <= MaxRequired
  BY ArrivedTypes
<1>c. Arrived' \in Nat /\ Consumed' \in Nat /\ Len(mq') \in Nat
  BY ArrivedTypesNext
<1>d. Arrived = Len(mq) + Consumed /\ Arrived' = Len(mq') + Consumed'
  BY DEF Arrived
<1>2. CASE GetSample
  <2>1. Head(mq) # DONE
    BY <1>1, <1>2 DEF GetSample, Ended
  <2>2. Consumed' = Consumed + 1
    BY <1>2, <1>a, <2>1, ConsumedGet
  <2>3. mq # <<>> /\ mq \in Seq(Samples \cup {DONE}) /\ mq' = Tail(mq)
    BY <1>2, <1>a DEF GetSample, TypeOK
  <2>4. Len(mq') = Len(mq) - 1
    BY <2>3, HeadTailProperties
  <2>5. \A s \in Samples : ~MQPut(s)
    BY <1>2 DEF GetSample, MQPut, mqFrame, trnVars, mqVars, trnFrame, taskVars, TypeOK, TaskPcs
  <2> QED
    BY <1>b, <1>c, <1>d, <2>2, <2>4, <2>5
<1>3. CASE Train
  <2>1. mq' = mq /\ UNCHANGED task
    BY <1>3 DEF Train, trnFrame, taskVars
  <2>2. \A s \in Samples : ~MQPut(s)
    BY <1>3, <1>a, <2>1 DEF MQPut, TypeOK
  <2> QED
    BY <1>3, <1>a, <1>d, <1>b, <2>1, <2>2, ConsumedTrain
<1>4. CASE MQPutEnd \/ \E s \in Samples : MQPut(s)
  <2>1. PICK x \in Samples \cup {DONE} : PutSample(x)
    BY <1>4 DEF MQPutEnd, MQPut
  <2>2. UNCHANGED <<batch, localStep>>
    BY <1>4 DEF MQPutEnd, MQPut, mqFrame, trnVars
  <2>3. Consumed' = Consumed
    BY <2>2 DEF Consumed
  <2>4. Len(mq') = IF Len(mq) >= MaxRequired THEN Len(mq) ELSE Len(mq) + 1
    BY <1>a, <2>1, PutElements
  <2>5. Len(mq') = Len(mq) + 1
    BY <1>b, <1>c, <1>d, <2>3, <2>4
  <2> QED
    BY <1>4, <1>b, <1>c, <1>d, <2>3, <2>5
<1>5. CASE ~GetSample /\ ~Train /\ ~MQPutEnd /\ \A s \in Samples : ~MQPut(s)
  <2>1. mq' = mq
    BY <1>5, QueueFrame
  <2>2. UNCHANGED <<batch, localStep>>
    <3>1. CASE Trainer
      BY <1>1, <1>5, <3>1
         DEF Trainer, SyncStart, SyncPaused, SyncTransfer, LogValidation, Final,
             CloseWait, Ended
    <3> QED
      BY <3>1, TrainerFrame
  <2>3. Consumed' = Consumed
    BY <2>2 DEF Consumed
  <2> QED
    BY <1>5, <1>b, <1>d, <2>1, <2>3
<1> QED
  BY <1>2, <1>3, <1>4, <1>5

\* A put_sample is answered when its sample is in the queue, and only a task
\* so answered returns when none is cut.
LEMMA GatherStep ==
  ASSUME TypeOK, TypeOK', Uncut, [Next]_vars
  PROVE  IF \E s \in Samples : MQPut(s)
         THEN finished' + Cardinality(Acked') <= finished + Cardinality(Acked) + 1
         ELSE finished' + Cardinality(Acked') <= finished + Cardinality(Acked)
<1>1. /\ IsFiniteSet(Acked) /\ Cardinality(Acked) \in Nat /\ finished \in Nat
  BY AskedTypes, ActiveCount DEF TypeOK
<1>2. Cardinality(Acked') \in Nat /\ finished' \in Nat
  BY ActiveCountNext
<1>3. ASSUME NEW s \in Samples, MQPut(s)
      PROVE  finished' + Cardinality(Acked') <= finished + Cardinality(Acked) + 1
  <2>1. task[s] = "put" /\ task' = [task EXCEPT ![s] = "ack"] /\ finished' = finished
    BY <1>3 DEF MQPut, mqFrame
  <2>2. Acked' = Acked \cup {s} /\ s \notin Acked
    BY <2>1 DEF Acked, TypeOK
  <2>3. Cardinality(Acked') = Cardinality(Acked) + 1
    BY <1>1, <2>2, FS_AddElement
  <2> QED
    BY <1>1, <2>1, <2>3
<1>4. ASSUME NEW s \in Samples, TaskAcked(s)
      PROVE  finished' + Cardinality(Acked') <= finished + Cardinality(Acked)
  <2>1. task[s] = "ack" /\ task' = [task EXCEPT ![s] = "none"] /\ finished' = finished + 1
    BY <1>4 DEF TaskAcked
  <2>2. Acked' = Acked \ {s} /\ s \in Acked
    BY <2>1 DEF Acked, TypeOK
  <2>3. Cardinality(Acked') = Cardinality(Acked) - 1
    BY <1>1, <2>2, FS_RemoveElement
  <2> QED
    BY <1>1, <2>1, <2>3
<1>5. ASSUME \A s \in Samples : ~MQPut(s) /\ ~TaskAcked(s)
      PROVE  finished' + Cardinality(Acked') <= finished + Cardinality(Acked)
  <2>1. Acked' \subseteq Acked
    <3>1. CASE ProcSubmit /\ ~paused
      <4>1. task' = [task EXCEPT ![hand] = "new"]
        BY <3>1 DEF ProcSubmit
      <4> QED
        BY <4>1 DEF Acked, TypeOK
    <3>2. ASSUME NEW s \in Samples, Task(s) \/ Server(s)
          PROVE  Acked' \subseteq Acked
      <4>1. PICK p \in TaskPcs \ {"ack"} : task' = [task EXCEPT ![s] = p]
        BY <1>5, <3>2
           DEF Task, TaskStored, TaskCancelled, TaskFailed, Server, ServerAccept,
               ServerFinish, ServerRefuse, ServerFail, TaskPcs
      <4> QED
        BY <4>1 DEF Acked, TypeOK
    <3> QED
      BY <1>5, <3>1, <3>2, TaskFrame DEF Acked
  <2>2. Cardinality(Acked') <= Cardinality(Acked)
    BY <1>1, <2>1, FS_Subset
  <2>3. finished' <= finished
    <3>1. \A s \in Samples : ~TaskCancelled(s)
      BY DEF Uncut, TaskCancelled
    <3>2. ASSUME NEW s \in Samples, TaskFailed(s) PROVE finished' = finished
      BY <3>2 DEF TaskFailed
    <3>3. CASE ProcDrainWake \/ PauseGather
      BY <1>1, <3>3 DEF ProcDrainWake, PauseGather
    <3>4. CASE UNCHANGED <<finished, failed>>
      BY <1>1, <3>4
    <3> QED
      BY <1>1, <1>5, <3>1, <3>2, <3>3, <3>4, ActiveFrame
  <2> QED
    BY <1>1, <1>2, <2>2, <2>3
<1>6. ASSUME NEW s \in Samples, NEW t \in Samples, TaskAcked(s), MQPut(t)
      PROVE  FALSE
  <2>1. finished' = finished + 1 /\ finished' = finished
    BY <1>6 DEF TaskAcked, MQPut, mqFrame
  <2> QED
    BY <1>1, <2>1
<1> QED
  BY <1>3, <1>4, <1>5, <1>6

-----------------------------------------------------------------------------
\* The processor that has not ended took no end signal before either.
LEMMA WorkingFrame ==
  ASSUME TypeOK, [Next]_vars, Working'
  PROVE  Working
<1>1. ~Over
  BY OverFrame DEF Working, Over
<1>2. ~EndTaken
  <2> SUFFICES ASSUME EndTaken PROVE FALSE
    OBVIOUS
  <2>1. CASE Processor
    BY <2>1
       DEF Working, EndTaken, Over, Processor, ProcPause, ProcPauseSet, ProcTake,
           ProcStarve, ProcGet, ProcDrained, ProcDrainLock, ProcDrainEmpty,
           ProcDrainWake, ProcIdle, ProcSubmit
  <2>2. CASE ~Processor
    BY <2>2, ProcessorFrame DEF Working, EndTaken
  <2> QED
    BY <2>1, <2>2
<1> QED
  BY <1>1, <1>2 DEF Working

\* The Trainer's way into its loop, and to what follows the gathering.
LEMMA GatheredFrame ==
  ASSUME Known, Known', [Next]_vars, ~Ended'
  PROVE  /\ Open' => Open \/ SyncTransfer
         /\ Gathered' => Gathered \/ PauseGather
         /\ Train /\ trn' = "waitValid" => ~Open' /\ ~Gathered'
<1>a. SyncInv /\ SyncInv' /\ BatchInv
  BY DEF Known
<1>1. ~Ended
  BY <1>a, EndFrame
<1>2. Open' => Open \/ SyncTransfer
  <2>1. CASE Trainer
    BY <1>1, <2>1
       DEF Trainer, GetSample, Train, NextVersion, SyncStart, SyncPaused,
           SyncTransfer, LogValidation, Final, CloseWait, Open, Ended
  <2> QED
    BY <2>1, TrainerFrame DEF Open
<1>3. ASSUME trn' = "transfer" PROVE Gathered
  <2>1. CASE Trainer
    BY <1>1, <1>3, <2>1
       DEF Trainer, GetSample, Train, NextVersion, SyncStart, SyncPaused,
           SyncTransfer, LogValidation, Final, CloseWait, Gathered, Ended
  <2>2. CASE ~Trainer
    BY <1>3, <2>2, TrainerFrame DEF Gathered
  <2> QED
    BY <2>1, <2>2
<1>4. ASSUME pauseC' \in {"clear", "done"}, ~PauseGather PROVE Gathered
  <2>1. CASE Trainer
    BY <1>4, <2>1
       DEF Trainer, GetSample, Train, NextVersion, SyncStart, SyncPaused,
           SyncTransfer, LogValidation, Final, CloseWait, Gathered
  <2>2. CASE Rpc
    BY <1>4, <2>2
       DEF Rpc, PauseEnter, PauseCancel, PauseGather, PauseExit, UpdEnter,
           UpdCount, UpdExit, ResEnter, ResServers, ResExit, resFrame, Gathered
  <2>3. CASE ~Trainer /\ ~Rpc
    <3>1. UNCHANGED pauseC
      BY <2>3, SyncFrame DEF syncVars
    <3> QED
      BY <1>4, <3>1 DEF Gathered
  <2> QED
    BY <2>1, <2>2, <2>3
<1>5. SyncTransfer => Gathered
  BY DEF SyncTransfer, Gathered
<1>6. Open => Gathered
  BY DEF Gathered
<1>7. ASSUME trn' = "waitValid" PROVE ~Open' /\ ~Gathered'
  <2>1. pauseC' = "none"
    BY <1>a, <1>7 DEF SyncInv
  <2> QED
    BY <1>7, <2>1 DEF Open, Gathered
<1>8. Gathered' => Gathered \/ PauseGather
  BY <1>2, <1>3, <1>4, <1>5, <1>6 DEF Gathered
<1> QED
  BY <1>2, <1>7, <1>8

LEMMA StallGathered ==
  ASSUME Known, Known', Uncut, ~Partial, StallInv, [Next]_vars, ~Ended',
         Arrived' < PerVersion, Gathered'
  PROVE  finished' + Cardinality(Acked') <= Arrived'
<1>a. TypeOK /\ TypeOK' /\ BatchInv
  BY DEF Known
<1>1. ~Ended
  BY <1>a, EndFrame
<1>2. /\ Arrived \in Nat /\ Arrived' \in Nat
      /\ finished \in Nat /\ Cardinality(Acked) \in Nat
      /\ finished' \in Nat /\ Cardinality(Acked') \in Nat
  BY <1>a, ArrivedTypes, ArrivedTypesNext, ActiveCount, ActiveCountNext
<1>3. CASE PauseGather
  <2>1. finished' = 0 /\ Live = {} /\ UNCHANGED task
    BY <1>3 DEF PauseGather, rpcFrame
  <2>2. Acked' = {}
    BY <2>1 DEF Acked, Live
  <2> QED
    BY <1>2, <2>1, <2>2, FS_EmptySet
<1>4. CASE ~PauseGather
  <2>1. Gathered /\ ~(Train /\ trn' = "waitValid")
    BY <1>4, GatheredFrame
  <2>2. /\ Arrived < PerVersion
        /\ \/ Arrived' = Arrived /\ \A s \in Samples : ~MQPut(s)
           \/ Arrived' = Arrived + 1
    BY <2>1, ArrivedStep
  <2>3. finished + Cardinality(Acked) <= Arrived
    BY <1>1, <2>1, <2>2 DEF StallInv
  <2>4. \/ finished' + Cardinality(Acked') <= finished + Cardinality(Acked)
        \/ /\ finished' + Cardinality(Acked') <= finished + Cardinality(Acked) + 1
           /\ Arrived' = Arrived + 1
    BY <1>a, <2>2, GatherStep
  <2>5. Arrived' >= Arrived
    BY <1>2, <2>2
  <2>6. PICK n \in Nat, m \in Nat, f \in Nat, g \in Nat, x \in Nat, y \in Nat :
          /\ n = Arrived /\ m = Arrived' /\ f = finished /\ g = finished'
          /\ x = Cardinality(Acked) /\ y = Cardinality(Acked')
    BY <1>2
  <2>7. f + x <= n /\ m >= n /\ (g + y <= f + x \/ (g + y <= f + x + 1 /\ m = n + 1))
    BY <2>3, <2>4, <2>5, <2>6
  <2>8. g + y <= m
    BY <2>7
  <2> QED
    BY <2>6, <2>8
<1> QED
  BY <1>3, <1>4

LEMMA StallStaleness ==
  ASSUME Known, Known', Uncut, ~Partial, StallInv, [Next]_vars, ~Ended',
         Arrived' < PerVersion, Open', Working', updC' \in {"none", "putVal"}
  PROVE  staleness' <= Unanswered' + One(hand # DONE)' + failed' + 2 * Arrived'
<1>a. TypeOK /\ TypeOK' /\ BatchInv /\ HandInv /\ SampleAccounting /\ cancelQ = <<>>
  BY DEF Known, Uncut
<1>1. ~Ended /\ Working /\ ~(Train /\ trn' = "waitValid") /\ ~SyncTransfer /\ Open
  <2>1. ~SyncTransfer
    BY DEF SyncTransfer
  <2> QED
    BY <1>a, <2>1, EndFrame, WorkingFrame, GatheredFrame
<1>2. /\ Arrived < PerVersion
      /\ \/ Arrived' = Arrived /\ \A s \in Samples : ~MQPut(s)
         \/ Arrived' = Arrived + 1 /\ Consumed' = Consumed
  BY <1>1, ArrivedStep
<1>3. /\ Arrived \in Nat /\ Arrived' \in Nat /\ staleness \in Nat
      /\ Unanswered \in Nat /\ Unanswered' \in Nat /\ failed \in Nat /\ failed' \in Nat
      /\ One(hand # DONE) \in Nat /\ One(hand # DONE)' \in Nat
      /\ Consumed \in Nat /\ Consumed' \in Nat
      /\ Len(mq) \in Nat /\ Len(mq') \in Nat
  BY <1>a, ArrivedTypes, ArrivedTypesNext, ActiveCount, ActiveCountNext DEF One, TypeOK
<1>4. ~EndTaken /\ ~EndTaken' /\ ~Over /\ ~Over'
  BY <1>1 DEF Working
<1>d. Arrived = Len(mq) + Consumed /\ Arrived' = Len(mq') + Consumed'
  BY DEF Arrived
<1>5. CASE UpdCount
  <2>1. /\ updC = "size" /\ staleness' = updBase + Len(mq)
        /\ UNCHANGED <<task, hand, failed, mq>>
    BY <1>5 DEF UpdCount, rpcFrame, procVars
  <2>2. updBase <= ActiveLen /\ finished + Cardinality(Acked) <= Arrived
    BY <1>1, <1>2, <2>1 DEF StallInv, Gathered
  <2>3. /\ ActiveLen = Unanswered + Cardinality(Acked) + finished + failed
        /\ Cardinality(Acked) \in Nat /\ finished \in Nat /\ updBase \in Nat
    BY <1>a, ActiveCount DEF TypeOK
  <2>4. Unanswered' = Unanswered
    BY <2>1 DEF Unanswered, Asked
  <2>5. staleness' <= Unanswered + failed + Arrived + Arrived
    <3>1. PICK u \in Nat, c \in Nat, f \in Nat, x \in Nat, n \in Nat, l \in Nat, b \in Nat, k \in Nat :
            /\ u = Unanswered /\ c = Cardinality(Acked) /\ f = finished
            /\ x = failed /\ n = Arrived /\ l = Len(mq) /\ b = updBase /\ k = Consumed
      BY <1>3, <2>3
    <3>2. b <= u + c + f + x /\ f + c <= n /\ n = l + k
      BY <1>d, <2>2, <2>3, <3>1
    <3>3. b + l <= u + x + n + n
      BY <3>2
    <3> QED
      BY <2>1, <3>1, <3>3
  <2>6. Arrived' >= Arrived /\ failed' = failed
    BY <1>2, <1>3, <2>1
  <2>7. PICK w \in Nat, u \in Nat, h \in Nat, x \in Nat, n \in Nat, m \in Nat :
          /\ w = staleness' /\ u = Unanswered /\ h = One(hand # DONE)' /\ x = failed
          /\ n = Arrived /\ m = Arrived'
    <3>1. staleness' \in Nat
      BY <1>a DEF TypeOK
    <3> QED
      BY <1>3, <3>1
  <2>8. w <= u + x + n + n /\ m >= n
    BY <2>5, <2>6, <2>7
  <2>9. w <= u + h + x + 2 * m
    BY <2>8
  <2> QED
    BY <2>4, <2>6, <2>7, <2>9
<1>6. CASE ~UpdCount
  <2>1. updC \in {"none", "putVal"}
    BY <1>1, <1>6, UpdFrame DEF UpdEnter, UpdExit
  <2>2. staleness <= Unanswered + One(hand # DONE) + failed + 2 * Arrived
    BY <1>1, <1>2, <2>1 DEF StallInv
  <2>3. CASE Processor
    <3>2. Arrived' >= Arrived
      BY <1>2, <1>3
    <3>3. failed' = failed
      <4>1. CASE ProcDrainWake
        BY <1>3, <1>4, <4>1 DEF ProcDrainWake, Over
      <4>2. CASE ~ProcDrainWake
        BY <2>3, <4>2
           DEF Processor, ProcPause, ProcPauseSet, ProcTake, ProcStarve, ProcGet,
               ProcDrained, ProcDrainLock, ProcDrainEmpty, ProcIdle, ProcSubmit,
               taskVars
      <4> QED
        BY <4>1, <4>2
    <3>4. staleness' + Unanswered + One(hand # DONE)
            <= staleness + Unanswered' + One(hand # DONE)'
      <4>1. CASE ProcTake \/ ProcGet
        <5>1. /\ TakePending /\ Unanswered' = Unanswered
              /\ One(hand # DONE) = 0 /\ One(hand # DONE)' + One(EndTaken)' = 1
          BY <1>a, <2>3, <4>1, HandCount
        <5>2. One(EndTaken)' = 0
          BY <1>4 DEF One
        <5>3. staleness' = staleness + 1
          BY <5>1 DEF TakePending
        <5> QED
          BY <1>3, <5>1, <5>2, <5>3
      <4>2. CASE ProcSubmit
        BY SMTT(30), <1>a, <1>3, <2>3, <4>2, HandCount
      <4>3. CASE ~ProcTake /\ ~ProcGet /\ ~ProcSubmit
        BY <1>a, <1>3, <2>3, <4>3, HandCount
      <4> QED
        BY <4>1, <4>2, <4>3
    <3>5. staleness' \in Nat
      BY <1>a DEF TypeOK
    <3>6. PICK w \in Nat, v \in Nat, u \in Nat, t \in Nat, h \in Nat, g \in Nat, x \in Nat, n \in Nat, m \in Nat :
            /\ w = staleness /\ v = staleness' /\ u = Unanswered /\ t = Unanswered'
            /\ h = One(hand # DONE) /\ g = One(hand # DONE)' /\ x = failed
            /\ n = Arrived /\ m = Arrived'
      BY <1>3, <3>5
    <3>7. w <= u + h + x + 2 * n /\ v + u + h <= w + t + g /\ m >= n
      BY <2>2, <3>2, <3>4, <3>6
    <3>8. v <= t + g + x + 2 * m
      BY <3>7
    <3> QED
      BY <3>3, <3>6, <3>8
  <2>4. ASSUME NEW s \in Samples, Task(s) \/ Server(s) \/ MQPut(s)
        PROVE  staleness' <= Unanswered' + One(hand # DONE)' + failed' + 2 * Arrived'
    <3>0. UNCHANGED <<hand, staleness, localStep, batch>>
      BY <2>4
         DEF Task, TaskStored, TaskAcked, TaskCancelled, TaskFailed, Server,
             ServerAccept, ServerFinish, ServerRefuse, ServerFail, serverFrame,
             taskFrame, MQPut, mqFrame, procVars, countVars, trnVars
    <3>1. ~TaskCancelled(s)
      BY DEF TaskCancelled, Uncut
    <3>2. MQPut(s) => Len(mq) < MaxRequired
      <4>1. /\ Len(mq) <= Arrived /\ PerVersion <= MaxRequired
            /\ PerVersion \in Nat /\ MaxRequired \in Nat
        BY <1>3, <1>d, ArrivedTypes
      <4> QED
        BY <1>2, <1>3, <4>1
    <3>3. /\ Unanswered' + Len(mq') + failed' = Unanswered + Len(mq) + failed
          /\ Len(mq') >= Len(mq)
      BY <1>a, <2>4, <3>1, <3>2, TaskCount
    <3>4. Consumed' = Consumed /\ One(hand # DONE)' = One(hand # DONE)
      BY <3>0 DEF Consumed, One
    <3>5. PICK w \in Nat, u \in Nat, t \in Nat, h \in Nat, x \in Nat, y \in Nat, l \in Nat, k \in Nat, c \in Nat :
            /\ w = staleness /\ u = Unanswered /\ t = Unanswered'
            /\ h = One(hand # DONE) /\ x = failed /\ y = failed'
            /\ l = Len(mq) /\ k = Len(mq') /\ c = Consumed
      BY <1>3
    <3>6. w <= u + h + x + 2 * (l + c) /\ t + k + y = u + l + x /\ k >= l
      BY <1>d, <2>2, <3>3, <3>5
    <3>7. w <= t + h + y + 2 * (k + c)
      BY <3>6
    <3>8. Arrived' = k + c
      BY <1>d, <3>4, <3>5
    <3> QED
      BY <3>0, <3>4, <3>5, <3>7, <3>8
  <2>5. CASE ~Processor /\ \A s \in Samples : ~Task(s) /\ ~Server(s) /\ ~MQPut(s)
    <3>1. ~PauseGather
      <4>1. SyncInv
        BY DEF Known
      <4> QED
        BY <1>1, <4>1 DEF PauseGather, SyncInv, Open
    <3>2. UNCHANGED <<staleness, hand>>
      BY <1>6, <2>5, StalenessFrame, ProcessorFrame DEF Processor
    <3>3. failed' = failed
      BY <2>5, <3>1, ActiveFrame DEF Processor, Task
    <3>4. UNCHANGED task
      BY <1>a, <2>5, TaskFrame DEF Processor
    <3>5. Unanswered' = Unanswered /\ One(hand # DONE)' = One(hand # DONE)
      BY <3>2, <3>4 DEF Unanswered, Asked, One
    <3>6. Arrived' >= Arrived
      BY <1>2, <1>3
    <3>7. PICK w \in Nat, u \in Nat, h \in Nat, x \in Nat, n \in Nat, m \in Nat :
            /\ w = staleness /\ u = Unanswered /\ h = One(hand # DONE) /\ x = failed
            /\ n = Arrived /\ m = Arrived'
      BY <1>3
    <3>8. w <= u + h + x + 2 * n /\ m >= n
      BY <2>2, <3>6, <3>7
    <3>9. w <= u + h + x + 2 * m
      BY <3>8
    <3> QED
      BY <3>2, <3>3, <3>5, <3>7, <3>9
  <2> QED
    BY <2>3, <2>4, <2>5
<1> QED
  BY <1>5, <1>6

LEMMA StallStep ==
  ASSUME Known, Known', StallInv, [Next]_vars
  PROVE  StallInv'
<1> SUFFICES ASSUME ~Partial PROVE StallInv'
  BY DEF StallInv
<1>1. Uncut /\ (updC = "size" => updBase <= ActiveLen)
  BY DEF StallInv
<1>2. Uncut'
  <2>1. \A s \in Samples : ~ServerRefuse(s)
    BY DEF ServerRefuse, MayRefuse, Known, FlagInv
  <2> QED
    BY <1>1, <2>1, UncutStep DEF Known
<1>3. updC' = "size" => updBase' <= ActiveLen'
  BY <1>1, BaseStep DEF Known
<1>4. ASSUME ~Ended', Arrived' < PerVersion, Gathered'
      PROVE  finished' + Cardinality(Acked') <= Arrived'
  BY <1>1, <1>4, StallGathered
<1>5. ASSUME ~Ended', Arrived' < PerVersion, Open', Working', updC' \in {"none", "putVal"}
      PROVE  staleness' <= Unanswered' + One(hand # DONE)' + failed' + 2 * Arrived'
  BY <1>1, <1>5, StallStaleness
<1> QED
  BY <1>2, <1>3, <1>4, <1>5 DEF StallInv, PerVersion

LEMMA StallInit == Init => StallInv
<1> SUFFICES ASSUME Init PROVE StallInv
  OBVIOUS
<1>1. Uncut /\ Asked = {} /\ Acked = {}
  BY DEF Init, Uncut, Asked, Acked
<1>2. Unanswered = 0 /\ Cardinality(Acked) = 0
  BY <1>1, FS_EmptySet DEF Unanswered
<1>3. Consumed = 0 /\ Len(mq) = 0
  BY EmptySeq, ConstantsAssumption DEF Init, Consumed
<1>4. Arrived = 0 /\ One(hand # DONE) = 0
  BY <1>3 DEF Arrived, Init, One
<1> QED
  BY <1>1, <1>2, <1>4 DEF Init, StallInv

\* What keeps a paused Rollouter without partial rollout in touch with the
\* Trainer: the inductive invariant of LargeNeverStalls.
THEOREM StallInvariance == Spec => []StallInv
<1>1. Init => StallInv
  BY StallInit
<1>2. Known /\ Known' /\ StallInv /\ [Next]_vars => StallInv'
  BY StallStep
<1> QED
  BY <1>1, <1>2, KnownInvariance, PTL DEF Spec

\* Without partial rollout the Trainer is never left waiting for a paused
\* Rollouter either, provided that max_required_samples is twice what a version
\* takes, less one: update_param_version counts a sample that is answered at
\* most twice, in active_tasks and in the queue.
THEOREM LargeNeverStalls ==
  Spec => [](~Partial /\ MaxRequired + 1 >= 2 * PerVersion => NeverStalled)
<1>1. ASSUME Known, StallInv, ~Partial, MaxRequired + 1 >= 2 * PerVersion, Stalled
      PROVE  FALSE
  <2>a. TypeOK /\ HandInv /\ BatchInv /\ IdleEmpty
    BY <1>1 DEF Known
  <2>b. /\ Arrived \in Nat /\ Consumed \in Nat /\ Len(mq) \in Nat
        /\ PerVersion \in Nat /\ MaxRequired \in Nat /\ staleness \in Nat
    BY <1>1, <2>a, ArrivedTypes DEF TypeOK
  <2>1. trn = "collect" /\ proc = "idleWait" /\ mq = <<>> /\ Live = {} /\ updC = "none"
    BY <1>1 DEF Stalled
  <2>2. hand = DONE /\ Working /\ Open /\ ~Ended
    BY <2>a, <2>1 DEF HandInv, Working, Over, EndTaken, Open, Ended, BatchInv
  <2>3. failed = 0
    BY <2>a, <2>1, ActiveEmpty DEF IdleEmpty
  <2>4. Unanswered = 0 /\ One(hand # DONE) = 0
    <3>1. Asked = {}
      BY <2>1 DEF Asked, Live
    <3> QED
      BY <2>2, <3>1, FS_EmptySet DEF Unanswered, One
  <2>5. Arrived = Consumed /\ Consumed < PerVersion
    <3>1. Len(mq) = 0
      BY <2>1, EmptySeq
    <3> QED
      BY <2>a, <2>b, <2>1, <3>1, CollectRoom DEF Arrived
  <2>6. staleness <= 2 * Arrived
    BY <1>1, <2>b, <2>1, <2>2, <2>3, <2>4, <2>5 DEF StallInv
  <2>7. staleness >= MaxRequired
    BY <1>1 DEF Stalled
  <2> QED
    BY <1>1, <2>b, <2>5, <2>6, <2>7
<1>2. Known /\ StallInv => (~Partial /\ MaxRequired + 1 >= 2 * PerVersion => NeverStalled)
  BY <1>1 DEF NeverStalled
<1> QED
  BY <1>2, KnownInvariance, StallInvariance, PTL
=============================================================================
