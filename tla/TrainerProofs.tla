---------------------------- MODULE TrainerProofs ----------------------------
(* Proofs about the two synchronous trainers.                                  *)
(*                                                                             *)
(* OneStepOff, for every number of batches and epochs, every frequency and     *)
(* warm-up, and however often the job is killed: a batch is trained on one     *)
(* version late (PolicyHolds), no batch is trained on twice (DataStaysInOrder),*)
(* and the runs that can run out of batches are known (SupplySuffices).        *)
(*                                                                             *)
(* MopdStep with the balancing and the teacher's context it is built from, for *)
(* every number of prompts, responses and ranks, all lengths, successes and    *)
(* configurations: work is spread evenly (BatchIsBalanced), micro-batches fit  *)
(* (MicroBatchesAreFit), a row meets its own log probabilities                 *)
(* (StepIsAnchored), and the teacher is shown what it may be (ContextsFit,     *)
(* MaskFits, BudgetsMatch).                                                    *)
EXTENDS OneStepOff, MopdStep, FiniteSetTheorems, WellFoundedInduction,
        NaturalsInduction, SequenceTheorems, TLAPS

\* A batch is being generated, or waits to be trained on.
InFlight == fut.st \in {"generating", "ready"}

\* How far the actor is ahead of the servers before a step's synchronisation,
\* and after its update.
Lag == IF step = start + 1 \/ step <= Warmup THEN 0 ELSE 1
Gain == IF Warmup <= step THEN 1 ELSE 0

\* Where fit() stands says how far actor, servers and batch are apart.
WeightsInv ==
  /\ InFlight => fut.version = rolloutV
  /\ pc = "load" => fut = NoFuture
  /\ pc \in {"first", "sync", "launch"} => ~InFlight
  /\ pc # "load" => step > start
  /\ pc = "first" => step = start + 1 /\ actorV = rolloutV
  /\ pc = "await" => actorV = rolloutV + Lag
  /\ pc \in {"sync", "launch", "train"} => actorV = cur.version + Lag
  /\ pc \in {"launch", "train"} => rolloutV = actorV
  /\ pc \in {"validate", "save", "log"} => actorV = rolloutV + Gain

\* The newest batch of a sequence, and that a sequence never goes back nor
\* skips more than one batch at a time.
Newest(s) == IF s = <<>> THEN 0 ELSE s[Len(s)]
Steady(s) == \A i \in 1..(Len(s) - 1) : s[i + 1] \in {s[i] + 1, s[i] + 2}

\* s has skipped no more batches than there were crashes.
Skipped(s) == Newest(s) - Len(s) \in 0..crashes

\* Batch b may be trained on next.
Follows(b) ==
  b - Newest(trained) \in {1, 2} /\ b - 1 - Len(trained) \in 0..crashes

\* What was trained on, in the run and in the checkpoint, and what the
\* dataloader has handed out.  A job that starts again has one crash more than
\* it had when its checkpoint was saved: the batch in flight is paid for.
DataInv ==
  /\ Steady(trained) /\ Skipped(trained)
  /\ Steady(ckpt.trained) /\ Skipped(ckpt.trained)
  /\ ckpt.taken - Newest(ckpt.trained) \in {0, 1}
  /\ pc = "load" => ckpt.taken - Len(ckpt.trained) \in 0..crashes
  /\ pc = "first" => Follows(taken + 1)
  /\ InFlight => fut.batch = taken
  /\ pc = "await" /\ InFlight => Follows(taken)
  /\ pc \in {"sync", "launch", "train"} => Follows(cur.batch)
  /\ pc \in {"sync", "launch"} => taken = cur.batch
  /\ pc = "train" => taken = cur.batch + (IF InFlight THEN 1 ELSE 0)
  /\ pc \in {"validate", "save", "log"} =>
       taken = Newest(trained) + (IF InFlight THEN 1 ELSE 0)

\* A run that has not resumed within the first epoch, nor after the last step,
\* has a batch for each step it has still to make.
Supplied == start \notin 1..(BatchesPerEpoch - 1) /\ start < TotalSteps
SupplyInv ==
  /\ ckpt.step = 0 => ckpt.taken = 0
  /\ pc # "load" /\ Supplied =>
       /\ pc = "first" => left >= TotalSteps - step + 1
       /\ pc \in {"await", "sync", "launch"} => left >= TotalSteps - step
       /\ pc \in {"train", "validate", "save", "log"} =>
            /\ left >= TotalSteps - step - 1
            /\ step < TotalSteps => fut.st # "empty"
       /\ pc = "await" => fut.st # "empty"
       /\ pc # "raised"

IInv == TypeOK /\ WeightsInv /\ DataInv /\ SupplyInv

-----------------------------------------------------------------------------
\* Arithmetic of the epochs: a dataloader that is restored delivers at least
\* the passes after the one it is in.
LEMMA Supply ==
  /\ TotalSteps \in Nat /\ BatchesPerEpoch <= TotalSteps
  /\ Deliverable(0) = TotalSteps
  /\ \A n \in Nat : /\ Deliverable(n) \in Nat
                    /\ Deliverable(n) >= TotalSteps - BatchesPerEpoch
<1>1. TotalSteps \in Nat /\ BatchesPerEpoch <= TotalSteps
  <2>1. PICK b \in Nat \ {0}, e \in Nat \ {0} :
          b = BatchesPerEpoch /\ e = Epochs
    BY EpochsAssumption
  <2>2. b * e = b * (e - 1) + b /\ b * (e - 1) \in Nat
    BY ONLY b \in Nat \ {0}, e \in Nat \ {0}
  <2> QED
    BY <2>1, <2>2 DEF TotalSteps
<1>2. \A n \in Nat : n # 0 => (n - 1) % BatchesPerEpoch \in 0..(BatchesPerEpoch - 1)
  BY EpochsAssumption
<1> QED
  BY <1>1, <1>2, EpochsAssumption DEF Deliverable

\* Training on a batch that follows keeps the order.
LEMMA AppendSteady ==
  ASSUME NEW s \in Seq(Nat), NEW b \in Nat, Steady(s), b - Newest(s) \in {1, 2}
  PROVE  /\ Steady(Append(s, b)) /\ Newest(Append(s, b)) = b
         /\ Len(Append(s, b)) = Len(s) + 1 /\ Append(s, b) \in Seq(Nat)
<1> DEFINE t == Append(s, b)
<1>1. /\ t \in Seq(Nat) /\ Len(t) = Len(s) + 1 /\ Len(s) \in Nat
      /\ \A i \in 1..Len(s) : t[i] = s[i]
      /\ t[Len(s) + 1] = b
  OBVIOUS
<1>2. s # <<>> => Len(s) \in 1..Len(s) /\ s[Len(s)] \in Nat
  OBVIOUS
<1>3. s = <<>> => Len(s) = 0
  OBVIOUS
<1>4. t # <<>>
  BY <1>1
<1> HIDE DEF t
<1>5. Newest(t) = b
  BY <1>1, <1>4 DEF Newest
<1>6. ASSUME NEW i \in 1..(Len(t) - 1)
      PROVE  t[i + 1] \in {t[i] + 1, t[i] + 2}
  <2>1. CASE i = Len(s)
    BY <1>1, <1>2, <1>3, <1>6, <2>1 DEF Newest
  <2>2. CASE i # Len(s)
    <3>1. i \in 1..(Len(s) - 1) /\ i \in 1..Len(s) /\ i + 1 \in 1..Len(s)
      BY <1>1, <1>6, <2>2
    <3> QED
      BY <1>1, <3>1 DEF Steady
  <2> QED
    BY <2>1, <2>2
<1> QED
  BY <1>1, <1>5, <1>6 DEF Steady, t

\* The newest batch is a number, 0 of an empty sequence.
LEMMA NewestType ==
  ASSUME NEW s \in Seq(Nat)
  PROVE  Newest(s) \in Nat /\ Len(s) \in Nat
BY DEF Newest

LEMMA InitInv == Init => IInv
<1> SUFFICES ASSUME Init PROVE IInv
  OBVIOUS
<1>1. Newest(<<>>) = 0 /\ Len(<<>>) = 0 /\ Steady(<<>>) /\ <<>> \in Seq(Nat)
  BY DEF Newest, Steady
<1>2. TypeOK
  BY <1>1 DEF Init, TypeOK, Futures, NoFuture, NoBatch, NoCheckpoint
<1>3. WeightsInv /\ SupplyInv
  BY DEF Init, WeightsInv, SupplyInv, NoFuture, NoCheckpoint, InFlight
<1>4. DataInv
  BY <1>1, BoundsAssumption
     DEF Init, DataInv, Skipped, NoFuture, NoCheckpoint, InFlight
<1> QED
  BY <1>2, <1>3, <1>4 DEF IInv
LEMMA LoadInv == ASSUME IInv, Load PROVE IInv'
<1> USE DEF IInv
<1>1. /\ ckpt.step \in Nat /\ ckpt.version \in Nat /\ ckpt.taken \in Nat
      /\ ckpt.trained \in Seq(Nat) /\ fut \in Futures /\ crashes \in Nat
  BY DEF TypeOK
<1>2. /\ start' = ckpt.step /\ step' = ckpt.step + 1
      /\ actorV' = ckpt.version /\ rolloutV' = ckpt.version
      /\ trained' = ckpt.trained /\ taken' = ckpt.taken
      /\ left' = Deliverable(ckpt.taken) /\ pc' = "first" /\ pc = "load"
      /\ fut' = fut /\ cur' = cur /\ ckpt' = ckpt /\ crashes' = crashes
  BY DEF Load
<1>3. /\ Deliverable(ckpt.taken) \in Nat
      /\ Deliverable(ckpt.taken) >= TotalSteps - BatchesPerEpoch
      /\ ckpt.taken = 0 => Deliverable(ckpt.taken) = TotalSteps
      /\ TotalSteps \in Nat /\ BatchesPerEpoch \in Nat
  BY <1>1, Supply, EpochsAssumption
<1>4. TypeOK'
  BY <1>1, <1>2, <1>3 DEF TypeOK
<1>5. WeightsInv'
  BY <1>1, <1>2 DEF WeightsInv, InFlight, NoFuture
<1>6. DataInv'
  <2>1. Newest(ckpt.trained) \in Nat /\ Len(ckpt.trained) \in Nat
    BY <1>1, NewestType
  <2>2. ~InFlight'
    BY <1>2 DEF WeightsInv, InFlight, NoFuture
  <2>3. Follows(taken + 1)'
    BY SMTT(30), <1>1, <1>2, <2>1 DEF DataInv, Follows
  <2> QED
    BY <1>2, <2>2, <2>3 DEF DataInv, Skipped
<1>7. SupplyInv'
  BY ONLY <1>1, <1>2, <1>3, SupplyInv DEF SupplyInv, Supplied
<1> QED
  BY <1>4, <1>5, <1>6, <1>7

\* What a task that is launched finds.
LEMMA Generated ==
  ASSUME TypeOK, GenNextBatch
  PROVE  /\ fut' \in Futures /\ taken' \in Nat /\ left' \in Nat
         /\ \/ /\ left = 0 /\ fut'.st = "empty" /\ UNCHANGED <<taken, left>>
            \/ /\ left > 0 /\ left' = left - 1 /\ taken' = taken + 1
               /\ fut' = [st |-> "generating", batch |-> taken + 1,
                          version |-> rolloutV]
<1>1. CASE left = 0
  BY <1>1 DEF GenNextBatch, TypeOK, Futures, NoFuture
<1>2. CASE left # 0
  BY SMTT(30), <1>2 DEF GenNextBatch, TypeOK, Futures
<1> QED
  BY <1>1, <1>2

LEMMA FirstInv == ASSUME IInv, First PROVE IInv'
<1> USE DEF IInv
<1>g. TypeOK /\ GenNextBatch
  BY DEF First
<1>1. TypeOK'
  BY <1>g, Generated DEF First, TypeOK
<1>2. WeightsInv'
  BY <1>g, Generated DEF First, TypeOK, WeightsInv, InFlight, Lag
<1>3. DataInv'
  <2>1. CASE fut'.st = "empty"
    BY <2>1 DEF First, DataInv, Skipped, InFlight
  <2>2. CASE fut'.st # "empty"
    <3>1. fut'.batch = taken + 1 /\ taken' = taken + 1
      BY <1>g, <2>2, Generated
    <3>2. Follows(taken)'
      BY <3>1 DEF First, DataInv, Follows
    <3> QED
      BY <3>1, <3>2 DEF First, DataInv, Skipped
  <2> QED
    BY <2>1, <2>2
<1>4. SupplyInv'
  <2>1. TotalSteps \in Nat /\ step \in Nat /\ start \in Nat /\ left \in Nat
    BY Supply DEF TypeOK
  <2>2. ASSUME Supplied
        PROVE  left >= TotalSteps - step + 1 /\ step = start + 1
    BY <2>2 DEF First, SupplyInv, WeightsInv
  <2>3. ASSUME Supplied
        PROVE  left' >= TotalSteps - step /\ fut'.st # "empty"
    <3>1. left > 0
      BY <2>1, <2>2, <2>3 DEF Supplied
    <3>2. left' = left - 1 /\ fut'.st = "generating"
      BY <1>g, <3>1, Generated
    <3> QED
      BY <2>1, <2>2, <2>3, <3>2
  <2> QED
    BY <2>3 DEF First, SupplyInv, Supplied
<1> QED
  BY <1>1, <1>2, <1>3, <1>4

LEMMA GenerationDoneInv == ASSUME IInv, GenerationDone PROVE IInv'
<1> USE DEF IInv
<1>1. TypeOK'
  BY DEF GenerationDone, TypeOK, Futures, NoFuture, NoBatch
<1>2. WeightsInv'
  BY DEF GenerationDone, TypeOK, WeightsInv, InFlight, Lag, Gain, NoFuture
<1>3. DataInv'
  BY DEF GenerationDone, TypeOK, DataInv, Skipped, Follows, InFlight, NoFuture
<1>4. SupplyInv'
  BY DEF GenerationDone, TypeOK, SupplyInv, Supplied, NoFuture
<1> QED
  BY <1>1, <1>2, <1>3, <1>4

LEMMA AwaitInv == ASSUME IInv, Await PROVE IInv'
<1> USE DEF IInv
<1>1. TypeOK'
  BY DEF Await, TypeOK, Futures, NoFuture, NoBatch
<1>2. WeightsInv'
  BY DEF Await, TypeOK, WeightsInv, InFlight, Lag, Gain, NoFuture
<1>3. DataInv'
  BY DEF Await, TypeOK, DataInv, Skipped, Follows, InFlight, NoFuture
<1>4. SupplyInv'
  BY DEF Await, TypeOK, SupplyInv, Supplied, NoFuture
<1> QED
  BY <1>1, <1>2, <1>3, <1>4

LEMMA AwaitNoneInv == ASSUME IInv, AwaitNone PROVE IInv'
<1> USE DEF IInv
<1>1. TypeOK'
  BY DEF AwaitNone, TypeOK, Futures, NoFuture, NoBatch
<1>2. WeightsInv'
  BY DEF AwaitNone, TypeOK, WeightsInv, InFlight, Lag, Gain, NoFuture
<1>3. DataInv'
  BY DEF AwaitNone, TypeOK, DataInv, Skipped, Follows, InFlight, NoFuture
<1>4. SupplyInv'
  BY DEF AwaitNone, TypeOK, SupplyInv, Supplied, NoFuture
<1> QED
  BY <1>1, <1>2, <1>3, <1>4

LEMMA SyncInv == ASSUME IInv, Sync PROVE IInv'
<1> USE DEF IInv
<1>1. TypeOK'
  BY DEF Sync, TypeOK, Futures, NoFuture, NoBatch
<1>2. WeightsInv'
  BY DEF Sync, TypeOK, WeightsInv, InFlight, Lag, Gain, NoFuture
<1>3. DataInv'
  BY DEF Sync, TypeOK, DataInv, Skipped, Follows, InFlight, NoFuture
<1>4. SupplyInv'
  BY DEF Sync, TypeOK, SupplyInv, Supplied, NoFuture
<1> QED
  BY <1>1, <1>2, <1>3, <1>4

LEMMA LaunchInv == ASSUME IInv, Launch PROVE IInv'
<1> USE DEF IInv
<1>1. CASE IsLastStep
  <2>1. TypeOK' /\ WeightsInv'
    BY <1>1 DEF Launch, TypeOK, WeightsInv, InFlight, Lag
  <2>2. DataInv'
    BY SMTT(30), <1>1 DEF Launch, TypeOK, WeightsInv, DataInv, Skipped, Follows, InFlight
  <2>3. SupplyInv'
    BY <1>1, Supply DEF Launch, IsLastStep, TypeOK, SupplyInv, Supplied
  <2> QED
    BY <2>1, <2>2, <2>3
<1>2. CASE ~IsLastStep
  <2>g. TypeOK /\ GenNextBatch
    BY <1>2 DEF Launch
  <2>1. TypeOK'
    BY <2>g, Generated DEF Launch, TypeOK
  <2>2. WeightsInv'
    BY <2>g, Generated DEF Launch, TypeOK, WeightsInv, InFlight, Lag
  <2>3. DataInv'
    BY SMTT(30), <2>g, Generated DEF Launch, TypeOK, DataInv, Skipped, Follows, InFlight
  <2>4. SupplyInv'
    <3>1. /\ TotalSteps \in Nat /\ step \in Nat /\ left \in Nat
          /\ step < TotalSteps
      BY <1>2, Supply DEF TypeOK, IsLastStep
    <3>2. ASSUME Supplied
          PROVE  left' >= TotalSteps - step - 1 /\ fut'.st # "empty"
      <4>1. left >= TotalSteps - step /\ left > 0
        BY <3>1, <3>2 DEF Launch, SupplyInv
      <4>2. left' = left - 1 /\ fut'.st = "generating"
        BY <2>g, <4>1, Generated
      <4> QED
        BY <3>1, <4>1, <4>2
    <3> QED
      BY <3>2 DEF Launch, SupplyInv, Supplied
  <2> QED
    BY <2>1, <2>2, <2>3, <2>4
<1> QED
  BY <1>1, <1>2

LEMMA TrainInv == ASSUME IInv, Train PROVE IInv'
<1> USE DEF IInv
<1>1. /\ trained \in Seq(Nat) /\ cur.batch \in Nat
      /\ Steady(trained) /\ cur.batch - Newest(trained) \in {1, 2}
      /\ cur.batch - 1 - Len(trained) \in 0..crashes
  BY DEF Train, TypeOK, DataInv, Follows
<1>2. trained' = Append(trained, cur.batch)
  BY DEF Train
<1>3. /\ Steady(trained') /\ Newest(trained') = cur.batch
      /\ Len(trained') = Len(trained) + 1 /\ trained' \in Seq(Nat)
  BY ONLY <1>1, <1>2, AppendSteady
<1>4. TypeOK'
  BY <1>3 DEF Train, TypeOK
<1>5. WeightsInv'
  BY BoundsAssumption DEF Train, TypeOK, WeightsInv, InFlight, Lag, Gain
<1>6. DataInv'
  <2>1. Newest(trained') - Len(trained') \in 0..crashes'
    BY <1>1, <1>3, NewestType DEF Train, TypeOK
  <2>2. taken' = Newest(trained') + (IF InFlight' THEN 1 ELSE 0)
    BY <1>3 DEF Train, DataInv, InFlight
  <2>3. InFlight' = InFlight /\ UNCHANGED <<fut, ckpt, taken, crashes>>
        /\ pc' = "validate"
    BY DEF Train, InFlight
  <2> QED
    BY <1>3, <2>1, <2>2, <2>3 DEF DataInv, Skipped
<1>7. SupplyInv'
  BY DEF Train, TypeOK, SupplyInv, Supplied
<1> QED
  BY <1>4, <1>5, <1>6, <1>7

LEMMA ValidateInv == ASSUME IInv, Validate PROVE IInv'
<1> USE DEF IInv
<1>1. TypeOK'
  BY DEF Validate, TypeOK, Futures, NoFuture, NoBatch
<1>2. WeightsInv'
  BY DEF Validate, TypeOK, WeightsInv, InFlight, Lag, Gain, NoFuture
<1>3. DataInv'
  BY DEF Validate, TypeOK, DataInv, Skipped, Follows, InFlight, NoFuture
<1>4. SupplyInv'
  BY DEF Validate, TypeOK, SupplyInv, Supplied, NoFuture
<1> QED
  BY <1>1, <1>2, <1>3, <1>4

LEMMA SaveInv == ASSUME IInv, Save PROVE IInv'
<1> USE DEF IInv
<1>1. PICK esi \in BOOLEAN :
        ckpt' = IF IsLastStep \/ step % SaveFreq = 0 \/ esi
                THEN [step |-> step, version |-> actorV, taken |-> taken,
                      trained |-> trained]
                ELSE ckpt
  BY DEF Save
<1>2. \/ ckpt' = ckpt
      \/ ckpt' = [step |-> step, version |-> actorV, taken |-> taken,
                  trained |-> trained]
  BY <1>1
<1>3. TypeOK'
  BY <1>2 DEF Save, TypeOK
<1>4. WeightsInv'
  BY DEF Save, TypeOK, WeightsInv, InFlight, Gain
<1>5. DataInv'
  BY SMTT(30), <1>2, NewestType DEF Save, TypeOK, DataInv, Skipped, InFlight
<1>6. SupplyInv'
  BY <1>2 DEF Save, TypeOK, WeightsInv, SupplyInv, Supplied
<1> QED
  BY <1>3, <1>4, <1>5, <1>6

LEMMA EndStepInv == ASSUME IInv, EndStep PROVE IInv'
<1> USE DEF IInv
<1>1. TypeOK'
  BY DEF EndStep, TypeOK
<1>2. WeightsInv'
  BY BoundsAssumption DEF EndStep, TypeOK, WeightsInv, InFlight, Lag, Gain
<1>3. DataInv'
  BY NewestType DEF EndStep, TypeOK, DataInv, Skipped, Follows, InFlight
<1>4. SupplyInv'
  BY Supply DEF EndStep, IsLastStep, TypeOK, SupplyInv, Supplied
<1> QED
  BY <1>1, <1>2, <1>3, <1>4

LEMMA CrashInv == ASSUME IInv, Crash PROVE IInv'
<1> USE DEF IInv
<1>1. TypeOK'
  BY DEF Crash, TypeOK, Futures, NoFuture, NoBatch
<1>2. WeightsInv'
  BY DEF Crash, WeightsInv, InFlight, NoFuture
<1>3. DataInv'
  <2>1. /\ Newest(trained) \in Nat /\ Len(trained) \in Nat
        /\ Newest(ckpt.trained) \in Nat /\ Len(ckpt.trained) \in Nat
    BY NewestType DEF TypeOK
  <2> QED
    BY SMTT(30), <2>1 DEF Crash, TypeOK, DataInv, Skipped, InFlight, NoFuture
<1>4. SupplyInv'
  BY DEF Crash, SupplyInv
<1> QED
  BY <1>1, <1>2, <1>3, <1>4

LEMMA StutterInv == ASSUME IInv, UNCHANGED vars PROVE IInv'
BY DEF IInv, vars, TypeOK, WeightsInv, DataInv, SupplyInv, InFlight, Lag, Gain,
       Skipped, Follows, Supplied

LEMMA StepInv == IInv /\ [Next]_vars => IInv'
<1> SUFFICES ASSUME IInv, [Next]_vars PROVE IInv'
  OBVIOUS
<1>1. CASE Fit
  BY <1>1, LoadInv, FirstInv, AwaitInv, AwaitNoneInv, SyncInv, LaunchInv,
     TrainInv, ValidateInv, SaveInv, EndStepInv DEF Fit
<1>2. CASE UNCHANGED vars
  BY <1>2, StutterInv
<1> QED
  BY <1>1, <1>2, GenerationDoneInv, CrashInv DEF Next, Stopped

LEMMA Invariance == Spec => []IInv
<1> QED
  BY InitInv, StepInv, PTL DEF Spec

\* A batch is trained on by the weights after those that generated it, no
\* generation is under way while the servers' weights change, and validation
\* measures the weights of before the step's update (fit()).
THEOREM PolicyHolds == Spec => []OneStepOffPolicy
<1>1. IInv => OneStepOffPolicy
  BY DEF IInv, TypeOK, WeightsInv, OneStepOffPolicy, InFlight, Lag, Gain
<1> QED
  BY <1>1, Invariance, PTL

\* No batch is trained on twice, whatever restarts, and no crash costs more
\* than the batch that was in flight at the save (_load_checkpoint and
\* _save_checkpoint with the dataloader's state).
THEOREM DataStaysInOrder == Spec => []DataInOrder
<1>1. IInv => DataInOrder
  BY DEF IInv, DataInv, DataInOrder, Steady, Skipped, Newest
<1> QED
  BY <1>1, Invariance, PTL

\* fit() unpacks None only in a run that resumed within the first epoch or
\* after the last step.
THEOREM SupplySuffices == Spec => []NeverRunsDry
<1>1. IInv => NeverRunsDry
  BY Supply DEF IInv, TypeOK, SupplyInv, Supplied, NeverRunsDry
<1> QED
  BY <1>1, Invariance, PTL

-----------------------------------------------------------------------------
\* Numbers, sums and sequences.

\* Every nonempty set of numbers has a least.
LEMMA SmallestExists ==
  ASSUME NEW S \in SUBSET Nat, S # {}
  PROVE  \E n \in S : \A m \in S : n <= m
<1> DEFINE R == OpToRel(<, Nat)
<1>1. IsWellFoundedOn(R, Nat)
  BY NatLessThanWellFounded
<1>2. \A x, y \in Nat : x < y => <<x, y>> \in R
  BY DEF OpToRel
<1> HIDE DEF R
<1>3. \E n \in S : \A m \in S : ~(<<m, n>> \in R)
  BY <1>1, WFMin
<1>4. PICK n \in S : \A m \in S : <<m, n>> \notin R
  BY <1>3
<1>5. ASSUME NEW m \in S PROVE n <= m
  <2>1. n \in Nat /\ m \in Nat /\ ~(m < n)
    BY <1>2, <1>4
  <2> QED
    BY ONLY <2>1
<1> QED
  BY <1>5

\* Induction up to M, on a set of numbers.
LEMMA UpTo ==
  ASSUME NEW M \in Nat, NEW P, 0 \in P,
         \A n \in 0..(M - 1) : n \in P => n + 1 \in P
  PROVE  \A n \in 0..M : n \in P
<1> DEFINE Out == (0..M) \ P
<1> SUFFICES ASSUME Out # {} PROVE FALSE
  OBVIOUS
<1>0. Out \in SUBSET Nat
  OBVIOUS
<1>1. PICK n \in Out : \A m \in Out : n <= m
  <2> HIDE DEF Out
  <2> QED
    BY <1>0, SmallestExists
<1>2. n # 0 /\ n - 1 \in 0..(M - 1) /\ n - 1 \notin Out
  BY <1>1
<1>3. n - 1 \in P
  BY <1>2
<1>4. (n - 1) + 1 \in P
  BY <1>2, <1>3
<1> QED
  BY <1>1, <1>4

\* Every finite nonempty set of numbers has a greatest.
LEMMA GreatestExists ==
  ASSUME NEW S \in SUBSET Nat, S # {}, IsFiniteSet(S)
  PROVE  \E n \in S : \A m \in S : m <= n
<1>1. Cardinality(S) \in Nat /\ \E f : f \in Bijection(1..Cardinality(S), S)
  BY FS_CardinalityType DEF ExistsBijection
<1>2. PICK f : f \in Bijection(1..Cardinality(S), S)
  BY <1>1
<1> DEFINE N == Cardinality(S)
           P == {n \in 0..N : n = 0 \/ \E i \in 1..n : \A j \in 1..n : f[j] <= f[i]}
<1>3. \A i \in 1..N : f[i] \in S /\ f[i] \in Nat
  BY <1>2 DEF Bijection, Injection
<1>4. N \in Nat
  BY <1>1
<1> HIDE DEF N
<1>5. ASSUME NEW n \in 0..(N - 1), n \in P PROVE n + 1 \in P
  <2>1. CASE n = 0
    BY <2>1, <1>3, <1>4
  <2>2. CASE n # 0
    <3>1. PICK i \in 1..n : \A j \in 1..n : f[j] <= f[i]
      BY <2>2, <1>5
    <3>2. f[i] \in Nat /\ f[n + 1] \in Nat /\ \A j \in 1..n : f[j] \in Nat
      BY <1>3, <1>4
    <3>3. CASE f[i] <= f[n + 1]
      <4>1. \A j \in 1..(n + 1) : f[j] <= f[n + 1]
        BY <3>1, <3>2, <3>3, <1>4
      <4> QED
        BY <4>1, <1>4
    <3>4. CASE f[n + 1] <= f[i]
      <4>1. \A j \in 1..(n + 1) : f[j] <= f[i]
        BY <3>1, <3>2, <3>4, <1>4
      <4> QED
        BY <4>1, <1>4
    <3> QED
      BY <3>2, <3>3, <3>4
  <2> QED
    BY <2>1, <2>2
<1>6. 0 \in P
  BY <1>4
<1> HIDE DEF P
<1>7. N \in P
  BY <1>4, <1>5, <1>6, UpTo
<1>8. N # 0
  BY FS_EmptySet DEF N
<1>9. PICK i \in 1..N : \A j \in 1..N : f[j] <= f[i]
  BY <1>7, <1>8, <1>4 DEF P
<1>10. \A m \in S : \E j \in 1..N : f[j] = m
  BY <1>2 DEF Bijection, Surjection, N
<1> QED
  BY <1>3, <1>9, <1>10

-----------------------------------------------------------------------------
\* The sums that Total adds up exist.
Sums(s, rows) ==
  CHOOSE sum : sum = [n \in 0..Len(s) |->
    IF n = 0 THEN 0 ELSE sum[n - 1] + (IF n \in rows THEN s[n] ELSE 0)]

\* The sums that Total is computed by, one row after the other.
LEMMA SumsFacts ==
  ASSUME NEW s \in Seq(Nat), NEW rows
  PROVE  /\ Total(s, rows) = Sums(s, rows)[Len(s)]
         /\ Sums(s, rows)[0] = 0
         /\ \A n \in 1..Len(s) : Sums(s, rows)[n] =
              Sums(s, rows)[n - 1] + (IF n \in rows THEN s[n] ELSE 0)
         /\ \A n \in 0..Len(s) : Sums(s, rows)[n] \in Nat
<1> DEFINE w(n) == IF n \in rows THEN s[n] ELSE 0
           Good(n) == {f \in [0..n -> Nat] :
                         f[0] = 0 /\ \A m \in 1..n : f[m] = f[m - 1] + w(m)}
           P == {n \in 0..Len(s) : Good(n) # {}}
<1>1. 0 \in P
  <2>1. [m \in 0..0 |-> 0] \in Good(0)
    OBVIOUS
  <2> QED
    BY <2>1
<1>2. ASSUME NEW n \in 0..(Len(s) - 1), n \in P PROVE n + 1 \in P
  <2>1. PICK f \in Good(n) : TRUE
    BY <1>2
  <2> DEFINE g == [m \in 0..(n + 1) |-> IF m <= n THEN f[m] ELSE f[n] + w(n + 1)]
  <2>2. w(n + 1) \in Nat
    OBVIOUS
  <2>3. g \in [0..(n + 1) -> Nat] /\ g[0] = 0
    BY <2>1, <2>2
  <2>4. ASSUME NEW m \in 1..(n + 1) PROVE g[m] = g[m - 1] + w(m)
    BY <2>1
  <2>5. g \in Good(n + 1)
    BY <2>3, <2>4
  <2>6. n + 1 \in 0..Len(s)
    OBVIOUS
  <2> HIDE DEF g, Good
  <2> QED
    BY <2>5, <2>6
<1>a. Len(s) \in Nat
  OBVIOUS
<1>3. Len(s) \in P
  <2> HIDE DEF P
  <2>1. \A n \in 0..Len(s) : n \in P
    BY <1>1, <1>2, <1>a, UpTo
  <2> QED
    BY <2>1, <1>a
<1>4. PICK f \in Good(Len(s)) : TRUE
  BY <1>3
<1>5. f = [n \in 0..Len(s) |-> IF n = 0 THEN 0 ELSE f[n - 1] + w(n)]
  BY <1>4
<1> DEFINE sums == Sums(s, rows)
<1>6. sums = [n \in 0..Len(s) |-> IF n = 0 THEN 0 ELSE sums[n - 1] + w(n)]
  BY <1>5 DEF Sums
<1>7. Total(s, rows) = sums[Len(s)]
  BY DEF Total, Sums
<1> HIDE DEF sums
<1>8. sums[0] = 0 /\ \A n \in 1..Len(s) : sums[n] = sums[n - 1] + w(n)
  <2>1. sums[0] = 0
    BY <1>6
  <2>2. ASSUME NEW n \in 1..Len(s) PROVE sums[n] = sums[n - 1] + w(n)
    BY <1>6
  <2> QED
    BY <2>1, <2>2
<1>9. \A n \in 0..Len(s) : sums[n] \in Nat
  <2> DEFINE Q == {n \in 0..Len(s) : sums[n] \in Nat}
  <2>1. 0 \in Q
    BY <1>8
  <2>2. ASSUME NEW n \in 0..(Len(s) - 1), n \in Q PROVE n + 1 \in Q
    <3>1. n + 1 \in 1..Len(s) /\ w(n + 1) \in Nat /\ (n + 1) - 1 = n
      OBVIOUS
    <3> QED
      BY <3>1, <1>8, <2>2
  <2> HIDE DEF Q
  <2>3. \A n \in 0..Len(s) : n \in Q
    BY <2>1, <2>2, <1>a, UpTo
  <2> QED
    BY <2>3 DEF Q
<1> QED
  BY <1>7, <1>8, <1>9 DEF sums

\* What rows weigh is a number.
LEMMA TotalType ==
  ASSUME NEW s \in Seq(Nat), NEW rows PROVE Total(s, rows) \in Nat
BY SumsFacts

\* What two disjoint sets of rows weigh is what they weigh together.
LEMMA TotalUnion ==
  ASSUME NEW s \in Seq(Nat), NEW A, NEW B, A \cap B = {}
  PROVE  Total(s, A \cup B) = Total(s, A) + Total(s, B)
<1> DEFINE a == Sums(s, A)
           b == Sums(s, B)
           c == Sums(s, A \cup B)
           P == {n \in 0..Len(s) : c[n] = a[n] + b[n]}
<1>1. Len(s) \in Nat /\ \A n \in 1..Len(s) : s[n] \in Nat
  OBVIOUS
<1>2. /\ a[0] = 0 /\ b[0] = 0 /\ c[0] = 0
      /\ \A n \in 0..Len(s) : a[n] \in Nat /\ b[n] \in Nat /\ c[n] \in Nat
  BY SumsFacts
<1>3. \A n \in 1..Len(s) :
        /\ a[n] = a[n - 1] + (IF n \in A THEN s[n] ELSE 0)
        /\ b[n] = b[n - 1] + (IF n \in B THEN s[n] ELSE 0)
        /\ c[n] = c[n - 1] + (IF n \in A \cup B THEN s[n] ELSE 0)
  BY SumsFacts
<1>4. Total(s, A) = a[Len(s)] /\ Total(s, B) = b[Len(s)]
      /\ Total(s, A \cup B) = c[Len(s)]
  BY SumsFacts
<1> HIDE DEF a, b, c
<1>5. 0 \in P
  BY <1>1, <1>2
<1>6. ASSUME NEW n \in 0..(Len(s) - 1), n \in P PROVE n + 1 \in P
  <2>1. n + 1 \in 1..Len(s) /\ (n + 1) - 1 = n /\ n \in 0..Len(s)
    BY <1>1
  <2>2. /\ a[n + 1] = a[n] + (IF n + 1 \in A THEN s[n + 1] ELSE 0)
        /\ b[n + 1] = b[n] + (IF n + 1 \in B THEN s[n + 1] ELSE 0)
        /\ c[n + 1] = c[n] + (IF n + 1 \in A \cup B THEN s[n + 1] ELSE 0)
    BY <1>3, <2>1
  <2>3. c[n] = a[n] + b[n]
    BY <1>6
  <2>4. a[n] \in Nat /\ b[n] \in Nat /\ s[n + 1] \in Nat
    BY <1>1, <1>2, <2>1
  <2>5. c[n + 1] = a[n + 1] + b[n + 1]
    BY <2>2, <2>3, <2>4
  <2> QED
    BY <2>1, <2>5
<1>7. \A n \in 0..Len(s) : n \in P
  <2> HIDE DEF P
  <2> QED
    BY <1>1, <1>5, <1>6, UpTo
<1> QED
  BY <1>1, <1>4, <1>7

\* No rows weigh nothing, and one row weighs what is said of it.
LEMMA TotalFew ==
  ASSUME NEW s \in Seq(Nat)
  PROVE  /\ Total(s, {}) = 0
         /\ \A i \in 1..Len(s) : Total(s, {i}) = s[i]
<1>1. Len(s) \in Nat /\ \A n \in 1..Len(s) : s[n] \in Nat
  OBVIOUS
<1>2. Total(s, {}) = 0
  <2>1. {} \cap {} = {} /\ {} \cup {} = {}
    OBVIOUS
  <2>2. Total(s, {}) = Total(s, {}) + Total(s, {})
    BY <2>1, TotalUnion
  <2> QED
    BY <2>2, TotalType
<1>3. ASSUME NEW i \in 1..Len(s) PROVE Total(s, {i}) = s[i]
  <2> DEFINE a == Sums(s, {i})
             P == {n \in 0..Len(s) : a[n] = IF n < i THEN 0 ELSE s[i]}
  <2>1. /\ a[0] = 0 /\ \A n \in 0..Len(s) : a[n] \in Nat
        /\ \A n \in 1..Len(s) : a[n] = a[n - 1] + (IF n \in {i} THEN s[n] ELSE 0)
        /\ Total(s, {i}) = a[Len(s)]
    BY SumsFacts
  <2> HIDE DEF a
  <2>2. 0 \in P
    BY <1>1, <2>1
  <2>3. ASSUME NEW n \in 0..(Len(s) - 1), n \in P PROVE n + 1 \in P
    <3>1. n + 1 \in 1..Len(s) /\ (n + 1) - 1 = n
      BY <1>1
    <3>2. a[n + 1] = a[n] + (IF n + 1 = i THEN s[n + 1] ELSE 0)
      BY <2>1, <3>1
    <3>3. a[n] = IF n < i THEN 0 ELSE s[i]
      BY <2>3
    <3>4. s[i] \in Nat /\ s[n + 1] \in Nat
      BY <1>1, <3>1
    <3>5. a[n + 1] = IF n + 1 < i THEN 0 ELSE s[i]
      <4>1. CASE n + 1 = i
        BY <4>1, <3>2, <3>3, <3>4
      <4>2. CASE n + 1 # i
        BY <4>2, <3>2, <3>3, <3>4
      <4> QED
        BY <4>1, <4>2
    <3> QED
      BY <3>1, <3>5
  <2>4. \A n \in 0..Len(s) : n \in P
    <3> HIDE DEF P
    <3> QED
      BY <1>1, <2>2, <2>3, UpTo
  <2> QED
    BY <1>1, <2>1, <2>4
<1> QED
  BY <1>2, <1>3

\* Rows that each weigh something weigh something.
LEMMA TotalPositive ==
  ASSUME NEW s \in Seq(Nat \ {0}), NEW rows \in SUBSET DOMAIN s, rows # {}
  PROVE  Total(s, rows) > 0
<1>1. PICK i \in rows : TRUE
  OBVIOUS
<1>2. s \in Seq(Nat) /\ i \in 1..Len(s) /\ s[i] \in Nat \ {0}
  BY <1>1
<1>3. rows = (rows \ {i}) \cup {i} /\ (rows \ {i}) \cap {i} = {}
  BY <1>1
<1>4. Total(s, rows) = Total(s, rows \ {i}) + Total(s, {i})
  BY <1>2, <1>3, TotalUnion
<1>5. Total(s, {i}) = s[i] /\ Total(s, rows \ {i}) \in Nat
  BY <1>2, TotalFew, TotalType
<1> QED
  BY <1>2, <1>4, <1>5

-----------------------------------------------------------------------------
\* Two finite sets of which one is a strict part of the other.
LEMMA StrictPart ==
  ASSUME NEW T, IsFiniteSet(T), NEW S \in SUBSET T, S # T
  PROVE  /\ IsFiniteSet(S) /\ Cardinality(S) \in Nat /\ Cardinality(T) \in Nat
         /\ Cardinality(S) < Cardinality(T)
BY FS_Subset, FS_CardinalityType

\* A relation orders a set when it is a strict total order of it.
OrderOf(R, S) ==
  /\ \A x \in S : <<x, x>> \notin R
  /\ \A x, y, z \in S : <<x, y>> \in R /\ <<y, z>> \in R => <<x, z>> \in R
  /\ \A x, y \in S : x = y \/ <<x, y>> \in R \/ <<y, x>> \in R

\* A sequence without repetitions that holds S.
Lists(s, S) ==
  /\ s \in Seq(S)
  /\ \A i, j \in 1..Len(s) : s[i] = s[j] => i = j
  /\ \A x \in S : \E i \in 1..Len(s) : s[i] = x

\* Sorted lists the set in the order of the relation.
LEMMA SortedFacts ==
  ASSUME NEW S, IsFiniteSet(S), NEW R, OrderOf(R, S)
  PROVE  /\ Lists(Sorted(S, R), S)
         /\ Len(Sorted(S, R)) = Cardinality(S) /\ Cardinality(S) \in Nat
         /\ \A i, j \in 1..Cardinality(S) :
              i < j => <<Sorted(S, R)[i], Sorted(S, R)[j]>> \in R
<1> DEFINE N == Cardinality(S)
           below(x) == {y \in S : <<y, x>> \in R}
           place == [x \in S |-> Cardinality(below(x)) + 1]
           f == [n \in 1..N |-> CHOOSE x \in S : Cardinality(below(x)) = n - 1]
<1>1. N \in Nat
  BY FS_CardinalityType
<1>2. ASSUME NEW x \in S PROVE Cardinality(below(x)) \in 0..(N - 1)
  <2>1. below(x) \in SUBSET S /\ below(x) # S
    BY DEF OrderOf
  <2> HIDE DEF below
  <2>2. Cardinality(below(x)) \in Nat /\ Cardinality(below(x)) < N
    BY <2>1, StrictPart
  <2> QED
    BY <1>1, <2>2
<1>3. ASSUME NEW x \in S, NEW y \in S, <<x, y>> \in R
      PROVE  Cardinality(below(x)) < Cardinality(below(y))
  <2>1. below(x) \in SUBSET below(y) /\ below(x) # below(y)
    BY <1>3 DEF OrderOf
  <2>2. IsFiniteSet(below(y))
    BY FS_Subset
  <2> QED
    BY <2>1, <2>2, StrictPart
<1> HIDE DEF below
<1>a. \A x, y \in S :
        <<x, y>> \in R => Cardinality(below(x)) < Cardinality(below(y))
  BY <1>3
<1>b. \A x \in S : Cardinality(below(x)) \in Nat
  BY <1>1, <1>2
<1>c. \A x, y \in S : Cardinality(below(x)) = Cardinality(below(y)) => x = y
  <2> SUFFICES ASSUME NEW x \in S, NEW y \in S,
                      Cardinality(below(x)) = Cardinality(below(y)), x # y
               PROVE  FALSE
    OBVIOUS
  <2>1. <<x, y>> \in R \/ <<y, x>> \in R
    BY DEF OrderOf
  <2>2. Cardinality(below(x)) < Cardinality(below(y))
        \/ Cardinality(below(y)) < Cardinality(below(x))
    BY <2>1, <1>a
  <2> QED
    BY <2>2, <1>b
<1>4. place \in Injection(S, 1..N)
  <2>1. place \in [S -> 1..N]
    BY <1>1, <1>2
  <2>2. ASSUME NEW x \in S, NEW y \in S, place[x] = place[y] PROVE x = y
    <3>1. Cardinality(below(x)) = Cardinality(below(y))
      BY <2>2, <1>1, <1>2
    <3> QED
      BY <3>1, <1>c
  <2>3. \A x, y \in S : place[x] = place[y] => x = y
    BY <2>2
  <2> HIDE DEF place
  <2> QED
    BY <2>1, <2>3 DEF Injection, IsInjective
<1>5. IsFiniteSet(1..N) /\ Cardinality(1..N) = N
  BY <1>1, FS_Interval
<1>6. place \in Surjection(S, 1..N)
  <2> HIDE DEF place
  <2> QED
    BY <1>4, <1>5, FS_Injection DEF N
<1>7. ASSUME NEW n \in 1..N
      PROVE  f[n] \in S /\ Cardinality(below(f[n])) = n - 1
  <2>1. PICK x \in S : place[x] = n
    BY <1>6 DEF Surjection
  <2>2. Cardinality(below(x)) = n - 1
    BY <2>1, <1>1, <1>2
  <2> QED
    BY <2>2
<1>d. f \in [1..N -> S]
  BY <1>7
<1> HIDE DEF f
<1>8. f \in Seq(S) /\ Len(f) = N
  BY <1>1, <1>d
<1>9. Sorted(S, R) = f
  <2>1. SubSeq(f, 1, Len(f)) = f
    BY <1>8
  <2> QED
    BY <2>1 DEF Sorted, Evaluated, f, below
<1>10. ASSUME NEW i \in 1..N, NEW j \in 1..N, f[i] = f[j] PROVE i = j
  <2>1. i - 1 = j - 1
    BY <1>7, <1>10
  <2> QED
    BY <2>1
<1>11. ASSUME NEW x \in S PROVE \E i \in 1..N : f[i] = x
  <2>1. place[x] \in 1..N /\ place[x] - 1 = Cardinality(below(x))
    BY <1>1, <1>2
  <2> DEFINE i == place[x]
  <2>2. f[i] \in S /\ Cardinality(below(f[i])) = Cardinality(below(x))
    BY <1>7, <2>1
  <2>4. f[i] = x
    BY <2>2, <1>c
  <2> QED
    BY <2>1, <2>4
<1>12. ASSUME NEW i \in 1..N, NEW j \in 1..N, i < j PROVE <<f[i], f[j]>> \in R
  <2>1. f[i] \in S /\ f[j] \in S /\ Cardinality(below(f[i])) = i - 1
        /\ Cardinality(below(f[j])) = j - 1
    BY <1>7
  <2>2. f[i] # f[j]
    BY <2>1, <1>12
  <2>3. <<f[j], f[i]>> \notin R
    BY <2>1, <1>a, <1>12
  <2> QED
    BY <2>1, <2>2, <2>3 DEF OrderOf
<1> QED
  BY <1>1, <1>8, <1>9, <1>10, <1>11, <1>12 DEF Lists

\* The sequences that FlattenSeq puts together exist.
Flats(ss) ==
  CHOOSE f : f = [i \in 1..Len(ss) |->
                    IF i = 1 THEN ss[i] ELSE f[i - 1] \o ss[i]]

\* The concatenations that FlattenSeq is computed by.
LEMMA FlatsFacts ==
  ASSUME NEW S, NEW ss \in Seq(Seq(S)), ss # <<>>
  PROVE  /\ FlattenSeq(ss) = Flats(ss)[Len(ss)]
         /\ Flats(ss)[1] = ss[1]
         /\ \A n \in 1..(Len(ss) - 1) : Flats(ss)[n + 1] = Flats(ss)[n] \o ss[n + 1]
<1> DEFINE N == Len(ss)
           Good(n) == {f \in [1..(n + 1) -> Seq(S)] :
                         /\ f[1] = ss[1]
                         /\ \A m \in 1..n : f[m + 1] = f[m] \o ss[m + 1]}
           P == {n \in 0..(N - 1) : Good(n) # {}}
<1>1. N \in Nat \ {0} /\ N - 1 \in Nat /\ \A n \in 1..N : ss[n] \in Seq(S)
  OBVIOUS
<1> HIDE DEF N
<1>2. 0 \in P
  <2>1. [m \in 1..1 |-> ss[1]] \in Good(0)
    BY <1>1
  <2> HIDE DEF Good
  <2> QED
    BY <1>1, <2>1
<1>3. ASSUME NEW n \in 0..((N - 1) - 1), n \in P PROVE n + 1 \in P
  <2>1. PICK f \in Good(n) : TRUE
    BY <1>3
  <2> DEFINE g == [m \in 1..(n + 2) |-> IF m <= n + 1 THEN f[m]
                                        ELSE f[n + 1] \o ss[n + 2]]
  <2>2. n \in Nat /\ n + 2 \in 1..N /\ n + 1 \in 0..(N - 1) /\ (n + 1) + 1 = n + 2
    BY <1>1
  <2>3. ss[n + 2] \in Seq(S) /\ f[n + 1] \in Seq(S)
    BY <1>1, <2>1, <2>2
  <2>a. f[n + 1] \o ss[n + 2] \in Seq(S)
    BY <2>3
  <2>4. g \in [1..(n + 2) -> Seq(S)] /\ g[1] = ss[1]
    BY <2>1, <2>2, <2>a
  <2>5. ASSUME NEW m \in 1..(n + 1) PROVE g[m + 1] = g[m] \o ss[m + 1]
    <3>1. CASE m = n + 1
      <4>1. m + 1 = n + 2 /\ m + 1 \in 1..(n + 2) /\ m \in 1..(n + 2)
            /\ ~(m + 1 <= n + 1) /\ m <= n + 1
        BY <3>1, <2>2
      <4>2. g[m + 1] = f[n + 1] \o ss[n + 2] /\ g[m] = f[n + 1]
        BY <4>1, <3>1
      <4> QED
        BY <4>1, <4>2
    <3>2. CASE m # n + 1
      <4>1. m \in 1..n /\ g[m + 1] = f[m + 1] /\ g[m] = f[m]
        BY <3>2, <2>2
      <4> QED
        BY <4>1, <2>1
    <3> QED
      BY <3>1, <3>2
  <2>6. g \in Good(n + 1)
    BY <2>2, <2>4, <2>5
  <2> HIDE DEF g, Good
  <2> QED
    BY <2>2, <2>6
<1>4. N - 1 \in P
  <2> HIDE DEF P
  <2>1. \A n \in 0..(N - 1) : n \in P
    BY <1>1, <1>2, <1>3, UpTo
  <2> QED
    BY <2>1, <1>1
<1>5. PICK f \in Good(N - 1) : TRUE
  BY <1>4
<1>6. \A m \in 1..(N - 1) : f[m + 1] = f[m] \o ss[m + 1]
  BY <1>5
<1>7. f = [i \in 1..N |-> IF i = 1 THEN ss[i] ELSE f[i - 1] \o ss[i]]
  <2>1. f \in [1..N -> Seq(S)] /\ f[1] = ss[1]
    BY <1>1, <1>5
  <2>2. ASSUME NEW i \in 1..N, i # 1 PROVE f[i] = f[i - 1] \o ss[i]
    <3>1. i - 1 \in 1..(N - 1) /\ (i - 1) + 1 = i
      BY <1>1, <2>2
    <3> QED
      BY <3>1, <1>6
  <2>3. f = [i \in 1..N |-> f[i]]
    BY <2>1
  <2> QED
    BY <2>1, <2>2, <2>3
<1> DEFINE flats == Flats(ss)
<1>8. flats = [i \in 1..N |-> IF i = 1 THEN ss[i] ELSE flats[i - 1] \o ss[i]]
  BY <1>7 DEF Flats, N
<1>9. FlattenSeq(ss) = flats[N]
  BY <1>1 DEF FlattenSeq, Flats, N
<1> HIDE DEF flats
<1>10. flats[1] = ss[1]
  BY <1>1, <1>8
<1>11. ASSUME NEW n \in 1..(N - 1) PROVE flats[n + 1] = flats[n] \o ss[n + 1]
  <2>1. n + 1 \in 1..N /\ n + 1 # 1 /\ (n + 1) - 1 = n
    BY <1>1
  <2> QED
    BY <2>1, <1>8
<1> QED
  BY <1>9, <1>10, <1>11 DEF flats, N

\* What the first t sequences of ss are together.
FlatTo(ss, t) == FlattenSeq(SubSeq(ss, 1, t))

\* One sequence more makes the concatenation as much longer.
LEMMA FlatToFacts ==
  ASSUME NEW S, NEW ss \in Seq(Seq(S))
  PROVE  /\ FlatTo(ss, 0) = <<>>
         /\ FlatTo(ss, Len(ss)) = FlattenSeq(ss)
         /\ \A t \in 0..(Len(ss) - 1) :
              FlatTo(ss, t + 1) = FlatTo(ss, t) \o ss[t + 1]
         /\ \A t \in 0..Len(ss) : FlatTo(ss, t) \in Seq(S)
<1> DEFINE N == Len(ss)
           P == {t \in 0..N : t > 0 => FlatTo(ss, t) = Flats(ss)[t]
                                       /\ Flats(ss)[t] \in Seq(S)}
<1>1. N \in Nat /\ \A n \in 1..N : ss[n] \in Seq(S)
  OBVIOUS
<1>2. FlatTo(ss, 0) = <<>>
  BY DEF FlatTo, FlattenSeq
<1>3. FlatTo(ss, N) = FlattenSeq(ss)
  <2>1. SubSeq(ss, 1, N) = ss
    OBVIOUS
  <2> QED
    BY <2>1 DEF FlatTo
<1>4. ASSUME NEW t \in 1..N
      PROVE  /\ SubSeq(ss, 1, t) \in Seq(Seq(S)) /\ Len(SubSeq(ss, 1, t)) = t
             /\ \A n \in 1..t : SubSeq(ss, 1, t)[n] = ss[n]
  OBVIOUS
<1>5. ASSUME NEW t \in 1..N
      PROVE  FlatTo(ss, t) = Flats(ss)[t]
  <2> DEFINE part == SubSeq(ss, 1, t)
             Q == {n \in 0..(t - 1) : Flats(part)[n + 1] = Flats(ss)[n + 1]}
  <2>1. part \in Seq(Seq(S)) /\ Len(part) = t /\ \A n \in 1..t : part[n] = ss[n]
    BY <1>4
  <2> HIDE DEF part
  <2>a. t \in Nat /\ t - 1 \in Nat /\ t >= 1
    BY <1>1
  <2>b. part # <<>> /\ ss # <<>>
    BY <2>1, <2>a, <1>1
  <2>2. FlattenSeq(part) = Flats(part)[t]
    BY <2>1, <2>b, FlatsFacts
  <2>3. 0 \in Q
    <3>1. Flats(part)[1] = part[1] /\ Flats(ss)[1] = ss[1]
      BY <2>1, <2>b, FlatsFacts
    <3>2. part[1] = ss[1] /\ 0 \in 0..(t - 1) /\ 0 + 1 = 1
      BY <2>1, <2>a
    <3> QED
      BY <3>1, <3>2
  <2>4. ASSUME NEW n \in 0..((t - 1) - 1), n \in Q PROVE n + 1 \in Q
    <3>1. n + 1 \in 1..(t - 1) /\ n + 1 \in 1..(N - 1) /\ (n + 1) + 1 \in 1..t
          /\ n + 1 \in 0..(t - 1)
      BY <1>1, <2>a
    <3>2. Flats(part)[(n + 1) + 1] = Flats(part)[n + 1] \o part[(n + 1) + 1]
      BY <2>1, <2>b, <3>1, FlatsFacts
    <3>3. Flats(ss)[(n + 1) + 1] = Flats(ss)[n + 1] \o ss[(n + 1) + 1]
      BY <2>b, <3>1, FlatsFacts
    <3>4. Flats(part)[n + 1] = Flats(ss)[n + 1] /\ part[(n + 1) + 1] = ss[(n + 1) + 1]
      BY <2>1, <2>4, <3>1
    <3> QED
      BY <3>1, <3>2, <3>3, <3>4
  <2>5. \A n \in 0..(t - 1) : n \in Q
    <3> HIDE DEF Q
    <3> QED
      BY <2>a, <2>3, <2>4, UpTo
  <2>c. t - 1 \in 0..(t - 1) /\ (t - 1) + 1 = t
    BY <2>a
  <2>d. t - 1 \in Q
    BY <2>c, <2>5
  <2>6. Flats(part)[t] = Flats(ss)[t]
    BY <2>c, <2>d
  <2> QED
    BY <2>2, <2>6 DEF FlatTo, part
<1>6. ASSUME NEW t \in 0..(N - 1)
      PROVE  FlatTo(ss, t + 1) = FlatTo(ss, t) \o ss[t + 1]
  <2>1. ss # <<>> /\ t + 1 \in 1..N
    BY <1>1
  <2>2. CASE t = 0
    <3>a. Flats(ss)[1] = ss[1]
      BY <2>1, FlatsFacts
    <3>b. 1 \in 1..N /\ t + 1 = 1
      BY <2>1, <2>2
    <3>1. FlatTo(ss, 1) = ss[1]
      BY <3>a, <3>b, <1>5
    <3>2. ss[1] \in Seq(S)
      BY <3>b, <1>1
    <3>3. <<>> \o ss[1] = ss[1]
      BY <3>2
    <3> QED
      BY <2>2, <3>b, <3>1, <3>3, <1>2
  <2>3. CASE t # 0
    <3>1. t \in 1..(N - 1) /\ t \in 1..N
      BY <2>3, <1>1
    <3>2. FlatTo(ss, t + 1) = Flats(ss)[t + 1] /\ FlatTo(ss, t) = Flats(ss)[t]
      BY <3>1, <2>1, <1>5
    <3>3. Flats(ss)[t + 1] = Flats(ss)[t] \o ss[t + 1]
      BY <3>1, <2>1, FlatsFacts
    <3> QED
      BY <3>2, <3>3
  <2> QED
    BY <2>2, <2>3
<1>7. \A t \in 0..N : FlatTo(ss, t) \in Seq(S)
  <2> DEFINE R == {t \in 0..N : FlatTo(ss, t) \in Seq(S)}
  <2>1. 0 \in R
    <3>1. <<>> \in Seq(S) /\ 0 \in 0..N
      BY <1>1
    <3> QED
      BY <3>1, <1>2
  <2>2. ASSUME NEW t \in 0..(N - 1), t \in R PROVE t + 1 \in R
    <3>1. t + 1 \in 1..N /\ ss[t + 1] \in Seq(S) /\ FlatTo(ss, t) \in Seq(S)
      BY <1>1, <2>2
    <3>2. FlatTo(ss, t) \o ss[t + 1] \in Seq(S)
      BY <3>1
    <3>3. FlatTo(ss, t + 1) = FlatTo(ss, t) \o ss[t + 1]
      BY <1>6
    <3>4. FlatTo(ss, t + 1) \in Seq(S)
      BY <3>2, <3>3
    <3>5. t + 1 \in 0..N
      BY <3>1
    <3> QED
      BY <3>4, <3>5
  <2>3. \A t \in 0..N : t \in R
    <3> HIDE DEF R
    <3> QED
      BY <1>1, <2>1, <2>2, UpTo
  <2> QED
    BY <2>3
<1> QED
  BY <1>2, <1>3, <1>6, <1>7

\* The elements of a sequence that two others make.
LEMMA Concat ==
  ASSUME NEW S, NEW a \in Seq(S), NEW b \in Seq(S)
  PROVE  /\ a \o b \in Seq(S) /\ Len(a \o b) = Len(a) + Len(b)
         /\ \A i \in 1..Len(a) : (a \o b)[i] = a[i]
         /\ \A i \in 1..Len(b) : (a \o b)[Len(a) + i] = b[i]
         /\ \A i \in 1..Len(a \o b) :
              i \in 1..Len(a) \/ \E j \in 1..Len(b) : i = Len(a) + j
<1>1. a \o b \in Seq(S) /\ Len(a \o b) = Len(a) + Len(b)
  OBVIOUS
<1>2. \A i \in 1..Len(a) : (a \o b)[i] = a[i]
  OBVIOUS
<1>3. ASSUME NEW i \in 1..Len(b) PROVE (a \o b)[Len(a) + i] = b[i]
  OBVIOUS
<1>4. ASSUME NEW i \in 1..Len(a \o b), i \notin 1..Len(a)
      PROVE  \E j \in 1..Len(b) : i = Len(a) + j
  <2>1. Len(a) \in Nat /\ Len(b) \in Nat
    OBVIOUS
  <2>2. i - Len(a) \in 1..Len(b) /\ i = Len(a) + (i - Len(a))
    BY <2>1, <1>1, <1>4
  <2> QED
    BY <2>2
<1> QED
  BY <1>1, <1>2, <1>3, <1>4

\* What FlattenSeq has put together stays where it is.
LEMMA FlatPrefix ==
  ASSUME NEW S, NEW ss \in Seq(Seq(S)), NEW t \in 0..Len(ss)
  PROVE  \A u \in t..Len(ss) :
           /\ Len(FlatTo(ss, t)) <= Len(FlatTo(ss, u))
           /\ \A i \in 1..Len(FlatTo(ss, t)) : FlatTo(ss, u)[i] = FlatTo(ss, t)[i]
<1> DEFINE N == Len(ss)
           Kept(u) == /\ Len(FlatTo(ss, t)) <= Len(FlatTo(ss, u))
                      /\ \A i \in 1..Len(FlatTo(ss, t)) :
                           FlatTo(ss, u)[i] = FlatTo(ss, t)[i]
           P == {u \in 0..N : u >= t => Kept(u)}
<1>1. N \in Nat /\ t \in Nat
  OBVIOUS
<1>2. \A u \in 0..N : FlatTo(ss, u) \in Seq(S)
  BY FlatToFacts
<1>3. Kept(t)
  <2>1. Len(FlatTo(ss, t)) \in Nat
    BY <1>2
  <2> QED
    BY <2>1
<1>4. 0 \in P
  BY <1>1, <1>3
<1>5. ASSUME NEW u \in 0..(N - 1), u \in P PROVE u + 1 \in P
  <2>1. CASE u + 1 <= t
    BY <2>1, <1>1, <1>3
  <2>2. CASE u + 1 > t
    <3>1. Kept(u) /\ u + 1 \in 1..N /\ u \in 0..N
      BY <2>2, <1>1, <1>5
    <3>2. ss[u + 1] \in Seq(S) /\ FlatTo(ss, u) \in Seq(S) /\ FlatTo(ss, t) \in Seq(S)
      BY <1>2, <3>1
    <3>3. FlatTo(ss, u + 1) = FlatTo(ss, u) \o ss[u + 1]
      BY FlatToFacts
    <3>4. /\ Len(FlatTo(ss, u + 1)) = Len(FlatTo(ss, u)) + Len(ss[u + 1])
          /\ \A i \in 1..Len(FlatTo(ss, u)) : FlatTo(ss, u + 1)[i] = FlatTo(ss, u)[i]
      BY <3>2, <3>3, Concat
    <3>5. Len(FlatTo(ss, u)) \in Nat /\ Len(ss[u + 1]) \in Nat /\ Len(FlatTo(ss, t)) \in Nat
      BY <3>2
    <3>6. Kept(u + 1)
      BY <3>1, <3>4, <3>5
    <3> HIDE DEF Kept
    <3> QED
      BY <3>1, <3>6
  <2> QED
    BY <2>1, <2>2, <1>1
<1>6. \A u \in 0..N : u \in P
  <2> HIDE DEF P
  <2> QED
    BY <1>1, <1>4, <1>5, UpTo
<1>7. ASSUME NEW u \in t..N PROVE Kept(u)
  <2>1. u \in 0..N /\ u >= t
    BY <1>1
  <2> QED
    BY <2>1, <1>6
<1> QED
  BY <1>7

\* The elements of what is put together are those of its parts.
LEMMA FlatElements ==
  ASSUME NEW S, NEW ss \in Seq(Seq(S)), NEW t \in 0..Len(ss)
  PROVE  /\ \A i \in 1..Len(FlatTo(ss, t)) :
              \E m \in 1..t : \E j \in 1..Len(ss[m]) : FlatTo(ss, t)[i] = ss[m][j]
         /\ \A m \in 1..t : \A j \in 1..Len(ss[m]) :
              \E i \in 1..Len(FlatTo(ss, t)) : FlatTo(ss, t)[i] = ss[m][j]
<1> DEFINE N == Len(ss)
           Into(u) == \A i \in 1..Len(FlatTo(ss, u)) :
             \E m \in 1..u : \E j \in 1..Len(ss[m]) : FlatTo(ss, u)[i] = ss[m][j]
           Held(s, u) == \A m \in 1..u : \A j \in 1..Len(ss[m]) :
             \E i \in 1..Len(s) : s[i] = ss[m][j]
           From(u) == Held(FlatTo(ss, u), u)
           P == {u \in 0..N : Into(u) /\ From(u)}
<1>1. N \in Nat /\ \A n \in 1..N : ss[n] \in Seq(S)
  OBVIOUS
<1>2. \A u \in 0..N : FlatTo(ss, u) \in Seq(S)
  BY FlatToFacts
<1>3. 0 \in P
  <2>1. FlatTo(ss, 0) = <<>>
    BY FlatToFacts
  <2> QED
    BY <2>1, <1>1
<1>4. ASSUME NEW u \in 0..(N - 1), u \in P PROVE u + 1 \in P
  <2> DEFINE a == FlatTo(ss, u)
             b == ss[u + 1]
  <2>1. u + 1 \in 1..N /\ u + 1 \in 0..N /\ u \in 0..N /\ u + 1 \in 1..(u + 1)
    BY <1>1
  <2>2. a \in Seq(S) /\ b \in Seq(S)
    BY <1>1, <1>2, <2>1
  <2>3. FlatTo(ss, u + 1) = a \o b
    BY FlatToFacts
  <2>4. Into(u) /\ From(u)
    BY <1>4
  <2>5. \A m \in 1..u : m \in 1..(u + 1)
    BY <2>1
  <2>6. /\ Len(a \o b) = Len(a) + Len(b)
        /\ \A i \in 1..Len(a) : (a \o b)[i] = a[i]
        /\ \A i \in 1..Len(b) : (a \o b)[Len(a) + i] = b[i]
        /\ \A i \in 1..Len(a \o b) :
             i \in 1..Len(a) \/ \E j \in 1..Len(b) : i = Len(a) + j
    BY <2>2, Concat
  <2>7. Len(a) \in Nat /\ Len(b) \in Nat
    BY <2>2
  <2>8. Into(u + 1)
    <3> SUFFICES ASSUME NEW i \in 1..Len(a \o b)
                 PROVE  \E m \in 1..(u + 1) : \E j \in 1..Len(ss[m]) :
                          (a \o b)[i] = ss[m][j]
      BY <2>3
    <3>1. CASE i \in 1..Len(a)
      <4>1. PICK m \in 1..u : \E j \in 1..Len(ss[m]) : a[i] = ss[m][j]
        BY <3>1, <2>4
      <4> HIDE DEF a, b
      <4> QED
        BY <4>1, <3>1, <2>5, <2>6
    <3>2. CASE \E j \in 1..Len(b) : i = Len(a) + j
      <4>1. PICK j \in 1..Len(b) : i = Len(a) + j
        BY <3>2
      <4>2. (a \o b)[i] = ss[u + 1][j] /\ j \in 1..Len(ss[u + 1])
        BY <4>1, <2>6
      <4> HIDE DEF a, b
      <4> QED
        BY <4>2, <2>1
    <3> QED
      BY <3>1, <3>2, <2>6
  <2>9. Held(a \o b, u + 1)
    <3> SUFFICES ASSUME NEW m \in 1..(u + 1), NEW j \in 1..Len(ss[m])
                 PROVE  \E i \in 1..Len(a \o b) : (a \o b)[i] = ss[m][j]
      OBVIOUS
    <3>1. CASE m = u + 1
      <4>1. j \in 1..Len(b) /\ Len(a) + j \in 1..Len(a \o b)
        BY <3>1, <2>6, <2>7
      <4> QED
        BY <4>1, <3>1, <2>6
    <3>2. CASE m # u + 1
      <4>1. m \in 1..u
        BY <3>2, <2>1
      <4>2. PICK i \in 1..Len(a) : a[i] = ss[m][j]
        BY <4>1, <2>4
      <4>3. i \in 1..Len(a \o b)
        BY <4>2, <2>6, <2>7
      <4> HIDE DEF a, b
      <4> QED
        BY <4>2, <4>3, <2>6
    <3> QED
      BY <3>1, <3>2
  <2> HIDE DEF Held
  <2>10. From(u + 1)
    BY <2>3, <2>9
  <2> HIDE DEF Into, From
  <2> QED
    BY <2>1, <2>8, <2>10
<1>5. \A u \in 0..N : u \in P
  <2> HIDE DEF P
  <2> QED
    BY <1>1, <1>3, <1>4, UpTo
<1> QED
  BY <1>5

\* Parts of a set: sequences that hold it together, without repetitions.
Parts(ss, S) ==
  /\ ss \in Seq(Seq(S))
  /\ \A m, n \in 1..Len(ss) :
       \A i \in 1..Len(ss[m]), j \in 1..Len(ss[n]) :
         ss[m][i] = ss[n][j] => m = n /\ i = j
  /\ \A x \in S : \E m \in 1..Len(ss) : \E i \in 1..Len(ss[m]) : ss[m][i] = x

\* Parts of a set, one after the other, list it.
LEMMA PartsListed ==
  ASSUME NEW S, NEW ss, Parts(ss, S)
  PROVE  Lists(FlattenSeq(ss), S)
<1> DEFINE N == Len(ss)
           Once(u) == \A i, j \in 1..Len(FlatTo(ss, u)) :
                        FlatTo(ss, u)[i] = FlatTo(ss, u)[j] => i = j
           P == {u \in 0..N : Once(u)}
<1>1. ss \in Seq(Seq(S)) /\ N \in Nat /\ \A n \in 1..N : ss[n] \in Seq(S)
  BY DEF Parts
<1>2. \A u \in 0..N : FlatTo(ss, u) \in Seq(S)
  BY <1>1, FlatToFacts
<1>b. \A t \in 0..Len(ss) :
        /\ \A i \in 1..Len(FlatTo(ss, t)) :
             \E m \in 1..t : \E j \in 1..Len(ss[m]) : FlatTo(ss, t)[i] = ss[m][j]
        /\ \A m \in 1..t : \A j \in 1..Len(ss[m]) :
             \E i \in 1..Len(FlatTo(ss, t)) : FlatTo(ss, t)[i] = ss[m][j]
  <2>1. ss \in Seq(Seq(S))
    BY <1>1
  <2> QED
    BY ONLY ZenonT(30), <2>1, FlatElements
<1>3. 0 \in P
  <2>1. FlatTo(ss, 0) = <<>>
    BY <1>1, FlatToFacts
  <2> QED
    BY <2>1, <1>1
<1>4. ASSUME NEW u \in 0..(N - 1), u \in P PROVE u + 1 \in P
  <2> DEFINE a == FlatTo(ss, u)
             b == ss[u + 1]
  <2>1. u + 1 \in 1..N /\ u + 1 \in 0..N /\ u \in 0..N
        /\ \A m \in 1..u : m \in 1..N /\ m # u + 1
    BY <1>1
  <2>2. a \in Seq(S) /\ b \in Seq(S)
    BY <1>1, <1>2, <2>1
  <2>3. FlatTo(ss, u + 1) = a \o b
    BY <1>1, FlatToFacts
  <2>4. \A i, j \in 1..Len(a) : a[i] = a[j] => i = j
    BY <1>4
  <2>5. \A i, j \in 1..Len(b) : b[i] = b[j] => i = j
    BY <2>1 DEF Parts
  <2>6. /\ Len(a \o b) = Len(a) + Len(b)
        /\ \A i \in 1..Len(a) : (a \o b)[i] = a[i]
        /\ \A i \in 1..Len(b) : (a \o b)[Len(a) + i] = b[i]
        /\ \A i \in 1..Len(a \o b) :
             i \in 1..Len(a) \/ \E j \in 1..Len(b) : i = Len(a) + j
    BY <2>2, Concat
  <2>7. \A i \in 1..Len(a), j \in 1..Len(b) : a[i] # b[j]
    <3> SUFFICES ASSUME NEW i \in 1..Len(a), NEW j \in 1..Len(b), a[i] = b[j]
                 PROVE  FALSE
      OBVIOUS
    <3>a. \A x \in 1..Len(FlatTo(ss, u)) :
            \E m \in 1..u : \E n \in 1..Len(ss[m]) : FlatTo(ss, u)[x] = ss[m][n]
      BY <1>b, <2>1
    <3>1. PICK m \in 1..u : \E n \in 1..Len(ss[m]) : a[i] = ss[m][n]
      BY <3>a
    <3>2. PICK n \in 1..Len(ss[m]) : a[i] = ss[m][n]
      BY <3>1
    <3>3. m \in 1..N /\ u + 1 \in 1..N /\ m # u + 1 /\ ss[m][n] = ss[u + 1][j]
          /\ j \in 1..Len(ss[u + 1])
      BY <2>1, <3>2
    <3> HIDE DEF a, b
    <3> QED
      BY <3>3 DEF Parts
  <2> HIDE DEF a, b
  <2>8. ASSUME NEW i \in 1..Len(a \o b), NEW j \in 1..Len(a \o b),
               (a \o b)[i] = (a \o b)[j]
        PROVE  i = j
    <3>1. CASE i \in 1..Len(a) /\ j \in 1..Len(a)
      BY <3>1, <2>4, <2>6, <2>8
    <3>2. CASE i \in 1..Len(a) /\ \E y \in 1..Len(b) : j = Len(a) + y
      BY <3>2, <2>6, <2>7, <2>8
    <3>3. CASE (\E x \in 1..Len(b) : i = Len(a) + x) /\ j \in 1..Len(a)
      BY <3>3, <2>6, <2>7, <2>8
    <3>4. CASE /\ \E x \in 1..Len(b) : i = Len(a) + x
               /\ \E y \in 1..Len(b) : j = Len(a) + y
      <4>1. PICK x \in 1..Len(b), y \in 1..Len(b) :
              i = Len(a) + x /\ j = Len(a) + y
        BY <3>4
      <4>2. b[x] = b[y]
        BY <4>1, <2>6, <2>8
      <4>3. x = y
        BY <4>2, <2>5
      <4> QED
        BY <4>1, <4>3
    <3> QED
      BY <3>1, <3>2, <3>3, <3>4, <2>6
  <2>9. Once(u + 1)
    BY <2>3, <2>8
  <2> HIDE DEF Once
  <2> QED
    BY <2>1, <2>9
<1>5. N \in P
  <2> HIDE DEF P
  <2>1. \A u \in 0..N : u \in P
    BY <1>1, <1>3, <1>4, UpTo
  <2> QED
    BY <2>1, <1>1
<1>6. FlatTo(ss, N) = FlattenSeq(ss) /\ N \in 0..N
  BY <1>1, FlatToFacts
<1>7. ASSUME NEW x \in S
      PROVE  \E i \in 1..Len(FlattenSeq(ss)) : FlattenSeq(ss)[i] = x
  <2>1. PICK m \in 1..N : \E j \in 1..Len(ss[m]) : ss[m][j] = x
    BY DEF Parts
  <2>2. \A n \in 1..N : \A j \in 1..Len(ss[n]) :
          \E i \in 1..Len(FlatTo(ss, N)) : FlatTo(ss, N)[i] = ss[n][j]
    <3>1. Len(ss) \in 0..Len(ss)
      BY <1>1
    <3> QED
      BY ONLY <3>1, <1>b DEF N
  <2> QED
    BY <2>1, <2>2, <1>6
<1> QED
  BY <1>2, <1>5, <1>6, <1>7 DEF Lists

-----------------------------------------------------------------------------
\* The teacher's context.

\* What is drawn from a pool is in it.
LEMMA DrawnFromPool ==
  ASSUME NEW S, NEW n, NEW T
  PROVE  /\ T \in AnyOf(S, n) => T \subseteq S
         /\ T \in AnyOne(S) => T \subseteq S
BY DEF AnyOf, AnyOne, kSubset

\* What is picked from a pool is in it.
LEMMA PicksFromPool ==
  ASSUME NEW b, NEW c, NEW pool, NEW slots, NEW n, NEW m, NEW T
  PROVE  /\ T \in SlotPicks(b, c, pool, slots) => T \subseteq pool
         /\ T \in BudgetPicks(b, c, pool, n, m) => T \subseteq pool
<1>1. ClosestPeers(b, pool, slots) \subseteq pool
  BY DEF ClosestPeers, Nearest
<1>2. TokenPicks(b, pool, m) \subseteq SUBSET pool
  BY DEF TokenPicks
<1> QED
  BY <1>1, <1>2, DrawnFromPool DEF SlotPicks, BudgetPicks

\* Without a control: successes as successes, failures as failures, and
\* summaries of the same prompt.
LEMMA StandardFit ==
  ASSUME NEW b, NEW c, NEW i, NEW x \in StandardContexts(b, c, i)
  PROVE  /\ x.solution = Solution(b, c, i)
         /\ x.solution \cup x.another \subseteq Successes(b, c, i)
         /\ x.failure \subseteq Failures(b, i)
         /\ x.summaries \subseteq
              {j \in Rows(b) : b.uid[j] = b.uid[i] /\ (c.skipSelf => j # i)}
<1>1. /\ x.solution = Solution(b, c, i)
      /\ x.another = AnotherSolution(b, c, i)
      /\ x.failure = {} \/ x.failure \in AnyOne(Failures(b, i))
      /\ x.summaries = {} \/ x.summaries \in AnyOf(SummaryPool(b, c, i), c.summaryK)
  BY DEF StandardContexts
<1>2. x.solution \cup x.another \subseteq Successes(b, c, i)
  BY <1>1 DEF Solution, PrimarySolution, AnotherSolution, Earliest
<1>3. x.failure \subseteq Failures(b, i)
  BY <1>1, DrawnFromPool
<1>4. x.summaries \subseteq SummaryPool(b, c, i)
  BY <1>1, DrawnFromPool
<1> QED
  BY <1>1, <1>2, <1>3, <1>4 DEF SummaryPool

\* With one: what each control draws from.
LEMMA ControlFit ==
  ASSUME NEW b, NEW c, NEW i, NEW x \in ControlContexts(b, c, i),
         c.control \in {"random_peer", "unrelated_prompt",
                        "success_only_matched"}
  PROVE  /\ x.another = {} /\ x.summaries = {}
         /\ c.control = "random_peer" =>
              x.solution \cup x.failure \subseteq Successes(b, c, i) \cup Failures(b, i)
         /\ c.control = "unrelated_prompt" =>
              x.solution \subseteq Others(b, i) /\ x.failure = {}
         /\ c.control = "success_only_matched" =>
              /\ x.solution \subseteq Successes(b, c, i) \cup Others(b, i)
              /\ x.failure = {}
<1>1. PICK p \in ControlPicks(b, c, i) :
        x = [solution |-> p[1], another |-> {}, failure |-> p[2], summaries |-> {}]
  BY DEF ControlContexts
<1> DEFINE slots == SuccessSlots(b, c, i) \cup FailureSlots(b, c, i)
<1>2. CASE slots = {}
  <2>1. p = <<{}, {}>>
    BY <1>1, <1>2 DEF ControlPicks
  <2> QED
    BY <1>1, <2>1
<1>3. CASE slots # {} /\ c.control = "random_peer"
  <2>1. p \in RandomPeers(b, c, i)
    BY <1>1, <1>3 DEF ControlPicks
  <2> DEFINE group == Successes(b, c, i) \cup Failures(b, i)
  <2>2. PICK s \in SlotPicks(b, c, group, SuccessSlots(b, c, i)) :
          \E f \in SlotPicks(b, c, group \ s, FailureSlots(b, c, i)) : p = <<s, f>>
    BY <2>1 DEF RandomPeers
  <2>3. PICK f \in SlotPicks(b, c, group \ s, FailureSlots(b, c, i)) : p = <<s, f>>
    BY <2>2
  <2> HIDE DEF group
  <2>4. s \subseteq group /\ f \subseteq group
    BY <2>2, <2>3, PicksFromPool
  <2>5. x.solution = s /\ x.failure = f /\ x.another = {} /\ x.summaries = {}
    BY <1>1, <2>3
  <2> QED
    BY <1>3, <2>4, <2>5 DEF group
<1>4. CASE slots # {} /\ c.control = "unrelated_prompt"
  <2>1. PICK n, m : p \in BudgetPicks(b, c, Others(b, i), n, m) \X {{}}
    BY <1>1, <1>4 DEF ControlPicks
  <2>2. p[1] \subseteq Others(b, i) /\ p[2] = {}
    BY <2>1, PicksFromPool
  <2> QED
    BY <1>1, <1>4, <2>2
<1>5. CASE slots # {} /\ c.control = "success_only_matched"
  <2>1. PICK n, m : p \in MatchedSuccesses(b, c, i, n, m)
    BY <1>1, <1>5 DEF ControlPicks
  <2>2. PICK s \in BudgetPicks(b, c, Successes(b, c, i), n, m) :
          \E t \in BudgetPicks(b, c, Others(b, i), n - Cardinality(s),
                               m - Tokens(b, s)) : p = <<s \cup t, {}>>
    BY <2>1 DEF MatchedSuccesses
  <2>3. PICK t \in BudgetPicks(b, c, Others(b, i), n - Cardinality(s),
                               m - Tokens(b, s)) : p = <<s \cup t, {}>>
    BY <2>2
  <2>4. s \subseteq Successes(b, c, i) /\ t \subseteq Others(b, i)
    BY <2>2, <2>3, PicksFromPool
  <2>5. x.solution = s \cup t /\ x.failure = {} /\ x.another = {} /\ x.summaries = {}
    BY <1>1, <2>3
  <2> QED
    BY <1>5, <2>4, <2>5
<1> QED
  BY <1>2, <1>3, <1>4, <1>5

\* What the rows of a batch are.
Rowed(b) ==
  /\ b.len \in Seq(Nat \ {0}) /\ Rows(b) = 1..Len(b.len)
  /\ \A j \in Rows(b) : b.ok[j] \in BOOLEAN

\* There are parts of a finite set of every size.
LEMMA PartOfSize ==
  ASSUME NEW S, IsFiniteSet(S), NEW k \in 0..Cardinality(S)
  PROVE  \E T \in SUBSET S : Cardinality(T) = k
<1> DEFINE N == Cardinality(S)
           P == {n \in 0..N : \E T \in SUBSET S : Cardinality(T) = n}
<1>1. N \in Nat
  BY FS_CardinalityType
<1>2. 0 \in P
  BY <1>1, FS_EmptySet
<1>3. ASSUME NEW n \in 0..(N - 1), n \in P PROVE n + 1 \in P
  <2>1. PICK T \in SUBSET S : Cardinality(T) = n
    BY <1>3
  <2>2. T # S /\ IsFiniteSet(T)
    BY <1>1, <2>1, FS_Subset
  <2>3. PICK x \in S : x \notin T
    BY <2>2
  <2>4. Cardinality(T \cup {x}) = n + 1 /\ T \cup {x} \in SUBSET S
    BY <2>1, <2>2, <2>3, FS_AddElement
  <2> QED
    BY <1>1, <2>4
<1>4. \A n \in 0..N : n \in P
  <2> HIDE DEF P
  <2> QED
    BY <1>1, <1>2, <1>3, UpTo
<1> QED
  BY <1>4

\* A draw exists, and is of the size asked for or the whole pool.
LEMMA DrawExists ==
  ASSUME NEW S, IsFiniteSet(S), NEW n \in Nat
  PROVE  AnyOf(S, n) # {} /\ AnyOne(S) # {}
<1> DEFINE k == IF n < Cardinality(S) THEN n ELSE Cardinality(S)
<1>1. k \in 0..Cardinality(S)
  BY FS_CardinalityType
<1>2. AnyOf(S, n) # {}
  BY <1>1, PartOfSize DEF AnyOf, kSubset
<1> QED
  BY <1>2 DEF AnyOne

\* A draw takes as many as are asked for, or the whole pool.
LEMMA DrawSize ==
  ASSUME NEW S, IsFiniteSet(S), NEW n \in Nat, NEW T \in AnyOf(S, n)
  PROVE  /\ T \subseteq S /\ IsFiniteSet(T) /\ Cardinality(T) \in Nat
         /\ Cardinality(S) \in Nat
         /\ Cardinality(T) = IF n < Cardinality(S) THEN n ELSE Cardinality(S)
         /\ Cardinality(T) < n => T = S
<1>1. T \in SUBSET S
  BY DEF AnyOf, kSubset
<1>2. Cardinality(T) = IF n < Cardinality(S) THEN n ELSE Cardinality(S)
  BY DEF AnyOf, kSubset
<1>3. /\ IsFiniteSet(T) /\ Cardinality(T) \in Nat /\ Cardinality(S) \in Nat
      /\ Cardinality(T) = Cardinality(S) => T = S
  BY <1>1, FS_Subset, FS_CardinalityType
<1> QED
  BY <1>1, <1>2, <1>3

\* The first of some rows.
LEMMA EarliestOne ==
  ASSUME NEW S \in SUBSET Nat
  PROVE  /\ S = {} => Earliest(S) = {}
         /\ S # {} => \E n \in S : Earliest(S) = {n}
         /\ Earliest(S) \subseteq S
         /\ IsFiniteSet(Earliest(S))
         /\ Cardinality(Earliest(S)) = IF S = {} THEN 0 ELSE 1
<1>1. S = {} => Earliest(S) = {}
  BY DEF Earliest
<1>2. Earliest(S) \subseteq S
  BY DEF Earliest
<1>3. ASSUME S # {} PROVE \E n \in S : Earliest(S) = {n}
  <2>1. PICK n \in S : \A m \in S : n <= m
    BY <1>3, SmallestExists
  <2>2. \A m \in Earliest(S) : m = n
    BY <2>1 DEF Earliest
  <2> QED
    BY <2>1, <2>2 DEF Earliest
<1> QED
  BY <1>1, <1>2, <1>3, FS_EmptySet, FS_Singleton

\* A pool that has peers has one that is nearest.
LEMMA NearestExists ==
  ASSUME NEW b, Rowed(b), NEW pool \in SUBSET Rows(b), pool # {},
         NEW s \in Rows(b)
  PROVE  Nearest(b, pool, s) # {}
<1> DEFINE gap(j) == IF b.len[j] > b.len[s] THEN b.len[j] - b.len[s]
                                           ELSE b.len[s] - b.len[j]
           gaps == {gap(j) : j \in pool}
<1>1. \A j \in Rows(b) : b.len[j] \in Nat
  BY DEF Rowed
<1>2. gaps \in SUBSET Nat /\ gaps # {}
  BY <1>1
<1>3. PICK g \in gaps : \A h \in gaps : g <= h
  BY <1>2, SmallestExists
<1> DEFINE near == {j \in pool : gap(j) = g}
           first == IF \E j \in near : b.ok[j] THEN {j \in near : b.ok[j]} ELSE near
<1>4. first # {} /\ first \in SUBSET Nat /\ near \in SUBSET pool
  BY SMTT(30) DEF Rowed
<1>5. PICK n \in first : \A m \in first : n <= m
  BY <1>4, SmallestExists
<1>6. ASSUME NEW k \in pool
      PROVE  \/ gap(n) < gap(k)
             \/ gap(n) = gap(k) /\ (IF b.ok[n] = b.ok[k] THEN n <= k ELSE b.ok[n])
  <2>1. gap(n) = g /\ g <= gap(k) /\ gap(k) \in Nat /\ g \in Nat /\ n \in pool
    BY <1>1, <1>2, <1>3
  <2>2. CASE gap(k) = g
    <3>1. k \in near /\ n \in near
      BY <2>1, <2>2
    <3>2. b.ok[n] \in BOOLEAN /\ b.ok[k] \in BOOLEAN
      BY <3>1 DEF Rowed
    <3>3. CASE k \in first
      <4>1. n <= k
        BY <1>5, <3>3
      <4>2. CASE \E j \in near : b.ok[j]
        <5>1. b.ok[n] /\ b.ok[k]
          BY <1>5, <3>3, <4>2
        <5>2. b.ok[n] = b.ok[k]
          BY <5>1, <3>2
        <5> QED
          BY <4>1, <5>2, <2>1, <2>2
      <4>3. CASE ~(\E j \in near : b.ok[j])
        <5>1. ~b.ok[n] /\ ~b.ok[k]
          BY <3>1, <4>3
        <5>2. b.ok[n] = b.ok[k]
          BY <5>1, <3>2
        <5> QED
          BY <4>1, <5>2, <2>1, <2>2
      <4> QED
        BY <4>2, <4>3
    <3>4. CASE k \notin first
      <4>1. b.ok[n] /\ ~b.ok[k]
        BY <1>5, <3>1, <3>4
      <4> QED
        BY <4>1, <2>1, <2>2
    <3> QED
      BY <3>3, <3>4
  <2>3. CASE gap(k) # g
    BY <2>1, <2>3
  <2> QED
    BY <2>2, <2>3
<1> HIDE DEF gap
<1>7. n \in pool
  BY <1>4, <1>5
<1> QED
  BY <1>6, <1>7 DEF Nearest, gap

\* Two disjoint finite sets, and a set without one of its parts.
LEMMA DisjointSize ==
  ASSUME NEW S, NEW T, IsFiniteSet(S), IsFiniteSet(T), S \cap T = {}
  PROVE  /\ IsFiniteSet(S \cup T)
         /\ Cardinality(S \cup T) = Cardinality(S) + Cardinality(T)
         /\ Cardinality(S) \in Nat /\ Cardinality(T) \in Nat
<1>1. Cardinality(S \cap T) = 0
  BY FS_EmptySet
<1>2. /\ IsFiniteSet(S \cup T)
      /\ Cardinality(S \cup T) = Cardinality(S) + Cardinality(T) - Cardinality(S \cap T)
  BY FS_Union
<1>3. Cardinality(S) \in Nat /\ Cardinality(T) \in Nat
  BY FS_CardinalityType
<1> QED
  BY <1>1, <1>2, <1>3

\* A pool without some of its rows.
LEMMA WithoutSize ==
  ASSUME NEW S, NEW T \in SUBSET S, IsFiniteSet(S)
  PROVE  /\ IsFiniteSet(S \ T) /\ IsFiniteSet(T)
         /\ Cardinality(S \ T) = Cardinality(S) - Cardinality(T)
         /\ Cardinality(S) \in Nat /\ Cardinality(T) \in Nat
<1>1. S \cap T = T
  OBVIOUS
<1>2. IsFiniteSet(S \ T) /\ Cardinality(S \ T) = Cardinality(S) - Cardinality(S \cap T)
  BY FS_Difference
<1>3. IsFiniteSet(T)
  BY FS_Subset
<1>4. Cardinality(S) \in Nat /\ Cardinality(T) \in Nat
  BY <1>3, FS_CardinalityType
<1> QED
  BY <1>1, <1>2, <1>3, <1>4

\* Pools and slots of a row are finite sets of rows, and the slots are as many
\* as the blocks the row would show without a control.
LEMMA PoolsFinite ==
  ASSUME NEW b, Rowed(b), NEW S \in SUBSET Rows(b)
  PROVE  /\ S \in SUBSET Nat /\ IsFiniteSet(S) /\ Cardinality(S) \in Nat
<1>1. Len(b.len) \in Nat /\ S \in SUBSET (1..Len(b.len))
  BY DEF Rowed
<1>2. IsFiniteSet(1..Len(b.len))
  BY <1>1, FS_Interval
<1>3. IsFiniteSet(S)
  BY <1>1, <1>2, FS_Subset
<1>4. S \in SUBSET Nat
  BY <1>1
<1> QED
  BY <1>3, <1>4, FS_CardinalityType

\* The pools and the slots of a row, and that they are apart.
LEMMA SlotsFacts ==
  ASSUME NEW b, Rowed(b), NEW c, NEW i
  PROVE  /\ Successes(b, c, i) \in SUBSET Rows(b) /\ Failures(b, i) \in SUBSET Rows(b)
         /\ SummaryPool(b, c, i) \in SUBSET Rows(b) /\ Others(b, i) \in SUBSET Rows(b)
         /\ Successes(b, c, i) \cap Failures(b, i) = {}
         /\ (Successes(b, c, i) \cup Failures(b, i)) \cap Others(b, i) = {}
         /\ SuccessSlots(b, c, i) \subseteq Successes(b, c, i)
         /\ FailureSlots(b, c, i) \subseteq Failures(b, i)
<1>1. \A S : Earliest(S) \subseteq S
  BY DEF Earliest
<1>2. SuccessSlots(b, c, i) \subseteq Successes(b, c, i)
  BY <1>1 DEF SuccessSlots
<1>3. FailureSlots(b, c, i) \subseteq Failures(b, i)
  BY <1>1 DEF FailureSlots
<1> QED
  BY <1>2, <1>3 DEF Successes, Failures, SummaryPool, Others

\* All the contexts a row may get without a control show as many blocks.
LEMMA BaselineBlocks ==
  ASSUME NEW b, Rowed(b), NEW c, NEW i, NEW x \in StandardContexts(b, c, i)
  PROVE  /\ Blocks(x) = Cardinality(SuccessSlots(b, c, i))
                        + Cardinality(FailureSlots(b, c, i))
         /\ Blocks(x) = Cardinality(SuccessSlots(b, c, i) \cup FailureSlots(b, c, i))
<1> DEFINE own == Successes(b, c, i)
           bad == Failures(b, i)
           rest == own \ Earliest(own)
<1>1. own \in SUBSET Nat /\ bad \in SUBSET Nat /\ rest \in SUBSET Nat
  BY SlotsFacts, PoolsFinite
<1>2. /\ Cardinality(Earliest(own)) \in Nat /\ IsFiniteSet(Earliest(own))
      /\ Cardinality(Earliest(rest)) \in Nat /\ IsFiniteSet(Earliest(rest))
      /\ Cardinality(Earliest(bad)) = IF bad = {} THEN 0 ELSE 1
  BY <1>1, EarliestOne
<1>3. Earliest(own) \cap Earliest(rest) = {}
  BY <1>1, EarliestOne
<1>4. Cardinality({}) = 0 /\ IsFiniteSet({}) /\ \A y : Cardinality({y}) = 1
  BY FS_EmptySet, FS_Singleton
<1>5. /\ x.solution = IF c.primary THEN Earliest(own) ELSE {}
      /\ x.another = IF c.another THEN Earliest(rest) ELSE {}
  BY DEF StandardContexts, Solution, PrimarySolution, AnotherSolution
<1>6. SuccessSlots(b, c, i) = x.solution \cup x.another
  BY <1>5 DEF SuccessSlots
<1>7. Cardinality(SuccessSlots(b, c, i)) = Cardinality(x.solution) + Cardinality(x.another)
  <2>1. IsFiniteSet(x.solution) /\ IsFiniteSet(x.another)
        /\ x.solution \cap x.another = {}
        /\ Cardinality(x.solution) \in Nat /\ Cardinality(x.another) \in Nat
    BY <1>2, <1>3, <1>4, <1>5
  <2> QED
    BY <1>6, <2>1, DisjointSize
<1>8. Cardinality(FailureSlots(b, c, i)) = Cardinality(x.failure)
  <2>1. CASE FailureWanted(b, c, i)
    <3>1. x.failure \in AnyOne(bad) /\ FailureSlots(b, c, i) = Earliest(bad)
      BY <2>1 DEF StandardContexts, FailureSlots
    <3>2. Cardinality(x.failure) = IF bad = {} THEN 0 ELSE 1
      BY <3>1, <1>4 DEF AnyOne
    <3> QED
      BY <3>1, <3>2, <1>2
  <2>2. CASE ~FailureWanted(b, c, i)
    BY <2>2 DEF StandardContexts, FailureSlots
  <2> QED
    BY <2>1, <2>2
<1>9. /\ IsFiniteSet(SuccessSlots(b, c, i)) /\ IsFiniteSet(FailureSlots(b, c, i))
      /\ SuccessSlots(b, c, i) \cap FailureSlots(b, c, i) = {}
      /\ Cardinality(SuccessSlots(b, c, i)) \in Nat
      /\ Cardinality(FailureSlots(b, c, i)) \in Nat
  <2>1. /\ SuccessSlots(b, c, i) \in SUBSET Rows(b)
        /\ FailureSlots(b, c, i) \in SUBSET Rows(b)
        /\ SuccessSlots(b, c, i) \cap FailureSlots(b, c, i) = {}
    BY SlotsFacts
  <2> QED
    BY <2>1, PoolsFinite
<1>10. Cardinality(SuccessSlots(b, c, i) \cup FailureSlots(b, c, i))
         = Cardinality(SuccessSlots(b, c, i)) + Cardinality(FailureSlots(b, c, i))
  BY <1>9, DisjointSize
<1>11. Cardinality(x.solution) \in Nat /\ Cardinality(x.another) \in Nat
  BY <1>2, <1>4, <1>5
<1> QED
  BY <1>7, <1>8, <1>9, <1>10, <1>11 DEF Blocks

\* A row always has a standard context.
LEMMA StandardExists ==
  ASSUME NEW b, Rowed(b), NEW c, NEW i, c.summaryK \in Nat
  PROVE  StandardContexts(b, c, i) # {}
<1>1. AnyOne(Failures(b, i)) # {}
  BY DEF AnyOne
<1>2. AnyOf(SummaryPool(b, c, i), c.summaryK) # {}
  BY SlotsFacts, PoolsFinite, DrawExists
<1>3. PICK f \in IF FailureWanted(b, c, i) THEN AnyOne(Failures(b, i)) ELSE {{}} : TRUE
  BY <1>1
<1>4. PICK s \in IF c.summaries = "off" THEN {{}}
                 ELSE AnyOf(SummaryPool(b, c, i), c.summaryK) : TRUE
  BY <1>2
<1>5. [solution |-> Solution(b, c, i), another |-> AnotherSolution(b, c, i),
       failure |-> f, summaries |-> s] \in StandardContexts(b, c, i)
  BY <1>3, <1>4 DEF StandardContexts
<1> QED
  BY <1>5

\* As many blocks, one by one.
LEMMA BlocksMatched ==
  ASSUME NEW b, Rowed(b), NEW c, NEW i, NEW x \in ControlContexts(b, c, i),
         c.control \in {"random_peer", "unrelated_prompt",
                        "success_only_matched"},
         c.match = "block"
  PROVE  LET n == Cardinality(SuccessSlots(b, c, i) \cup FailureSlots(b, c, i))
         IN \/ Blocks(x) = n
            \/ /\ Blocks(x) < n
               /\ c.control = "unrelated_prompt" /\ x.solution = Others(b, i)
            \/ /\ Blocks(x) < n
               /\ c.control = "success_only_matched"
               /\ x.solution = Successes(b, c, i) \cup Others(b, i)
<1> DEFINE one == SuccessSlots(b, c, i)
           two == FailureSlots(b, c, i)
           slots == one \cup two
           own == Successes(b, c, i)
           bad == Failures(b, i)
           group == own \cup bad
           others == Others(b, i)
<1>1. PICK p \in ControlPicks(b, c, i) :
        x = [solution |-> p[1], another |-> {}, failure |-> p[2], summaries |-> {}]
  BY DEF ControlContexts
<1>2. /\ own \in SUBSET Rows(b) /\ bad \in SUBSET Rows(b) /\ others \in SUBSET Rows(b)
      /\ own \cap bad = {} /\ group \cap others = {}
      /\ one \subseteq own /\ two \subseteq bad
  BY SlotsFacts
<1>3. /\ IsFiniteSet(own) /\ IsFiniteSet(bad) /\ IsFiniteSet(others)
      /\ IsFiniteSet(one) /\ IsFiniteSet(two) /\ IsFiniteSet(group)
      /\ IsFiniteSet(slots)
      /\ Cardinality(one) \in Nat /\ Cardinality(two) \in Nat
      /\ Cardinality(group) \in Nat /\ Cardinality(slots) \in Nat
  BY <1>2, PoolsFinite
<1>4. Cardinality({}) = 0
  BY FS_EmptySet
<1>5. Cardinality(slots) = Cardinality(one) + Cardinality(two)
  <2>1. one \cap two = {}
    BY <1>2
  <2> HIDE DEF one, two
  <2> QED
    BY <1>3, <2>1, DisjointSize
<1>6. Cardinality(slots) <= Cardinality(group)
  <2>1. slots \in SUBSET group
    BY <1>2
  <2> HIDE DEF slots, group
  <2> QED
    BY <1>3, <2>1, FS_Subset
<1>7. CASE slots = {}
  <2>1. p = <<{}, {}>>
    BY <1>1, <1>7 DEF ControlPicks
  <2>2. Blocks(x) = 0 /\ Cardinality(slots) = 0
    BY <1>1, <1>4, <1>7, <2>1 DEF Blocks
  <2> QED
    BY <2>2
<1>8. CASE slots # {} /\ c.control = "random_peer"
  <2>1. p \in RandomPeers(b, c, i)
    BY <1>1, <1>8 DEF ControlPicks
  <2>2. PICK s \in SlotPicks(b, c, group, one) :
          \E f \in SlotPicks(b, c, group \ s, two) : p = <<s, f>>
    BY <2>1 DEF RandomPeers
  <2>3. PICK f \in SlotPicks(b, c, group \ s, two) : p = <<s, f>>
    BY <2>2
  <2>4. s \in AnyOf(group, Cardinality(one)) /\ f \in AnyOf(group \ s, Cardinality(two))
    BY <2>2, <2>3 DEF SlotPicks
  <2>5. x.solution = s /\ x.failure = f /\ x.another = {}
    BY <1>1, <2>3
  <2> HIDE DEF own, bad, others, group, slots, one, two
  <2>6. Cardinality(s) = Cardinality(one) /\ s \subseteq group /\ IsFiniteSet(s)
    BY <1>3, <1>5, <1>6, <2>4, DrawSize
  <2>7. IsFiniteSet(group \ s)
        /\ Cardinality(group \ s) = Cardinality(group) - Cardinality(s)
    BY <1>3, <2>6, WithoutSize
  <2>8. Cardinality(f) = Cardinality(two)
    BY <1>3, <1>5, <1>6, <2>4, <2>6, <2>7, DrawSize
  <2> QED
    BY <1>3, <1>4, <1>5, <2>5, <2>6, <2>8 DEF Blocks, slots, one, two
<1>9. CASE slots # {} /\ c.control = "unrelated_prompt"
  <2> DEFINE t == p[1]
  <2>1. t \in AnyOf(others, Cardinality(slots)) /\ p[2] = {}
    BY <1>1, <1>9 DEF ControlPicks, BudgetPicks
  <2>2. x.solution = t /\ x.failure = {} /\ x.another = {}
    BY <1>1, <2>1
  <2> HIDE DEF t, own, bad, others, group, slots, one, two
  <2>3. /\ Cardinality(t) \in Nat /\ Cardinality(t) <= Cardinality(slots)
        /\ Cardinality(t) < Cardinality(slots) => t = others
    BY <1>3, <2>1, DrawSize
  <2>4. Blocks(x) = Cardinality(t)
    BY <1>4, <2>2, <2>3 DEF Blocks
  <2> QED
    BY <1>3, <1>9, <2>2, <2>3, <2>4 DEF others, slots, one, two
<1>10. CASE slots # {} /\ c.control = "success_only_matched"
  <2>1. p \in MatchedSuccesses(b, c, i, Cardinality(slots), Tokens(b, slots))
    BY <1>1, <1>10 DEF ControlPicks
  <2>2. PICK s \in AnyOf(own, Cardinality(slots)) :
          \E t \in AnyOf(others, Cardinality(slots) - Cardinality(s)) :
             p = <<s \cup t, {}>>
    BY <2>1 DEF MatchedSuccesses, BudgetPicks
  <2>3. PICK t \in AnyOf(others, Cardinality(slots) - Cardinality(s)) :
          p = <<s \cup t, {}>>
    BY <2>2
  <2>4. x.solution = s \cup t /\ x.failure = {} /\ x.another = {}
    BY <1>1, <2>3
  <2>a. own \cap others = {}
    BY <1>2
  <2> HIDE DEF own, bad, others, group, slots, one, two
  <2>5. /\ s \subseteq own /\ IsFiniteSet(s)
        /\ Cardinality(s) \in Nat /\ Cardinality(s) <= Cardinality(slots)
        /\ Cardinality(s) < Cardinality(slots) => s = own
    BY <1>3, <2>2, DrawSize
  <2>6. Cardinality(slots) - Cardinality(s) \in Nat
    BY <1>3, <2>5
  <2>7. /\ t \subseteq others /\ IsFiniteSet(t)
        /\ Cardinality(t) \in Nat
        /\ Cardinality(t) <= Cardinality(slots) - Cardinality(s)
        /\ Cardinality(t) < Cardinality(slots) - Cardinality(s) => t = others
    BY <1>3, <2>3, <2>6, DrawSize
  <2>8. Cardinality(s \cup t) = Cardinality(s) + Cardinality(t)
    <3>1. s \cap t = {}
      BY <2>a, <2>5, <2>7
    <3> QED
      BY <3>1, <2>5, <2>7, DisjointSize
  <2>9. Blocks(x) = Cardinality(s) + Cardinality(t)
    BY <1>4, <2>4, <2>5, <2>7, <2>8 DEF Blocks
  <2>10. CASE Cardinality(s) + Cardinality(t) = Cardinality(slots)
    BY <2>9, <2>10 DEF slots, one, two
  <2>11. CASE Cardinality(s) + Cardinality(t) # Cardinality(slots)
    <3>1. s = own /\ t = others /\ Cardinality(s) + Cardinality(t) < Cardinality(slots)
      BY <1>3, <2>5, <2>7, <2>11
    <3> QED
      BY <3>1, <1>10, <2>4, <2>9 DEF own, others, slots, one, two
  <2> QED
    BY <2>10, <2>11
<1> QED
  BY <1>7, <1>8, <1>9, <1>10

\* Drawn by tokens: none only if none are wanted or there are none.
LEMMA TokenDraw ==
  ASSUME NEW b, Rowed(b), NEW pool \in SUBSET Rows(b), NEW target,
         target > 0, target \in Nat, NEW S \in TokenPicks(b, pool, target)
  PROVE  S = {} <=> pool = {}
<1>1. S \in SUBSET pool /\ (S = pool \/ Tokens(b, S) >= target)
  BY DEF TokenPicks
<1>2. Tokens(b, {}) = 0
  <2>1. b.len \in Seq(Nat)
    BY DEF Rowed
  <2> QED
    BY <2>1, TotalFew DEF Tokens
<1>3. CASE S = {}
  <2>1. Tokens(b, S) = 0
    BY <1>2, <1>3
  <2> QED
    BY <1>1, <1>3, <2>1
<1>4. CASE pool = {}
  BY <1>1, <1>4
<1> QED
  BY <1>3, <1>4

\* The peers closest in length are none only if there is nothing to be matched.
LEMMA ClosestSome ==
  ASSUME NEW b, Rowed(b), NEW pool \in SUBSET Rows(b), pool # {},
         NEW slots \in SUBSET Rows(b)
  PROVE  ClosestPeers(b, pool, slots) = {} <=> slots = {}
<1>1. CASE slots = {}
  <2>1. Earliest(slots) = {}
    BY <1>1 DEF Earliest
  <2> QED
    BY <1>1, <2>1 DEF ClosestPeers
<1>2. CASE slots # {}
  <2>1. slots \in SUBSET Nat
    BY PoolsFinite
  <2>2. PICK s \in slots : Earliest(slots) = {s}
    BY <1>2, <2>1, EarliestOne
  <2>3. Nearest(b, pool, s) # {}
    BY <2>2, NearestExists
  <2> QED
    BY <1>2, <2>2, <2>3 DEF ClosestPeers
<1> QED
  BY <1>1, <1>2

\* A control that matches tokens shows blocks where there are slots and rows to
\* draw from, and only there.
LEMMA TokensMatched ==
  ASSUME NEW b, Rowed(b), NEW c, NEW i, NEW x \in ControlContexts(b, c, i),
         c.control \in {"random_peer", "unrelated_prompt",
                        "success_only_matched"},
         c.match = "token"
  PROVE  LET slots == SuccessSlots(b, c, i) \cup FailureSlots(b, c, i)
             shown == x.solution \cup x.another \cup x.failure \cup x.summaries
         IN /\ slots = {} => shown = {}
            /\ slots # {} /\ c.control = "random_peer" => shown # {}
            /\ slots # {} /\ c.control = "unrelated_prompt" =>
                 (shown = {} <=> Others(b, i) = {})
            /\ slots # {} /\ c.control = "success_only_matched" =>
                 (shown = {} <=> Successes(b, c, i) \cup Others(b, i) = {})
<1> DEFINE one == SuccessSlots(b, c, i)
           two == FailureSlots(b, c, i)
           slots == one \cup two
           own == Successes(b, c, i)
           bad == Failures(b, i)
           group == own \cup bad
           others == Others(b, i)
           tokens == Tokens(b, slots)
           shown == x.solution \cup x.another \cup x.failure \cup x.summaries
<1>1. PICK p \in ControlPicks(b, c, i) :
        x = [solution |-> p[1], another |-> {}, failure |-> p[2], summaries |-> {}]
  BY DEF ControlContexts
<1>a. shown = p[1] \cup p[2]
  BY <1>1
<1>2. /\ own \in SUBSET Rows(b) /\ bad \in SUBSET Rows(b) /\ others \in SUBSET Rows(b)
      /\ one \subseteq own /\ two \subseteq bad
  BY SlotsFacts
<1>3. /\ one \in SUBSET Rows(b) /\ two \in SUBSET Rows(b) /\ slots \in SUBSET Rows(b)
      /\ group \in SUBSET Rows(b) /\ slots \subseteq group
  BY <1>2
<1>4. slots # {} => tokens \in Nat /\ tokens > 0
  <2>1. b.len \in Seq(Nat) /\ b.len \in Seq(Nat \ {0}) /\ slots \in SUBSET DOMAIN b.len
    BY <1>3 DEF Rowed
  <2> HIDE DEF slots
  <2> QED
    BY <2>1, TotalType, TotalPositive DEF Tokens
<1>5. CASE slots = {}
  <2>1. p = <<{}, {}>>
    BY <1>1, <1>5 DEF ControlPicks
  <2>2. shown = {}
    BY <1>a, <2>1
  <2> QED
    BY <1>5, <2>2
<1>6. CASE slots # {} /\ c.control = "random_peer"
  <2>1. p \in RandomPeers(b, c, i)
    BY <1>1, <1>6 DEF ControlPicks
  <2>2. PICK s \in SlotPicks(b, c, group, one) :
          \E f \in SlotPicks(b, c, group \ s, two) : p = <<s, f>>
    BY <2>1 DEF RandomPeers
  <2>3. PICK f \in SlotPicks(b, c, group \ s, two) : p = <<s, f>>
    BY <2>2
  <2>4. s = ClosestPeers(b, group, one) /\ f = ClosestPeers(b, group \ s, two)
    BY <2>2, <2>3 DEF SlotPicks
  <2>5. shown = s \cup f
    BY <1>a, <2>3
  <2> HIDE DEF own, bad, others, group, one, two, shown
  <2>6. group # {}
    BY <1>3, <1>6
  <2>7. s = {} <=> one = {}
    BY <1>3, <2>4, <2>6, ClosestSome
  <2>8. CASE s = {}
    <3>1. group \ s = group
      BY <2>8
    <3>2. f = {} <=> two = {}
      BY <1>3, <2>4, <2>6, <3>1, ClosestSome
    <3> QED
      BY <1>6, <2>5, <2>7, <2>8, <3>2 DEF shown, slots, one, two
  <2>9. CASE s # {}
    BY <1>6, <2>5, <2>9 DEF shown, slots, one, two
  <2> QED
    BY <2>8, <2>9
<1>7. CASE slots # {} /\ c.control = "unrelated_prompt"
  <2> DEFINE t == p[1]
  <2>1. t \in TokenPicks(b, others, tokens) /\ p[2] = {}
    BY <1>1, <1>7 DEF ControlPicks, BudgetPicks
  <2>2. shown = t
    BY <1>a, <2>1
  <2> HIDE DEF t, own, bad, others, group, slots, one, two, shown, tokens
  <2>3. t = {} <=> others = {}
    BY <1>2, <1>4, <1>7, <2>1, TokenDraw
  <2> QED
    BY <1>7, <2>2, <2>3 DEF others, slots, one, two, shown
<1>8. CASE slots # {} /\ c.control = "success_only_matched"
  <2>1. p \in MatchedSuccesses(b, c, i, Cardinality(slots), tokens)
    BY <1>1, <1>8 DEF ControlPicks
  <2>2. PICK s \in TokenPicks(b, own, tokens) :
          \E t \in TokenPicks(b, others, tokens - Tokens(b, s)) :
             p = <<s \cup t, {}>>
    BY <2>1 DEF MatchedSuccesses, BudgetPicks
  <2>3. PICK t \in TokenPicks(b, others, tokens - Tokens(b, s)) :
          p = <<s \cup t, {}>>
    BY <2>2
  <2>4. shown = s \cup t
    BY <1>a, <2>3
  <2>5. s \subseteq own /\ t \subseteq others
    BY <2>2, <2>3 DEF TokenPicks
  <2> HIDE DEF own, bad, others, group, slots, one, two, shown, tokens
  <2>6. s = {} <=> own = {}
    BY <1>2, <1>4, <1>8, <2>2, TokenDraw
  <2>7. CASE s = {}
    <3>1. Tokens(b, s) = 0
      <4>1. b.len \in Seq(Nat)
        BY DEF Rowed
      <4> QED
        BY <2>7, <4>1, TotalFew DEF Tokens
    <3>2. tokens - Tokens(b, s) = tokens
      BY <1>4, <1>8, <3>1
    <3>3. t = {} <=> others = {}
      BY <1>2, <1>4, <1>8, <2>3, <3>2, TokenDraw
    <3> QED
      BY <1>8, <2>4, <2>6, <2>7, <3>3 DEF own, others, slots, one, two, shown
  <2>8. CASE s # {}
    BY <1>8, <2>4, <2>6, <2>8 DEF own, others, slots, one, two, shown
  <2> QED
    BY <2>7, <2>8
<1> QED
  BY <1>5, <1>6, <1>7, <1>8

-----------------------------------------------------------------------------
\* Karmarkar-Karp.

\* The sets of rows that karmarkar_karp puts together.
SetsOf(loads) ==
  {a \in [sum : Nat, rows : SUBSET DOMAIN loads, head : Nat] :
     /\ a.sum = Total(loads, a.rows)
     /\ a.rows # {} => a.head \in a.rows}

\* Its states: k disjoint sets, the heaviest first.
Ordered(s, k) == \A i, j \in 1..k : i < j => ~Heavier(s[j], s[i])
Apart(s, k) == \A i, j \in 1..k : i # j => s[i].rows \cap s[j].rows = {}
RowsIn(s, k) == UNION {s[i].rows : i \in 1..k}
StatesOf(loads, k) ==
  {s \in [1..k -> SetsOf(loads)] :
     Ordered(s, k) /\ Apart(s, k) /\ RowsIn(s, k) # {}}

\* A set of Karmarkar-Karp weighs what its rows weigh, and one with rows has a
\* head among them.
LEMMA SetFacts ==
  ASSUME NEW loads \in Seq(Nat), NEW a \in SetsOf(loads)
  PROVE  /\ a.sum \in Nat /\ a.head \in Nat
         /\ IsFiniteSet(a.rows) /\ Cardinality(a.rows) \in Nat
         /\ Cardinality(a.rows) = 0 => a.rows = {}
         /\ a.rows \in SUBSET (1..Len(loads))
<1>1. Len(loads) \in Nat /\ a.rows \in SUBSET (1..Len(loads))
  BY DEF SetsOf
<1>2. IsFiniteSet(1..Len(loads))
  BY <1>1, FS_Interval
<1>3. IsFiniteSet(a.rows)
  BY <1>1, <1>2, FS_Subset
<1> QED
  BY <1>1, <1>3, FS_CardinalityType, FS_EmptySet DEF SetsOf

\* Sorting by Heavier is sorting by three numbers.
LEMMA HeavierOrder ==
  ASSUME NEW loads \in Seq(Nat), NEW a \in SetsOf(loads), NEW b \in SetsOf(loads),
         NEW c \in SetsOf(loads)
  PROVE  /\ ~Heavier(a, a)
         /\ Heavier(a, b) => ~Heavier(b, a)
         /\ Heavier(a, b) /\ ~Heavier(c, b) => Heavier(a, c)
         /\ ~Heavier(b, a) /\ Heavier(b, c) => Heavier(a, c)
         /\ ~Heavier(b, a) /\ ~Heavier(c, b) => ~Heavier(c, a)
         /\ ~Heavier(a, b) => a.sum <= b.sum
<1>1. /\ a.sum \in Nat /\ a.head \in Nat /\ Cardinality(a.rows) \in Nat
      /\ b.sum \in Nat /\ b.head \in Nat /\ Cardinality(b.rows) \in Nat
      /\ c.sum \in Nat /\ c.head \in Nat /\ Cardinality(c.rows) \in Nat
  BY SetFacts
<1> QED
  BY SMTT(30), <1>1 DEF Heavier

\* The k members of a sequence in another order.
Permuted(s, sets, k) ==
  \E order \in [1..k -> 1..k] :
    /\ \A i, j \in 1..k : order[i] = order[j] => i = j
    /\ \A i \in 1..k : \E j \in 1..k : order[j] = i
    /\ \A i \in 1..k : s[i] = sets[order[i]]

\* State puts its sets in order and keeps each of them.
LEMMA StateFacts ==
  ASSUME NEW loads \in Seq(Nat), NEW k \in Nat \ {0},
         NEW sets \in [1..k -> SetsOf(loads)]
  PROVE  /\ State(sets) \in [1..k -> SetsOf(loads)]
         /\ Ordered(State(sets), k)
         /\ Permuted(State(sets), sets, k)
<1> DEFINE D == 1..k
           before(i, j) == \/ Heavier(sets[i], sets[j])
                           \/ ~Heavier(sets[j], sets[i]) /\ i < j
           R == {p \in D \X D : before(p[1], p[2])}
           order == Sorted(D, R)
<1>1. DOMAIN sets = D /\ IsFiniteSet(D) /\ Cardinality(D) = k
  BY FS_Interval
<1>2. OrderOf(R, D)
  <2>1. \A i, j \in D : <<i, j>> \in R <=> before(i, j)
    OBVIOUS
  <2>2. ASSUME NEW i \in D PROVE ~before(i, i)
    BY HeavierOrder
  <2>3. ASSUME NEW i \in D, NEW j \in D, NEW m \in D, before(i, j), before(j, m)
        PROVE  before(i, m)
    <3>1. sets[i] \in SetsOf(loads) /\ sets[j] \in SetsOf(loads) /\ sets[m] \in SetsOf(loads)
      OBVIOUS
    <3>2. /\ Heavier(sets[i], sets[j]) => ~Heavier(sets[j], sets[i])
          /\ Heavier(sets[j], sets[m]) => ~Heavier(sets[m], sets[j])
          /\ Heavier(sets[i], sets[j]) /\ ~Heavier(sets[m], sets[j]) => Heavier(sets[i], sets[m])
          /\ ~Heavier(sets[j], sets[i]) /\ Heavier(sets[j], sets[m]) => Heavier(sets[i], sets[m])
          /\ ~Heavier(sets[j], sets[i]) /\ ~Heavier(sets[m], sets[j]) => ~Heavier(sets[m], sets[i])
      BY <3>1, HeavierOrder
    <3>3. i < j /\ j < m => i < m
      OBVIOUS
    <3> QED
      BY <2>3, <3>2, <3>3
  <2>4. ASSUME NEW i \in D, NEW j \in D PROVE i = j \/ before(i, j) \/ before(j, i)
    OBVIOUS
  <2> HIDE DEF before, R
  <2> QED
    BY <2>1, <2>2, <2>3, <2>4 DEF OrderOf
<1>3. /\ Lists(order, D) /\ Len(order) = k
      /\ \A i, j \in 1..k : i < j => <<order[i], order[j]>> \in R
  <2> HIDE DEF D, R
  <2> QED
    BY <1>1, <1>2, SortedFacts DEF D
<1>4. order \in [1..k -> D] /\ (\A i, j \in 1..k : order[i] = order[j] => i = j)
      /\ \A i \in D : \E j \in 1..k : order[j] = i
  <2> HIDE DEF D, R, order
  <2> QED
    BY <1>3 DEF Lists
<1> DEFINE s == [i \in 1..k |-> sets[order[i]]]
<1>5. State(sets) = s
  <2>1. State(sets) = Evaluated([i \in DOMAIN sets |-> sets[order[i]]])
    BY <1>1 DEF State
  <2> HIDE DEF order
  <2>a. \A i \in 1..k : sets[order[i]] \in SetsOf(loads)
    BY <1>4
  <2>b. s \in [1..k -> SetsOf(loads)]
    BY <2>a
  <2> HIDE DEF s
  <2>2. s \in Seq(SetsOf(loads)) /\ Len(s) = k
    BY <2>b
  <2>3. SubSeq(s, 1, Len(s)) = s
    BY <2>2
  <2> QED
    BY <2>1, <2>3, <1>1 DEF Evaluated, s
<1> HIDE DEF order
<1>6. s \in [1..k -> SetsOf(loads)]
  BY <1>4
<1>7. Ordered(s, k)
  <2> SUFFICES ASSUME NEW i \in 1..k, NEW j \in 1..k, i < j
               PROVE  ~Heavier(s[j], s[i])
    BY DEF Ordered
  <2>1. before(order[i], order[j]) /\ order[i] \in D /\ order[j] \in D
    BY <1>3, <1>4
  <2>2. s[i] = sets[order[i]] /\ s[j] = sets[order[j]]
        /\ s[i] \in SetsOf(loads) /\ s[j] \in SetsOf(loads)
    BY <1>6
  <2>3. Heavier(s[i], s[j]) => ~Heavier(s[j], s[i])
    BY <2>2, HeavierOrder
  <2> HIDE DEF s
  <2> QED
    BY <2>1, <2>2, <2>3
<1>8. Permuted(s, sets, k)
  BY <1>4 DEF Permuted
<1> HIDE DEF s
<1> QED
  BY <1>5, <1>6, <1>7, <1>8

\* Sorting the sets of a state leaves the rows as they are.
LEMMA StateRows ==
  ASSUME NEW loads \in Seq(Nat), NEW k \in Nat \ {0},
         NEW sets \in [1..k -> SetsOf(loads)], Apart(sets, k),
         RowsIn(sets, k) # {}
  PROVE  /\ State(sets) \in StatesOf(loads, k)
         /\ RowsIn(State(sets), k) = RowsIn(sets, k)
<1>a. Permuted(State(sets), sets, k)
  BY StateFacts
<1>1. PICK order \in [1..k -> 1..k] :
        /\ \A i, j \in 1..k : order[i] = order[j] => i = j
        /\ \A i \in 1..k : \E j \in 1..k : order[j] = i
        /\ \A i \in 1..k : State(sets)[i] = sets[order[i]]
  BY <1>a DEF Permuted
<1>2. State(sets) \in [1..k -> SetsOf(loads)] /\ Ordered(State(sets), k)
  BY StateFacts
<1>3. Apart(State(sets), k)
  <2> SUFFICES ASSUME NEW i \in 1..k, NEW j \in 1..k, i # j
               PROVE  State(sets)[i].rows \cap State(sets)[j].rows = {}
    BY DEF Apart
  <2>1. order[i] \in 1..k /\ order[j] \in 1..k /\ order[i] # order[j]
    BY <1>1
  <2>2. State(sets)[i] = sets[order[i]] /\ State(sets)[j] = sets[order[j]]
    BY <1>1
  <2> QED
    BY <2>1, <2>2 DEF Apart
<1>4. RowsIn(State(sets), k) = RowsIn(sets, k)
  <2>1. ASSUME NEW i \in 1..k PROVE State(sets)[i].rows \subseteq RowsIn(sets, k)
    <3>1. State(sets)[i] = sets[order[i]] /\ order[i] \in 1..k
      BY <1>1
    <3>2. sets[order[i]].rows \subseteq RowsIn(sets, k)
      BY <3>1 DEF RowsIn
    <3> QED
      BY <3>1, <3>2
  <2>2. ASSUME NEW i \in 1..k PROVE sets[i].rows \subseteq RowsIn(State(sets), k)
    <3>1. PICK j \in 1..k : order[j] = i
      BY <1>1
    <3>2. State(sets)[j] = sets[i]
      BY <1>1, <3>1
    <3> QED
      BY <3>2 DEF RowsIn
  <2> QED
    BY <2>1, <2>2 DEF RowsIn
<1> QED
  BY <1>2, <1>3, <1>4 DEF StatesOf

\* The heaviest set of a state holds rows.
LEMMA HeaviestNotEmpty ==
  ASSUME NEW loads \in Seq(Nat), NEW k \in Nat \ {0}, NEW s \in StatesOf(loads, k)
  PROVE  /\ s[1] \in SetsOf(loads) /\ s[1].rows # {} /\ s[1].head \in s[1].rows
         /\ Len(s) = k /\ s[k] \in SetsOf(loads) /\ Spread(s) \in Nat
         /\ \A i \in 1..k : s[k].sum <= s[i].sum /\ s[i].sum <= s[1].sum
<1>1. /\ s \in [1..k -> SetsOf(loads)] /\ Ordered(s, k) /\ 1 \in 1..k /\ k \in 1..k
      /\ Len(s) = k
  BY DEF StatesOf
<1>2. PICK i \in 1..k : s[i].rows # {}
  BY DEF StatesOf, RowsIn
<1>3. i = 1 \/ ~Heavier(s[i], s[1])
  BY <1>1 DEF Ordered
<1>4. /\ s[1] \in SetsOf(loads) /\ s[i] \in SetsOf(loads) /\ s[k] \in SetsOf(loads)
  BY <1>1
<1>5. s[1].rows # {}
  <2>1. CASE s[1].rows = {}
    <3>1. /\ s[1].sum = 0 /\ Cardinality(s[1].rows) = 0
      <4>1. s[1].sum = Total(loads, {})
        BY <2>1, <1>4 DEF SetsOf
      <4> QED
        BY <2>1, <4>1, TotalFew, FS_EmptySet
    <3>2. s[i].sum \in Nat /\ Cardinality(s[i].rows) \in Nat /\ Cardinality(s[i].rows) # 0
      BY <1>2, <1>4, SetFacts
    <3> QED
      BY <1>2, <1>3, <2>1, <3>1, <3>2 DEF Heavier
  <2> QED
    BY <2>1
<1>6. s[1].head \in s[1].rows
  BY <1>4, <1>5 DEF SetsOf
<1>7. \A j \in 1..k : s[k].sum <= s[j].sum /\ s[j].sum <= s[1].sum
  <2> SUFFICES ASSUME NEW j \in 1..k
               PROVE  s[k].sum <= s[j].sum /\ s[j].sum <= s[1].sum
    OBVIOUS
  <2>1. s[j] \in SetsOf(loads)
    BY <1>1
  <2>2. s[j].sum \in Nat /\ s[1].sum \in Nat /\ s[k].sum \in Nat
    BY <1>4, <2>1, SetFacts
  <2>3. j = 1 \/ ~Heavier(s[j], s[1])
    BY <1>1 DEF Ordered
  <2>4. j = k \/ ~Heavier(s[k], s[j])
    BY <1>1 DEF Ordered
  <2> QED
    BY <2>2, <2>3, <2>4 DEF Heavier
<1>8. Spread(s) \in Nat
  <2>1. s[1].sum \in Nat /\ s[k].sum \in Nat /\ s[k].sum <= s[1].sum
    BY <1>1, <1>4, <1>7, SetFacts
  <2> QED
    BY <1>1, <2>1 DEF Spread
<1> QED
  BY <1>1, <1>4, <1>5, <1>6, <1>7, <1>8

\* Two states without common rows are never level.
LEMMA BeforeOrder ==
  ASSUME NEW loads \in Seq(Nat), NEW k \in Nat \ {0},
         NEW s \in StatesOf(loads, k), NEW t \in StatesOf(loads, k),
         NEW u \in StatesOf(loads, k)
  PROVE  /\ ~Before(s, s)
         /\ Before(s, t) /\ Before(t, u) => Before(s, u)
         /\ RowsIn(s, k) \cap RowsIn(t, k) = {} => Before(s, t) \/ Before(t, s)
<1>1. /\ s[1] \in SetsOf(loads) /\ t[1] \in SetsOf(loads) /\ u[1] \in SetsOf(loads)
      /\ s[1].head \in s[1].rows /\ t[1].head \in t[1].rows
      /\ Spread(s) \in Nat /\ Spread(t) \in Nat /\ Spread(u) \in Nat
  BY HeaviestNotEmpty
<1>2. /\ ~Heavier(s[1], s[1])
      /\ Heavier(t[1], u[1]) => ~Heavier(u[1], t[1])
      /\ Heavier(s[1], t[1]) /\ ~Heavier(u[1], t[1]) => Heavier(s[1], u[1])
  BY <1>1, HeavierOrder
<1>3. ~Before(s, s)
  BY <1>1, <1>2 DEF Before
<1>4. Before(s, t) /\ Before(t, u) => Before(s, u)
  BY <1>1, <1>2 DEF Before
<1>5. ASSUME RowsIn(s, k) \cap RowsIn(t, k) = {} PROVE Before(s, t) \/ Before(t, s)
  <2>1. s[1].rows \subseteq RowsIn(s, k) /\ t[1].rows \subseteq RowsIn(t, k)
    BY DEF RowsIn
  <2>2. s[1].head # t[1].head
    BY <1>1, <1>5, <2>1
  <2>3. /\ s[1].sum \in Nat /\ s[1].head \in Nat /\ Cardinality(s[1].rows) \in Nat
        /\ t[1].sum \in Nat /\ t[1].head \in Nat /\ Cardinality(t[1].rows) \in Nat
    BY <1>1, SetFacts
  <2>4. Heavier(s[1], t[1]) \/ Heavier(t[1], s[1])
    BY <2>2, <2>3 DEF Heavier
  <2> QED
    BY <1>1, <2>4 DEF Before
<1> QED
  BY <1>3, <1>4, <1>5

\* The heaps of karmarkar_karp: states without common rows.
HeapsOf(loads, k) ==
  {h \in SUBSET StatesOf(loads, k) :
     /\ IsFiniteSet(h)
     /\ \A s, t \in h : s # t => RowsIn(s, k) \cap RowsIn(t, k) = {}}
HeapRows(h, k) == UNION {RowsIn(s, k) : s \in h}

\* The state that is popped is one of the heap, before all others.
LEMMA PoppedFacts ==
  ASSUME NEW loads \in Seq(Nat), NEW k \in Nat \ {0},
         NEW h \in HeapsOf(loads, k), h # {}
  PROVE  Popped(h) \in h
<1> DEFINE R == {p \in h \X h : Before(p[1], p[2])}
<1>1. h \in SUBSET StatesOf(loads, k) /\ IsFiniteSet(h)
      /\ \A s, t \in h : s # t => RowsIn(s, k) \cap RowsIn(t, k) = {}
  BY DEF HeapsOf
<1>2. \A s, t \in h : <<s, t>> \in R <=> Before(s, t)
  OBVIOUS
<1>3. OrderOf(R, h)
  <2> HIDE DEF R
  <2>1. \A s \in h : ~Before(s, s)
    BY <1>1, BeforeOrder
  <2>2. ASSUME NEW s \in h, NEW t \in h, NEW u \in h, Before(s, t), Before(t, u)
        PROVE  Before(s, u)
    <3>1. s \in StatesOf(loads, k) /\ t \in StatesOf(loads, k) /\ u \in StatesOf(loads, k)
      BY <1>1
    <3> QED
      BY <2>2, <3>1, BeforeOrder
  <2>3. ASSUME NEW s \in h, NEW t \in h, s # t
        PROVE  Before(s, t) \/ Before(t, s)
    <3>1. s \in StatesOf(loads, k) /\ t \in StatesOf(loads, k)
          /\ RowsIn(s, k) \cap RowsIn(t, k) = {}
      BY <1>1, <2>3
    <3> QED
      BY <3>1, BeforeOrder
  <2> QED
    BY <1>2, <2>1, <2>2, <2>3 DEF OrderOf
<1>4. /\ Lists(Sorted(h, R), h) /\ Len(Sorted(h, R)) = Cardinality(h)
      /\ Cardinality(h) \in Nat
      /\ \A i, j \in 1..Cardinality(h) :
           i < j => <<Sorted(h, R)[i], Sorted(h, R)[j]>> \in R
  <2> HIDE DEF R
  <2> QED
    BY <1>1, <1>3, SortedFacts
<1> DEFINE n == Cardinality(h)
           q == Sorted(h, R)
<1> HIDE DEF R
<1>5. n # 0
  BY <1>1, FS_EmptySet
<1>6. q[1] \in h
  <2>1. 1 \in 1..Len(q)
    BY <1>4, <1>5
  <2> QED
    BY <1>4, <2>1 DEF Lists
<1>7. ASSUME NEW t \in h \ {q[1]} PROVE Before(q[1], t)
  <2>1. PICK j \in 1..n : q[j] = t
    BY <1>4 DEF Lists
  <2>2. j # 1 /\ 1 < j /\ 1 \in 1..n
    BY <1>4, <2>1
  <2>3. <<q[1], q[j]>> \in R
    BY <1>4, <2>2
  <2> QED
    BY <1>2, <1>6, <2>1, <2>3
<1> HIDE DEF q
<1> QED
  BY <1>6, <1>7 DEF Popped

\* Sets of one size, and loads no further apart than somewhere at the start.
Even(s, k) == \A i, j \in 1..k : Cardinality(s[i].rows) = Cardinality(s[j].rows)

\* Two sets of different rows make one of all of them.
LEMMA JoinedFacts ==
  ASSUME NEW loads \in Seq(Nat), NEW a \in SetsOf(loads), NEW b \in SetsOf(loads),
         a.rows \cap b.rows = {}
  PROVE  /\ Joined(a, b) \in SetsOf(loads)
         /\ Joined(a, b).rows = a.rows \cup b.rows
         /\ Joined(a, b).sum = a.sum + b.sum
         /\ Cardinality(Joined(a, b).rows) = Cardinality(a.rows) + Cardinality(b.rows)
<1> DEFINE j == Joined(a, b)
<1>1. /\ a.sum \in Nat /\ a.head \in Nat /\ a.rows \in SUBSET DOMAIN loads
      /\ b.sum \in Nat /\ b.head \in Nat /\ b.rows \in SUBSET DOMAIN loads
      /\ a.sum = Total(loads, a.rows) /\ b.sum = Total(loads, b.rows)
      /\ a.rows # {} => a.head \in a.rows
      /\ b.rows # {} => b.head \in b.rows
  BY DEF SetsOf
<1>2. Total(loads, a.rows \cup b.rows) = a.sum + b.sum
  <2>1. Total(loads, a.rows \cup b.rows) = Total(loads, a.rows) + Total(loads, b.rows)
    BY TotalUnion
  <2> QED
    BY <1>1, <2>1
<1>3. j = [sum |-> a.sum + b.sum, rows |-> a.rows \cup b.rows,
           head |-> IF a.rows = {} THEN b.head ELSE a.head]
  BY DEF Joined
<1>4. j \in SetsOf(loads)
  <2>1. /\ j = [sum |-> j.sum, rows |-> j.rows, head |-> j.head]
        /\ j.sum = a.sum + b.sum /\ j.rows = a.rows \cup b.rows
        /\ j.head = IF a.rows = {} THEN b.head ELSE a.head
    BY <1>3
  <2> HIDE DEF j
  <2>2. j.sum \in Nat /\ j.rows \in SUBSET DOMAIN loads /\ j.head \in Nat
    BY <1>1, <2>1
  <2>3. j.sum = Total(loads, j.rows)
    BY <1>2, <2>1
  <2>4. j.rows # {} => j.head \in j.rows
    BY <1>1, <2>1
  <2> QED
    BY <2>1, <2>2, <2>3, <2>4 DEF SetsOf
<1>5. IsFiniteSet(a.rows) /\ IsFiniteSet(b.rows)
  BY SetFacts
<1>6. Cardinality(a.rows \cup b.rows) = Cardinality(a.rows) + Cardinality(b.rows)
  BY <1>5, DisjointSize
<1> QED
  BY <1>3, <1>4, <1>6

\* The ends of a state that takes in another are no farther apart than the
\* wider was.
LEMMA Closer ==
  ASSUME NEW x \in Nat, NEW y \in Nat, NEW a \in Nat, NEW b \in Nat,
         NEW c \in Nat, NEW d \in Nat, a <= x, y <= b, c <= d
  PROVE  (a + c) - (b + d) <= x - y /\ (c + a) - (d + b) <= x - y
         /\ a + c \in Nat
OBVIOUS

\* The sets of a state hold a row each before one holds two.
Filled(s, k) ==
  \A i \in 1..k : s[i].rows = {} => Cardinality(RowsIn(s, k)) < i

\* Empty sets are the last ones.
LEMMA EmptyLast ==
  ASSUME NEW loads \in Seq(Nat), NEW k \in Nat \ {0}, NEW s \in StatesOf(loads, k),
         NEW i \in 1..k, NEW j \in 1..k, i <= j, s[i].rows = {}
  PROVE  s[j].rows = {}
<1>1. s[i] \in SetsOf(loads) /\ s[j] \in SetsOf(loads) /\ Ordered(s, k)
  BY DEF StatesOf
<1>2. /\ s[i].sum = 0 /\ s[j].sum \in Nat
      /\ Cardinality(s[i].rows) = 0 /\ Cardinality(s[j].rows) \in Nat
      /\ Cardinality(s[j].rows) = 0 => s[j].rows = {}
  <2>1. s[i].sum = Total(loads, {})
    BY <1>1 DEF SetsOf
  <2>2. s[i].sum = 0
    BY <2>1, TotalFew
  <2>3. Cardinality(s[i].rows) = 0
    BY FS_EmptySet
  <2> QED
    BY <1>1, <2>2, <2>3, SetFacts
<1>3. CASE i = j
  BY <1>3
<1>4. CASE i < j
  <2>1. ~Heavier(s[j], s[i])
    BY <1>1, <1>4 DEF Ordered
  <2>2. ~(s[j].sum > s[i].sum)
        /\ (s[j].sum = s[i].sum => ~(Cardinality(s[j].rows) > Cardinality(s[i].rows)))
    BY <2>1 DEF Heavier
  <2> QED
    BY <1>2, <2>2
<1> QED
  BY <1>3, <1>4

\* The numbers that are left for n different ones.
LEMMA RoomFor ==
  ASSUME NEW k \in Nat \ {0}, NEW i \in 1..k, NEW a \in Nat, NEW b \in Nat,
         NEW f \in [i..k -> 1..k],
         \A x, y \in i..k : f[x] = f[y] => x = y,
         \A x \in i..k : a < f[x] /\ b < k + 1 - f[x]
  PROVE  a + b < i
<1> DEFINE S == i..k
           T == (a + 1)..(k - b)
<1>1. f \in Injection(S, T)
  <2>1. \A x \in S : f[x] \in T
    OBVIOUS
  <2>2. f \in [S -> T]
    BY <2>1
  <2> QED
    BY <2>2 DEF Injection, IsInjective
<1>2. /\ IsFiniteSet(S) /\ Cardinality(S) = IF i > k THEN 0 ELSE k - i + 1
      /\ IsFiniteSet(T)
      /\ Cardinality(T) = IF a + 1 > k - b THEN 0 ELSE (k - b) - (a + 1) + 1
  <2>1. i \in Int /\ k \in Int /\ a + 1 \in Int /\ k - b \in Int
    OBVIOUS
  <2>2. IsFiniteSet(S) /\ Cardinality(S) = IF i > k THEN 0 ELSE k - i + 1
    BY <2>1, FS_Interval
  <2> DEFINE u == a + 1
             v == k - b
  <2> HIDE DEF u, v
  <2>3. IsFiniteSet(u..v) /\ Cardinality(u..v) = IF u > v THEN 0 ELSE v - u + 1
    BY <2>1, FS_Interval DEF u, v
  <2> QED
    BY <2>2, <2>3 DEF u, v
<1> HIDE DEF S, T
<1>3. Cardinality(S) <= Cardinality(T)
  BY <1>1, <1>2, FS_Injection
<1> QED
  BY <1>2, <1>3

\* Two merged states hold the rows of both, and spread no more than the wider.
LEMMA MergeFacts ==
  ASSUME NEW loads \in Seq(Nat), NEW k \in Nat \ {0},
         NEW s \in StatesOf(loads, k), NEW t \in StatesOf(loads, k),
         RowsIn(s, k) \cap RowsIn(t, k) = {}
  PROVE  /\ Merge(s, t) \in StatesOf(loads, k)
         /\ RowsIn(Merge(s, t), k) = RowsIn(s, k) \cup RowsIn(t, k)
         /\ Even(s, k) /\ Even(t, k) => Even(Merge(s, t), k)
         /\ Filled(s, k) /\ Filled(t, k) => Filled(Merge(s, t), k)
         /\ Spread(Merge(s, t)) <= Spread(s) \/ Spread(Merge(s, t)) <= Spread(t)
<1> DEFINE sets == [i \in 1..k |-> Joined(s[i], t[k + 1 - i])]
<1>1. /\ s \in [1..k -> SetsOf(loads)] /\ t \in [1..k -> SetsOf(loads)]
      /\ Ordered(s, k) /\ Ordered(t, k) /\ Apart(s, k) /\ Apart(t, k)
      /\ RowsIn(s, k) # {}
  BY DEF StatesOf
<1>2. \A i \in 1..k : k + 1 - i \in 1..k
  OBVIOUS
<1>3. Merge(s, t) = State(sets)
  <2>1. Len(s) = k /\ DOMAIN s = 1..k
    BY <1>1
  <2> QED
    BY <2>1 DEF Merge
<1>4. ASSUME NEW i \in 1..k, NEW j \in 1..k
      PROVE  s[i].rows \cap t[j].rows = {}
  BY DEF RowsIn
<1>5. ASSUME NEW i \in 1..k
      PROVE  /\ sets[i] \in SetsOf(loads)
             /\ sets[i].rows = s[i].rows \cup t[k + 1 - i].rows
             /\ sets[i].sum = s[i].sum + t[k + 1 - i].sum
             /\ Cardinality(sets[i].rows) =
                  Cardinality(s[i].rows) + Cardinality(t[k + 1 - i].rows)
  <2>1. s[i] \in SetsOf(loads) /\ t[k + 1 - i] \in SetsOf(loads)
        /\ s[i].rows \cap t[k + 1 - i].rows = {}
    BY <1>1, <1>2, <1>4
  <2> QED
    BY <2>1, JoinedFacts
<1>6. sets \in [1..k -> SetsOf(loads)]
  BY <1>5
<1> HIDE DEF sets
<1>7. Apart(sets, k)
  <2> SUFFICES ASSUME NEW i \in 1..k, NEW j \in 1..k, i # j
               PROVE  sets[i].rows \cap sets[j].rows = {}
    BY DEF Apart
  <2>1. k + 1 - i \in 1..k /\ k + 1 - j \in 1..k /\ k + 1 - i # k + 1 - j
    BY <1>2
  <2>2. s[i].rows \cap s[j].rows = {} /\ t[k + 1 - i].rows \cap t[k + 1 - j].rows = {}
    BY <1>1, <2>1 DEF Apart
  <2>3. s[i].rows \cap t[k + 1 - j].rows = {} /\ s[j].rows \cap t[k + 1 - i].rows = {}
    BY <1>4, <2>1
  <2> QED
    BY <1>5, <2>2, <2>3
<1>8. RowsIn(sets, k) = RowsIn(s, k) \cup RowsIn(t, k)
  <2>1. \A i \in 1..k : sets[i].rows = s[i].rows \cup t[k + 1 - i].rows
    BY <1>5
  <2>2. RowsIn(sets, k) \subseteq RowsIn(s, k) \cup RowsIn(t, k)
    BY <1>2, <2>1 DEF RowsIn
  <2>3. RowsIn(s, k) \subseteq RowsIn(sets, k)
    BY <2>1 DEF RowsIn
  <2>4. ASSUME NEW i \in 1..k PROVE t[i].rows \subseteq RowsIn(sets, k)
    <3>1. k + 1 - i \in 1..k /\ k + 1 - (k + 1 - i) = i
      OBVIOUS
    <3>2. sets[k + 1 - i].rows = s[k + 1 - i].rows \cup t[i].rows
      BY <2>1, <3>1
    <3> QED
      BY <3>1, <3>2 DEF RowsIn
  <2>5. RowsIn(t, k) \subseteq RowsIn(sets, k)
    BY <2>4 DEF RowsIn
  <2> QED
    BY <2>2, <2>3, <2>5
<1>9. /\ State(sets) \in StatesOf(loads, k)
      /\ RowsIn(State(sets), k) = RowsIn(s, k) \cup RowsIn(t, k)
  BY <1>1, <1>6, <1>7, <1>8, StateRows
<1>a. Permuted(State(sets), sets, k)
  BY <1>6, StateFacts
<1>10. PICK order \in [1..k -> 1..k] :
         /\ \A i, j \in 1..k : order[i] = order[j] => i = j
         /\ \A i \in 1..k : \E j \in 1..k : order[j] = i
         /\ \A i \in 1..k : State(sets)[i] = sets[order[i]]
  BY <1>a DEF Permuted
<1>11. Even(s, k) /\ Even(t, k) => Even(State(sets), k)
  <2> SUFFICES ASSUME Even(s, k), Even(t, k), NEW i \in 1..k, NEW j \in 1..k
               PROVE  Cardinality(State(sets)[i].rows) = Cardinality(State(sets)[j].rows)
    BY DEF Even
  <2>1. order[i] \in 1..k /\ order[j] \in 1..k
    OBVIOUS
  <2>2. Cardinality(sets[order[i]].rows) = Cardinality(sets[order[j]].rows)
    <3>1. /\ Cardinality(sets[order[i]].rows) = Cardinality(s[order[i]].rows)
                                       + Cardinality(t[k + 1 - order[i]].rows)
          /\ Cardinality(sets[order[j]].rows) = Cardinality(s[order[j]].rows)
                                       + Cardinality(t[k + 1 - order[j]].rows)
      BY <1>5, <2>1
    <3>2. k + 1 - order[i] \in 1..k /\ k + 1 - order[j] \in 1..k
      BY <1>2, <2>1
    <3>3. /\ Cardinality(s[order[i]].rows) = Cardinality(s[order[j]].rows)
          /\ Cardinality(t[k + 1 - order[i]].rows) = Cardinality(t[k + 1 - order[j]].rows)
      BY <2>1, <3>2 DEF Even
    <3> QED
      BY <3>1, <3>3
  <2> QED
    BY <1>10, <2>2
<1>12. Spread(State(sets)) <= Spread(s) \/ Spread(State(sets)) <= Spread(t)
  <2> DEFINE i == order[1]
             j == order[k]
  <2>1. i \in 1..k /\ j \in 1..k /\ 1 \in 1..k /\ k \in 1..k
    OBVIOUS
  <2>2. /\ Len(State(sets)) = k /\ Spread(State(sets)) \in Nat
        /\ Len(s) = k /\ Len(t) = k
    BY <1>9, HeaviestNotEmpty
  <2>3. Spread(State(sets)) = sets[i].sum - sets[j].sum
    BY <1>10, <2>1, <2>2 DEF Spread
  <2> HIDE DEF i, j
  <2>4. /\ sets[i].sum = s[i].sum + t[k + 1 - i].sum
        /\ sets[j].sum = s[j].sum + t[k + 1 - j].sum
    BY <1>5, <2>1
  <2>5. \A m \in 1..k : s[m].sum \in Nat /\ t[m].sum \in Nat
    BY <1>1, SetFacts
  <2>6. /\ \A m \in 1..k : s[k].sum <= s[m].sum /\ s[m].sum <= s[1].sum
        /\ \A m \in 1..k : t[k].sum <= t[m].sum /\ t[m].sum <= t[1].sum
        /\ Spread(s) \in Nat /\ Spread(t) \in Nat
    BY HeaviestNotEmpty
  <2>7. Spread(s) = s[1].sum - s[k].sum /\ Spread(t) = t[1].sum - t[k].sum
    BY <2>2 DEF Spread
  <2>8. CASE i = j
    <3>a. sets[i] \in SetsOf(loads)
      BY <1>6, <2>1
    <3>1. sets[i].sum \in Nat
      BY <3>a, SetFacts
    <3>2. Spread(State(sets)) = 0
      BY <2>3, <2>8, <3>1
    <3> QED
      BY <2>6, <3>2
  <2>9. CASE i < j
    <3>1. k + 1 - j < k + 1 - i /\ k + 1 - j \in 1..k /\ k + 1 - i \in 1..k
      BY <2>1, <2>9, <1>2
    <3>2. ~Heavier(t[k + 1 - i], t[k + 1 - j])
      BY <1>1, <3>1 DEF Ordered
    <3>3. t[k + 1 - i].sum <= t[k + 1 - j].sum
      BY SMTT(30), <1>1, <3>1, <3>2, <2>5 DEF Heavier
    <3>4. s[i].sum <= s[1].sum /\ s[k].sum <= s[j].sum
      BY <2>1, <2>6
    <3>5. /\ s[1].sum \in Nat /\ s[k].sum \in Nat /\ s[i].sum \in Nat /\ s[j].sum \in Nat
          /\ t[k + 1 - i].sum \in Nat /\ t[k + 1 - j].sum \in Nat
      BY <2>1, <2>5, <3>1
    <3>6. (s[i].sum + t[k + 1 - i].sum) - (s[j].sum + t[k + 1 - j].sum)
            <= s[1].sum - s[k].sum
      BY <3>3, <3>4, <3>5, Closer
    <3> QED
      BY <2>3, <2>4, <2>7, <3>6
  <2>10. CASE j < i
    <3>1. k + 1 - i < k + 1 - j /\ k + 1 - j \in 1..k /\ k + 1 - i \in 1..k
      BY <2>1, <2>10, <1>2
    <3>2. ~Heavier(s[i], s[j])
      BY <1>1, <2>1, <2>10 DEF Ordered
    <3>3. s[i].sum <= s[j].sum
      BY <1>1, <2>1, <3>2, HeavierOrder
    <3>4. t[k + 1 - i].sum <= t[1].sum /\ t[k].sum <= t[k + 1 - j].sum
      BY <3>1, <2>6
    <3>5. /\ t[1].sum \in Nat /\ t[k].sum \in Nat /\ s[i].sum \in Nat /\ s[j].sum \in Nat
          /\ t[k + 1 - i].sum \in Nat /\ t[k + 1 - j].sum \in Nat
      BY <2>1, <2>5, <3>1
    <3>6. (s[i].sum + t[k + 1 - i].sum) - (s[j].sum + t[k + 1 - j].sum)
            <= t[1].sum - t[k].sum
      BY <3>3, <3>4, <3>5, Closer
    <3> QED
      BY <2>3, <2>4, <2>7, <3>6
  <2> QED
    BY <2>1, <2>8, <2>9, <2>10
<1>13. ASSUME Filled(s, k), Filled(t, k) PROVE Filled(State(sets), k)
  <2> DEFINE a == Cardinality(RowsIn(s, k))
             b == Cardinality(RowsIn(t, k))
             m == State(sets)
  <2>1. Cardinality(RowsIn(m, k)) = a + b /\ a \in Nat /\ b \in Nat
    <3>1. IsFiniteSet(1..Len(loads))
      BY FS_Interval
    <3>2. \A i \in 1..k : s[i].rows \subseteq 1..Len(loads) /\ t[i].rows \subseteq 1..Len(loads)
      <4> SUFFICES ASSUME NEW i \in 1..k
                   PROVE  s[i].rows \subseteq 1..Len(loads) /\ t[i].rows \subseteq 1..Len(loads)
        OBVIOUS
      <4>1. s[i] \in SetsOf(loads) /\ t[i] \in SetsOf(loads)
        BY <1>1
      <4>2. s[i].rows \in SUBSET (1..Len(loads))
        BY <4>1, SetFacts
      <4>3. t[i].rows \in SUBSET (1..Len(loads))
        BY <4>1, SetFacts
      <4> QED
        BY <4>2, <4>3
    <3>3. RowsIn(s, k) \in SUBSET (1..Len(loads)) /\ RowsIn(t, k) \in SUBSET (1..Len(loads))
      BY <3>2 DEF RowsIn
    <3>4. IsFiniteSet(RowsIn(s, k)) /\ IsFiniteSet(RowsIn(t, k))
      BY <3>1, <3>3, FS_Subset
    <3> QED
      BY <1>9, <3>4, DisjointSize
  <2> HIDE DEF a, b
  <2>2. SUFFICES ASSUME NEW i \in 1..k, m[i].rows = {} PROVE a + b < i
    BY <2>1 DEF Filled
  <2>3. ASSUME NEW j \in i..k
        PROVE  order[j] \in 1..k /\ a < order[j] /\ b < k + 1 - order[j]
    <3>1. j \in 1..k /\ i <= j
      OBVIOUS
    <3>2. m[j].rows = {}
      BY <1>9, <2>2, <3>1, EmptyLast
    <3> DEFINE x == order[j]
    <3>3. x \in 1..k /\ sets[x].rows = {} /\ k + 1 - x \in 1..k
      BY <1>2, <1>10, <3>1, <3>2
    <3> HIDE DEF x
    <3>4. s[x].rows = {} /\ t[k + 1 - x].rows = {}
      BY <1>5, <3>3
    <3>5. a < x /\ b < k + 1 - x
      BY <1>13, <3>3, <3>4 DEF Filled, a, b
    <3> QED
      BY <3>3, <3>5 DEF x
  <2> DEFINE f == [j \in i..k |-> order[j]]
  <2>4. f \in [i..k -> 1..k]
    BY <2>3
  <2>5. \A x, y \in i..k : f[x] = f[y] => x = y
    <3>1. \A x \in i..k : x \in 1..k /\ f[x] = order[x]
      OBVIOUS
    <3> QED
      BY <1>10, <3>1
  <2>6. \A x \in i..k : a < f[x] /\ b < k + 1 - f[x]
    BY <2>3
  <2> HIDE DEF f
  <2> QED
    BY <2>1, <2>4, <2>5, <2>6, RoomFor
<1> QED
  BY <1>3, <1>9, <1>11, <1>12, <1>13

EvenHeap(h, k) == \A s \in h : Even(s, k)
FilledHeap(h, k) == \A s \in h : Filled(s, k)
NarrowHeap(h, heap0) == \A s \in h : \E o \in heap0 : Spread(s) <= Spread(o)

\* Two states of a heap are merged: it has one state less and the same rows.
LEMMA MergeTwoFacts ==
  ASSUME NEW loads \in Seq(Nat), NEW k \in Nat \ {0},
         NEW h \in HeapsOf(loads, k), Cardinality(h) > 1
  PROVE  /\ MergeTwo(h) \in HeapsOf(loads, k)
         /\ Cardinality(MergeTwo(h)) = Cardinality(h) - 1
         /\ HeapRows(MergeTwo(h), k) = HeapRows(h, k)
         /\ EvenHeap(h, k) => EvenHeap(MergeTwo(h), k)
         /\ FilledHeap(h, k) => FilledHeap(MergeTwo(h), k)
         /\ \A heap0 \in HeapsOf(loads, k) :
              NarrowHeap(h, heap0) => NarrowHeap(MergeTwo(h), heap0)
<1> DEFINE s == Popped(h)
           t == Popped(h \ {s})
           rest == h \ {s, t}
           m == Merge(s, t)
<1>1. /\ h \in SUBSET StatesOf(loads, k) /\ IsFiniteSet(h) /\ Cardinality(h) \in Nat
      /\ \A u, v \in h : u # v => RowsIn(u, k) \cap RowsIn(v, k) = {}
  BY FS_CardinalityType DEF HeapsOf
<1>2. s \in h
  <2>1. h # {}
    <3>1. Cardinality({}) = 0
      BY FS_EmptySet
    <3>2. CASE h = {}
      BY <1>1, <3>1, <3>2
    <3> QED
      BY <3>2
  <2> QED
    BY <2>1, PoppedFacts
<1> HIDE DEF s
<1>3. t \in h /\ t # s
  <2>1. h \ {s} \in HeapsOf(loads, k)
    <3>1. IsFiniteSet(h \ {s})
      BY <1>1, FS_RemoveElement
    <3> QED
      BY <1>1, <3>1 DEF HeapsOf
  <2>2. h \ {s} # {}
    <3>1. Cardinality(h \ {s}) = Cardinality(h) - 1
      BY <1>1, <1>2, FS_RemoveElement
    <3>2. Cardinality({}) = 0
      BY FS_EmptySet
    <3>3. CASE h \ {s} = {}
      <4>1. Cardinality(h \ {s}) = 0
        BY <3>2, <3>3
      <4> QED
        BY <1>1, <3>1, <4>1
    <3> QED
      BY <3>3
  <2> QED
    BY <2>1, <2>2, PoppedFacts
<1>4. MergeTwo(h) = rest \cup {m}
  BY DEF MergeTwo, s
<1> HIDE DEF t
<1>5. /\ m \in StatesOf(loads, k)
      /\ RowsIn(m, k) = RowsIn(s, k) \cup RowsIn(t, k)
      /\ Even(s, k) /\ Even(t, k) => Even(m, k)
      /\ Filled(s, k) /\ Filled(t, k) => Filled(m, k)
      /\ Spread(m) <= Spread(s) \/ Spread(m) <= Spread(t)
  <2>1. s \in StatesOf(loads, k) /\ t \in StatesOf(loads, k)
        /\ RowsIn(s, k) \cap RowsIn(t, k) = {}
    BY <1>1, <1>2, <1>3
  <2> QED
    BY <2>1, MergeFacts
<1>6. ASSUME NEW u \in rest
      PROVE  RowsIn(u, k) \cap RowsIn(m, k) = {} /\ u # m
  <2>1. u \in h /\ u # s /\ u # t /\ u \in StatesOf(loads, k)
    BY <1>1
  <2>2. RowsIn(u, k) \cap RowsIn(s, k) = {} /\ RowsIn(u, k) \cap RowsIn(t, k) = {}
    BY <1>1, <1>2, <1>3, <2>1
  <2>3. RowsIn(u, k) # {}
    BY <2>1 DEF StatesOf
  <2> QED
    BY <1>5, <2>2, <2>3
<1>7. IsFiniteSet(rest) /\ Cardinality(rest) = Cardinality(h) - 2
  <2>1. {s, t} \in SUBSET h /\ {s, t} = {s} \cup {t}
    BY <1>2, <1>3
  <2>2. Cardinality({s, t}) = 2
    <3>1. IsFiniteSet({s}) /\ Cardinality({s}) = 1 /\ t \notin {s}
      BY <1>3, FS_Singleton
    <3>2. Cardinality({s} \cup {t}) = Cardinality({s}) + 1
      BY <3>1, FS_AddElement
    <3>a. Cardinality({s}) + 1 = 2
      BY <3>1
    <3>3. Cardinality({s} \cup {t}) = 2
      BY <3>a, <3>2
    <3> QED
      BY <2>1, <3>3
  <2> QED
    BY <1>1, <2>1, <2>2, WithoutSize
<1>8. /\ IsFiniteSet(rest \cup {m})
      /\ Cardinality(rest \cup {m}) = Cardinality(h) - 1
  <2>1. m \notin rest
    BY <1>6
  <2>2. /\ IsFiniteSet(rest \cup {m})
        /\ Cardinality(rest \cup {m}) = Cardinality(rest) + 1
    BY <1>7, <2>1, FS_AddElement
  <2> QED
    BY <1>1, <1>7, <2>2
<1> HIDE DEF m
<1>9. rest \cup {m} \in HeapsOf(loads, k)
  <2>1. \A u, v \in rest \cup {m} : u # v => RowsIn(u, k) \cap RowsIn(v, k) = {}
    BY <1>1, <1>6
  <2>2. rest \cup {m} \in SUBSET StatesOf(loads, k)
    BY <1>1, <1>5
  <2> QED
    BY <1>8, <2>1, <2>2 DEF HeapsOf
<1>10. HeapRows(rest \cup {m}, k) = HeapRows(h, k)
  BY <1>2, <1>3, <1>5 DEF HeapRows
<1>11. EvenHeap(h, k) => EvenHeap(rest \cup {m}, k)
  BY <1>2, <1>3, <1>5 DEF EvenHeap
<1>12. ASSUME NEW heap0 \in HeapsOf(loads, k), NarrowHeap(h, heap0)
       PROVE  NarrowHeap(rest \cup {m}, heap0)
  <2> SUFFICES ASSUME NEW u \in rest \cup {m}
               PROVE  \E o \in heap0 : Spread(u) <= Spread(o)
    BY DEF NarrowHeap
  <2>1. CASE u = m
    <3>1. PICK o \in heap0 : Spread(s) <= Spread(o)
      BY <1>2, <1>12 DEF NarrowHeap
    <3>2. PICK p \in heap0 : Spread(t) <= Spread(p)
      BY <1>3, <1>12 DEF NarrowHeap
    <3>3. /\ Spread(s) \in Nat /\ Spread(t) \in Nat /\ Spread(m) \in Nat
          /\ Spread(o) \in Nat /\ Spread(p) \in Nat
      <4>1. /\ s \in StatesOf(loads, k) /\ t \in StatesOf(loads, k)
            /\ o \in StatesOf(loads, k) /\ p \in StatesOf(loads, k)
        BY <1>1, <1>2, <1>3 DEF HeapsOf
      <4> QED
        BY <1>5, <4>1, HeaviestNotEmpty
    <3> QED
      BY <1>5, <2>1, <3>1, <3>2, <3>3
  <2>2. CASE u # m
    BY <1>12, <2>2 DEF NarrowHeap
  <2> QED
    BY <2>1, <2>2
<1>13. FilledHeap(h, k) => FilledHeap(rest \cup {m}, k)
  BY <1>2, <1>3, <1>5 DEF FilledHeap
<1> QED
  BY <1>4, <1>8, <1>9, <1>10, <1>11, <1>12, <1>13

\* The heaps that karmarkar_karp goes through exist.
Heaps(heap0) ==
  CHOOSE f : f = [n \in 0..(Cardinality(heap0) - 1) |->
                    IF n = 0 THEN heap0 ELSE MergeTwo(f[n - 1])]

\* Reached from start in n merges.
Reached(h, n, heap0, loads, k) ==
  /\ h \in HeapsOf(loads, k)
  /\ Cardinality(h) = Cardinality(heap0) - n
  /\ HeapRows(h, k) = HeapRows(heap0, k)
  /\ EvenHeap(heap0, k) => EvenHeap(h, k)
  /\ FilledHeap(heap0, k) => FilledHeap(h, k)
  /\ NarrowHeap(h, heap0)

\* One merge more.
LEMMA ReachedNext ==
  ASSUME NEW loads \in Seq(Nat), NEW k \in Nat \ {0},
         NEW heap0 \in HeapsOf(loads, k), NEW n \in Nat,
         NEW h, Reached(h, n, heap0, loads, k), n + 1 < Cardinality(heap0)
  PROVE  Reached(MergeTwo(h), n + 1, heap0, loads, k)
<1>1. Cardinality(heap0) \in Nat
  BY FS_CardinalityType DEF HeapsOf
<1>2. h \in HeapsOf(loads, k) /\ Cardinality(h) > 1
  BY <1>1 DEF Reached
<1>3. /\ MergeTwo(h) \in HeapsOf(loads, k)
      /\ Cardinality(MergeTwo(h)) = Cardinality(h) - 1
      /\ HeapRows(MergeTwo(h), k) = HeapRows(h, k)
      /\ EvenHeap(h, k) => EvenHeap(MergeTwo(h), k)
      /\ FilledHeap(h, k) => FilledHeap(MergeTwo(h), k)
      /\ \A st \in HeapsOf(loads, k) :
           NarrowHeap(h, st) => NarrowHeap(MergeTwo(h), st)
  BY <1>2, MergeTwoFacts
<1>4. /\ Cardinality(h) = Cardinality(heap0) - n
      /\ HeapRows(h, k) = HeapRows(heap0, k)
      /\ EvenHeap(heap0, k) => EvenHeap(h, k)
      /\ FilledHeap(heap0, k) => FilledHeap(h, k)
      /\ NarrowHeap(h, heap0)
  BY DEF Reached
<1>5. Cardinality(MergeTwo(h)) = Cardinality(heap0) - (n + 1)
  BY <1>1, <1>3, <1>4
<1> QED
  BY <1>3, <1>4, <1>5 DEF Reached

\* The heaps of karmarkar_karp, from the first to the one with one state.
LEMMA HeapsFacts ==
  ASSUME NEW loads \in Seq(Nat), NEW k \in Nat \ {0},
         NEW heap0 \in HeapsOf(loads, k), heap0 # {}
  PROVE  LET last == Cardinality(heap0) - 1 IN
         /\ last \in Nat
         /\ Reached(Heaps(heap0)[last], last, heap0, loads, k)
         /\ FinalState(heap0) = CHOOSE s \in Heaps(heap0)[last] : TRUE
<1> DEFINE last == Cardinality(heap0) - 1
           Good(n) == {f \in [0..n -> HeapsOf(loads, k)] :
                         /\ f[0] = heap0
                         /\ \A m \in 1..n : f[m] = MergeTwo(f[m - 1])
                         /\ \A m \in 0..n : Reached(f[m], m, heap0, loads, k)}
           P == {n \in 0..last : Good(n) # {}}
<1>1. Cardinality(heap0) \in Nat /\ Cardinality(heap0) # 0 /\ last \in Nat
  BY FS_CardinalityType, FS_EmptySet DEF HeapsOf
<1>2. 0 \in P
  <2>0. NarrowHeap(heap0, heap0)
    <3> SUFFICES ASSUME NEW s \in heap0 PROVE Spread(s) <= Spread(s)
      BY DEF NarrowHeap
    <3>1. Spread(s) \in Nat
      BY HeaviestNotEmpty DEF HeapsOf
    <3> QED
      BY <3>1
  <2>1. Reached(heap0, 0, heap0, loads, k)
    BY <1>1, <2>0 DEF Reached
  <2>2. [m \in 0..0 |-> heap0] \in Good(0)
    BY <2>1
  <2> HIDE DEF Good
  <2> QED
    BY <1>1, <2>2
<1>3. ASSUME NEW n \in 0..(last - 1), n \in P PROVE n + 1 \in P
  <2>1. PICK f \in Good(n) : TRUE
    BY <1>3
  <2> DEFINE next == MergeTwo(f[n])
             g == [m \in 0..(n + 1) |-> IF m <= n THEN f[m] ELSE next]
  <2>2. n \in Nat /\ n + 1 < Cardinality(heap0) /\ n \in 0..n /\ n + 1 \in 0..last
    BY <1>1
  <2>3. Reached(next, n + 1, heap0, loads, k)
    <3>1. Reached(f[n], n, heap0, loads, k)
      BY <2>1, <2>2
    <3> QED
      BY <2>2, <3>1, ReachedNext
  <2>4. next \in HeapsOf(loads, k)
    BY <2>3 DEF Reached
  <2> HIDE DEF next
  <2>5. g \in [0..(n + 1) -> HeapsOf(loads, k)] /\ g[0] = heap0
    BY <2>1, <2>2, <2>4
  <2>6. ASSUME NEW m \in 1..(n + 1) PROVE g[m] = MergeTwo(g[m - 1])
    <3>1. CASE m = n + 1
      <4>1. g[m] = next /\ g[m - 1] = f[n]
        BY <2>2, <3>1
      <4> QED
        BY <4>1 DEF next
    <3>2. CASE m # n + 1
      <4>1. m \in 1..n /\ g[m] = f[m] /\ g[m - 1] = f[m - 1]
        BY <2>2, <3>2
      <4> QED
        BY <2>1, <4>1
    <3> QED
      BY <3>1, <3>2
  <2>7. ASSUME NEW m \in 0..(n + 1) PROVE Reached(g[m], m, heap0, loads, k)
    <3>1. CASE m = n + 1
      <4>1. g[m] = next
        BY <2>2, <3>1
      <4> QED
        BY <4>1, <3>1, <2>3
    <3>2. CASE m # n + 1
      <4>1. m \in 0..n /\ g[m] = f[m]
        BY <2>2, <3>2
      <4> QED
        BY <2>1, <4>1
    <3> QED
      BY <3>1, <3>2
  <2>8. g \in Good(n + 1)
    BY <2>5, <2>6, <2>7
  <2> HIDE DEF g, Good
  <2> QED
    BY <2>2, <2>8
<1>4. last \in P
  <2> HIDE DEF P
  <2>1. \A n \in 0..last : n \in P
    BY <1>1, <1>2, <1>3, UpTo
  <2> QED
    BY <2>1, <1>1
<1>5. PICK f \in Good(last) : TRUE
  BY <1>4
<1>6. f = [n \in 0..last |-> IF n = 0 THEN heap0 ELSE MergeTwo(f[n - 1])]
  <2>1. f \in [0..last -> HeapsOf(loads, k)] /\ f[0] = heap0
        /\ \A m \in 1..last : f[m] = MergeTwo(f[m - 1])
    BY <1>5
  <2>2. f = [n \in 0..last |-> f[n]]
    BY <2>1
  <2>3. \A n \in 0..last : n # 0 => n \in 1..last
    BY <1>1
  <2> QED
    BY <2>1, <2>2, <2>3
<1> DEFINE heaps == Heaps(heap0)
<1>7. heaps = [n \in 0..last |-> IF n = 0 THEN heap0 ELSE MergeTwo(heaps[n - 1])]
  BY <1>6 DEF Heaps
<1>8. FinalState(heap0) = CHOOSE s \in heaps[last] : TRUE
  BY DEF FinalState, Heaps
<1> HIDE DEF heaps
<1> DEFINE Q == {n \in 0..last : Reached(heaps[n], n, heap0, loads, k)}
<1>9. 0 \in Q
  <2>1. heaps[0] = heap0
    BY <1>1, <1>7
  <2>2. f[0] = heap0 /\ Reached(f[0], 0, heap0, loads, k)
    BY <1>1, <1>5
  <2> QED
    BY <1>1, <2>1, <2>2
<1>10. ASSUME NEW n \in 0..(last - 1), n \in Q PROVE n + 1 \in Q
  <2>1. n + 1 \in 0..last /\ n + 1 # 0 /\ (n + 1) - 1 = n /\ n \in Nat
        /\ n + 1 < Cardinality(heap0)
    BY <1>1
  <2>2. heaps[n + 1] = MergeTwo(heaps[n])
    BY <1>7, <2>1
  <2>3. Reached(MergeTwo(heaps[n]), n + 1, heap0, loads, k)
    BY <1>10, <2>1, ReachedNext
  <2> QED
    BY <2>1, <2>2, <2>3
<1>11. last \in Q
  <2> HIDE DEF Q
  <2>1. \A n \in 0..last : n \in Q
    BY <1>1, <1>9, <1>10, UpTo
  <2> QED
    BY <2>1, <1>1
<1> QED
  BY <1>1, <1>8, <1>11 DEF heaps

\* One state is left, with all the rows.
LEMMA FinalFacts ==
  ASSUME NEW loads \in Seq(Nat), NEW k \in Nat \ {0},
         NEW heap0 \in HeapsOf(loads, k), heap0 # {}
  PROVE  LET s == FinalState(heap0) IN
         /\ s \in StatesOf(loads, k)
         /\ RowsIn(s, k) = HeapRows(heap0, k)
         /\ EvenHeap(heap0, k) => Even(s, k)
         /\ FilledHeap(heap0, k) => Filled(s, k)
         /\ \E o \in heap0 : Spread(s) <= Spread(o)
<1> DEFINE last == Cardinality(heap0) - 1
           h == Heaps(heap0)[last]
           s == FinalState(heap0)
<1>1. /\ last \in Nat /\ Reached(h, last, heap0, loads, k)
      /\ s = CHOOSE u \in h : TRUE
  BY HeapsFacts
<1> HIDE DEF h, s
<1>2. /\ h \in HeapsOf(loads, k) /\ Cardinality(h) = 1
      /\ HeapRows(h, k) = HeapRows(heap0, k)
      /\ EvenHeap(heap0, k) => EvenHeap(h, k)
      /\ FilledHeap(heap0, k) => FilledHeap(h, k)
      /\ NarrowHeap(h, heap0)
  <2>1. Cardinality(heap0) \in Nat
    BY FS_CardinalityType DEF HeapsOf
  <2> QED
    BY <1>1, <2>1 DEF Reached
<1>3. PICK u : h = {u}
  BY <1>2, FS_Singleton DEF HeapsOf
<1>4. s = u /\ u \in h
  BY <1>1, <1>3
<1>5. HeapRows(h, k) = RowsIn(u, k)
  BY <1>3 DEF HeapRows
<1>6. u \in StatesOf(loads, k)
  BY <1>2, <1>4 DEF HeapsOf
<1> QED
  BY <1>2, <1>4, <1>5, <1>6 DEF EvenHeap, FilledHeap, NarrowHeap, s

\* Multiplication keeps the order of numbers.
LEMMA TimesMono ==
  ASSUME NEW a \in Nat, NEW b \in Nat, NEW k \in Nat, a < b
  PROVE  a * k + k <= b * k /\ a * k \in Nat /\ b * k \in Nat
<1>1. b * k = (a + 1) * k + (b - (a + 1)) * k
  OBVIOUS
<1>2. (a + 1) * k = a * k + k
  OBVIOUS
<1>3. b - (a + 1) \in Nat
  OBVIOUS
<1>4. (b - (a + 1)) * k \in Nat /\ a * k \in Nat /\ b * k \in Nat
  BY <1>3
<1> QED
  BY <1>1, <1>2, <1>4

\* M times k numbers in M blocks of k.
LEMMA Cells ==
  ASSUME NEW k \in Nat \ {0}, NEW M \in Nat
  PROVE  /\ \A o \in 0..(M - 1), i \in 1..k : o * k + i \in 1..(M * k)
         /\ \A o, p \in Nat : \A i, j \in 1..k :
              o * k + i = p * k + j => o = p /\ i = j
         /\ \A n \in 1..(M * k) : \E o \in 0..(M - 1), i \in 1..k : n = o * k + i
<1>1. ASSUME NEW o \in 0..(M - 1), NEW i \in 1..k PROVE o * k + i \in 1..(M * k)
  <2>1. o \in Nat /\ o < M
    OBVIOUS
  <2>2. o * k + k <= M * k /\ o * k \in Nat /\ M * k \in Nat
    BY <2>1, TimesMono
  <2> QED
    BY <2>2
<1>2. ASSUME NEW o \in Nat, NEW p \in Nat, NEW i \in 1..k, NEW j \in 1..k,
             o * k + i = p * k + j
      PROVE  o = p /\ i = j
  <2>1. CASE o < p
    <3>1. o * k + k <= p * k /\ o * k \in Nat /\ p * k \in Nat
      BY <2>1, TimesMono
    <3> QED
      BY <3>1, <1>2
  <2>2. CASE p < o
    <3>1. p * k + k <= o * k /\ o * k \in Nat /\ p * k \in Nat
      BY <2>2, TimesMono
    <3> QED
      BY <3>1, <1>2
  <2>3. CASE o = p
    <3>1. o * k \in Nat
      OBVIOUS
    <3> QED
      BY <3>1, <2>3, <1>2
  <2> QED
    BY <2>1, <2>2, <2>3
<1> DEFINE P == {m \in 0..M : \A n \in 1..(m * k) :
                                \E o \in 0..(m - 1), i \in 1..k : n = o * k + i}
<1>3. 0 \in P
  <2>1. 0 * k = 0
    OBVIOUS
  <2> QED
    BY <2>1
<1>4. ASSUME NEW m \in 0..(M - 1), m \in P PROVE m + 1 \in P
  <2>1. (m + 1) * k = m * k + k /\ m * k \in Nat /\ m + 1 \in 0..M
    OBVIOUS
  <2> SUFFICES ASSUME NEW n \in 1..((m + 1) * k)
               PROVE  \E o \in 0..((m + 1) - 1), i \in 1..k : n = o * k + i
    BY <2>1
  <2>2. CASE n <= m * k
    <3>1. n \in 1..(m * k)
      BY <2>1, <2>2
    <3>2. PICK o \in 0..(m - 1), i \in 1..k : n = o * k + i
      BY <3>1, <1>4
    <3>3. o \in 0..((m + 1) - 1)
      OBVIOUS
    <3> QED
      BY <3>2, <3>3
  <2>3. CASE n > m * k
    <3>1. n - m * k \in 1..k /\ n = m * k + (n - m * k) /\ m \in 0..((m + 1) - 1)
      BY <2>1, <2>3
    <3> QED
      BY <3>1
  <2> QED
    BY <2>1, <2>2, <2>3
<1>5. M \in P
  <2> HIDE DEF P
  <2>1. \A m \in 0..M : m \in P
    BY <1>3, <1>4, UpTo
  <2> QED
    BY <2>1
<1> QED
  BY <1>1, <1>2, <1>5

\* Rows sorted by their loads.
LEMMA ByLoadFacts ==
  ASSUME NEW loads \in Seq(Nat), NEW S \in SUBSET (1..Len(loads))
  PROVE  /\ Lists(ByLoad(S, loads), S) /\ IsFiniteSet(S)
         /\ Len(ByLoad(S, loads)) = Cardinality(S) /\ Cardinality(S) \in Nat
         /\ \A i, j \in 1..Cardinality(S) :
              i <= j => loads[ByLoad(S, loads)[i]] <= loads[ByLoad(S, loads)[j]]
<1> DEFINE before(i, j) == \/ loads[i] < loads[j]
                           \/ loads[i] = loads[j] /\ i < j
           R == {p \in S \X S : before(p[1], p[2])}
           q == ByLoad(S, loads)
<1>1. Len(loads) \in Nat /\ \A i \in S : i \in Nat /\ loads[i] \in Nat
  OBVIOUS
<1>2. IsFiniteSet(S)
  <2>1. IsFiniteSet(1..Len(loads))
    BY <1>1, FS_Interval
  <2> QED
    BY <2>1, FS_Subset
<1>3. \A i, j \in S : <<i, j>> \in R <=> before(i, j)
  OBVIOUS
<1>4. OrderOf(R, S)
  <2>1. \A i \in S : ~before(i, i)
    BY <1>1
  <2>2. \A i, j, m \in S : before(i, j) /\ before(j, m) => before(i, m)
    BY <1>1
  <2>3. \A i, j \in S : i = j \/ before(i, j) \/ before(j, i)
    BY <1>1
  <2> HIDE DEF R, before
  <2> QED
    BY <1>3, <2>1, <2>2, <2>3 DEF OrderOf
<1>5. q = Sorted(S, R)
  BY DEF ByLoad
<1> HIDE DEF R, q
<1>6. /\ Lists(q, S) /\ Len(q) = Cardinality(S) /\ Cardinality(S) \in Nat
      /\ \A i, j \in 1..Cardinality(S) : i < j => <<q[i], q[j]>> \in R
  BY <1>2, <1>4, <1>5, SortedFacts
<1>7. ASSUME NEW i \in 1..Cardinality(S), NEW j \in 1..Cardinality(S), i <= j
      PROVE  loads[q[i]] <= loads[q[j]]
  <2>1. q[i] \in S /\ q[j] \in S
    BY <1>6 DEF Lists
  <2>a. loads[q[i]] \in Nat /\ loads[q[j]] \in Nat
    BY <1>1, <2>1
  <2>2. CASE i = j
    BY <2>a, <2>2
  <2>3. CASE i # j
    <3>a. <<q[i], q[j]>> \in R
      BY <1>6, <1>7, <2>3
    <3>1. before(q[i], q[j])
      BY <1>3, <2>1, <3>a
    <3> QED
      BY <2>a, <3>1
  <2> QED
    BY <2>2, <2>3
<1> QED
  BY <1>2, <1>6, <1>7 DEF q

\* The sets that a state starts from.
LEMMA OneRowFacts ==
  ASSUME NEW loads \in Seq(Nat), NEW i \in 1..Len(loads)
  PROVE  /\ OneRow(loads, i) \in SetsOf(loads) /\ OneRow(loads, i).rows = {i}
         /\ OneRow(loads, i).sum = loads[i] /\ Cardinality({i}) = 1
         /\ NoRows \in SetsOf(loads) /\ NoRows.rows = {} /\ NoRows.sum = 0
<1>1. loads[i] \in Nat /\ i \in Nat /\ {i} \in SUBSET DOMAIN loads
  OBVIOUS
<1>2. Total(loads, {i}) = loads[i] /\ Total(loads, {}) = 0
  BY TotalFew
<1>3. OneRow(loads, i) \in SetsOf(loads)
  BY <1>1, <1>2 DEF OneRow, SetsOf
<1>4. NoRows \in SetsOf(loads)
  BY <1>2 DEF NoRows, SetsOf
<1> QED
  BY <1>3, <1>4, FS_Singleton DEF OneRow, NoRows

\* Division with a remainder.
LEMMA DivFacts ==
  ASSUME NEW N \in Int, NEW k \in Nat \ {0}
  PROVE  /\ N \div k \in Int
         /\ (N \div k) * k <= N /\ N < (N \div k) * k + k
         /\ N % k = 0 => (N \div k) * k = N
OBVIOUS

\* A set that a function maps a finite one onto.
LEMMA ImageFinite ==
  ASSUME NEW S, IsFiniteSet(S), NEW f, DOMAIN f = S
  PROVE  IsFiniteSet({f[o] : o \in S})
<1> DEFINE T == {f[o] : o \in S}
           g == [o \in S |-> f[o]]
<1>1. g \in Surjection(S, T)
  BY DEF Surjection
<1> HIDE DEF T, g
<1>2. IsFiniteSet(T)
  BY <1>1, FS_Surjection
<1> QED
  BY <1>2 DEF T

\* Block o of k rows, and the state it starts as.
Block(rows, o, k) == {rows[o * k + i] : i \in 1..k}
Singles(loads, rows, o, k) == [i \in 1..k |-> OneRow(loads, rows[o * k + i])]

Started(loads, rows, o, k) == State(Singles(loads, rows, o, k))

LoadsOf(s, loads, rows, o, k) ==
  \A m \in 1..k : \E i \in 1..k : s[m].sum = loads[rows[o * k + i]]

\* The sets of one state of the heap, a row each.
LEMMA SinglesFacts ==
  ASSUME NEW loads \in Seq(Nat), NEW k \in Nat \ {0}, NEW o \in Nat,
         NEW rows, Lists(rows, 1..Len(loads)), o * k + k <= Len(rows)
  PROVE  /\ Started(loads, rows, o, k) \in StatesOf(loads, k)
         /\ RowsIn(Started(loads, rows, o, k), k) = Block(rows, o, k)
         /\ Even(Started(loads, rows, o, k), k)
         /\ LoadsOf(Started(loads, rows, o, k), loads, rows, o, k)
<1> DEFINE sets == Singles(loads, rows, o, k)
           at == [i \in 1..k |-> rows[o * k + i]]
<1>1. /\ \A i \in 1..k : o * k + i \in 1..Len(rows)
      /\ \A i, j \in 1..k : o * k + i = o * k + j => i = j
  <2>1. o * k \in Nat /\ Len(rows) \in Nat
    BY DEF Lists
  <2> QED
    BY <2>1
<1>a. \A n \in 1..Len(rows) : rows[n] \in 1..Len(loads)
  BY DEF Lists
<1>2. \A i \in 1..k : at[i] \in 1..Len(loads)
  BY <1>1, <1>a
<1>3. \A i, j \in 1..k : at[i] = at[j] => i = j
  BY <1>1 DEF Lists
<1>b. Block(rows, o, k) = {at[i] : i \in 1..k}
  BY DEF Block
<1>c. \A i \in 1..k : sets[i] = OneRow(loads, at[i])
  BY DEF Singles
<1>d. \A i \in 1..k : at[i] = rows[o * k + i]
  OBVIOUS
<1> HIDE DEF at
<1>4. ASSUME NEW i \in 1..k
      PROVE  /\ sets[i] \in SetsOf(loads) /\ sets[i].rows = {at[i]}
             /\ sets[i].sum = loads[at[i]] /\ Cardinality(sets[i].rows) = 1
  <2>1. sets[i] = OneRow(loads, at[i]) /\ at[i] \in 1..Len(loads)
    BY <1>2, <1>c
  <2>2. /\ OneRow(loads, at[i]) \in SetsOf(loads)
        /\ OneRow(loads, at[i]).rows = {at[i]}
        /\ OneRow(loads, at[i]).sum = loads[at[i]] /\ Cardinality({at[i]}) = 1
    BY <2>1, OneRowFacts
  <2> QED
    BY <2>1, <2>2
<1>5. sets \in [1..k -> SetsOf(loads)]
  <2>1. DOMAIN sets = 1..k /\ sets = [i \in 1..k |-> sets[i]]
    BY DEF Singles
  <2> HIDE DEF sets
  <2> QED
    BY <1>4, <2>1
<1> HIDE DEF sets
<1>6. Apart(sets, k)
  <2>1. \A i, j \in 1..k : i # j => {at[i]} \cap {at[j]} = {}
    BY <1>3
  <2>2. \A i \in 1..k : sets[i].rows = {at[i]}
    BY <1>4
  <2> QED
    BY <2>1, <2>2 DEF Apart
<1>7. RowsIn(sets, k) = Block(rows, o, k)
  <2>1. RowsIn(sets, k) = UNION {{at[i]} : i \in 1..k}
    BY <1>4 DEF RowsIn
  <2> QED
    BY <2>1, <1>b
<1>8. RowsIn(sets, k) # {}
  <2>1. 1 \in 1..k
    OBVIOUS
  <2>2. at[1] \in sets[1].rows
    BY <1>4, <2>1
  <2> QED
    BY <2>1, <2>2 DEF RowsIn
<1>9. /\ State(sets) \in StatesOf(loads, k)
      /\ RowsIn(State(sets), k) = Block(rows, o, k)
  BY <1>5, <1>6, <1>7, <1>8, StateRows
<1>e. Permuted(State(sets), sets, k)
  BY <1>5, StateFacts
<1>10. PICK order \in [1..k -> 1..k] :
         /\ \A i, j \in 1..k : order[i] = order[j] => i = j
         /\ \A i \in 1..k : \E j \in 1..k : order[j] = i
         /\ \A i \in 1..k : State(sets)[i] = sets[order[i]]
  BY <1>e DEF Permuted
<1>11. \A m \in 1..k : order[m] \in 1..k
  OBVIOUS
<1>12. Even(State(sets), k)
  <2>1. \A m \in 1..k : Cardinality(State(sets)[m].rows) = 1
    <3> SUFFICES ASSUME NEW m \in 1..k PROVE Cardinality(State(sets)[m].rows) = 1
      OBVIOUS
    <3>1. State(sets)[m] = sets[order[m]] /\ order[m] \in 1..k
      BY <1>10, <1>11
    <3> QED
      BY <1>4, <3>1
  <2> QED
    BY <2>1 DEF Even
<1>13. ASSUME NEW m \in 1..k
       PROVE  \E i \in 1..k : State(sets)[m].sum = loads[rows[o * k + i]]
  <2>1. State(sets)[m] = sets[order[m]] /\ order[m] \in 1..k
    BY <1>10, <1>11
  <2>2. State(sets)[m].sum = loads[at[order[m]]]
    BY <1>4, <2>1
  <2>3. at[order[m]] = rows[o * k + order[m]]
    BY <1>d, <2>1
  <2> QED
    BY <2>1, <2>2, <2>3
<1>14. LoadsOf(State(sets), loads, rows, o, k)
  BY <1>13 DEF LoadsOf
<1> QED
  BY <1>9, <1>12, <1>14 DEF sets, Started

\* The loads of two rows that bound a state's spread.
NearRows(loads, k, s) ==
  \E h, l \in 1..Len(loads) :
    /\ Spread(s) <= loads[h] - loads[l]
    /\ k > 1 => Cardinality({i \in 1..Len(loads) : loads[l] < loads[i]
                                                   /\ loads[i] < loads[h]}) <= k - 2

\* The heap that parts of equal size start from.
LEMMA EqualHeap ==
  ASSUME NEW loads \in Seq(Nat), NEW k \in Nat \ {0}, NEW M \in Nat \ {0},
         Len(loads) = M * k
  PROVE  LET h == InitialHeap(loads, k, TRUE) IN
         /\ h \in HeapsOf(loads, k) /\ h # {}
         /\ HeapRows(h, k) = 1..Len(loads)
         /\ EvenHeap(h, k)
         /\ \A s \in h : NearRows(loads, k, s)
<1> DEFINE N == Len(loads)
           rows == ByLoad(DOMAIN loads, loads)
           s(o) == Started(loads, rows, o, k)
           h == {s(o) : o \in 0..(M - 1)}
<1>1. InitialHeap(loads, k, TRUE) = h
  <2>1. Len(loads) \div k = M
    OBVIOUS
  <2> QED
    BY <2>1 DEF InitialHeap, Singles, Started
<1>2. /\ Lists(rows, 1..N) /\ Len(rows) = M * k /\ N \in Nat
      /\ \A i, j \in 1..N : i <= j => loads[rows[i]] <= loads[rows[j]]
  <2>1. DOMAIN loads = 1..N /\ N \in Nat /\ Cardinality(1..N) = N
    BY FS_Interval
  <2>2. DOMAIN loads \in SUBSET (1..Len(loads))
    OBVIOUS
  <2> QED
    BY <2>1, <2>2, ByLoadFacts
<1>a. M - 1 \in Nat /\ 0 \in 0..(M - 1) /\ \A o \in 0..(M - 1) : o \in Nat
  OBVIOUS
<1> HIDE DEF rows
<1>3. ASSUME NEW o \in 0..(M - 1)
      PROVE  /\ s(o) \in StatesOf(loads, k)
             /\ RowsIn(s(o), k) = Block(rows, o, k)
             /\ Even(s(o), k)
             /\ \A m \in 1..k : \E i \in 1..k : s(o)[m].sum = loads[rows[o * k + i]]
  <2>1. o \in Nat /\ o * k + k <= Len(rows)
    BY <1>2, TimesMono
  <2>2. Lists(rows, 1..Len(loads))
    BY <1>2
  <2>3. s(o) \in StatesOf(loads, k)
    BY <2>1, <2>2, SinglesFacts
  <2>4. RowsIn(s(o), k) = Block(rows, o, k) /\ Even(s(o), k)
    BY <2>1, <2>2, SinglesFacts
  <2>a. LoadsOf(s(o), loads, rows, o, k)
    BY <2>1, <2>2, SinglesFacts
  <2>5. \A m \in 1..k : \E i \in 1..k : s(o)[m].sum = loads[rows[o * k + i]]
    BY <2>a DEF LoadsOf
  <2> QED
    BY <2>3, <2>4, <2>5
<1>b. /\ \A o \in 0..(M - 1), i \in 1..k : o * k + i \in 1..N
      /\ \A o, p \in Nat : \A i, j \in 1..k : o * k + i = p * k + j => o = p /\ i = j
      /\ \A n \in 1..N : \E o \in 0..(M - 1), i \in 1..k : n = o * k + i
  <2>1. M \in Nat /\ N = M * k
    OBVIOUS
  <2> HIDE DEF N
  <2> QED
    BY <2>1, Cells
<1>c. \A n \in 1..N : rows[n] \in 1..N
  <2>1. rows \in Seq(1..N) /\ Len(rows) = N
    BY <1>2 DEF Lists
  <2> HIDE DEF N
  <2> QED
    BY <2>1
<1>4. ASSUME NEW o \in 0..(M - 1), NEW p \in 0..(M - 1), o # p
      PROVE  Block(rows, o, k) \cap Block(rows, p, k) = {}
  <2> SUFFICES ASSUME NEW i \in 1..k, NEW j \in 1..k,
                      rows[o * k + i] = rows[p * k + j]
               PROVE  FALSE
    BY DEF Block
  <2>1. o * k + i = p * k + j
    BY <1>2, <1>b DEF Lists
  <2> QED
    BY <1>4, <1>a, <1>b, <2>1
<1>5. IsFiniteSet(h)
  <2> DEFINE f == [o \in 0..(M - 1) |-> s(o)]
  <2>1. IsFiniteSet({f[o] : o \in 0..(M - 1)})
    <3>1. DOMAIN f = 0..(M - 1) /\ IsFiniteSet(0..(M - 1))
      BY <1>a, FS_Interval
    <3> HIDE DEF f
    <3> QED
      BY <3>1, ImageFinite
  <2>2. h = {f[o] : o \in 0..(M - 1)}
    OBVIOUS
  <2> QED
    BY <2>1, <2>2
<1> HIDE DEF s
<1>6. h \in HeapsOf(loads, k)
  <2>1. h \in SUBSET StatesOf(loads, k)
    BY <1>3
  <2>2. \A u, v \in h : u # v => RowsIn(u, k) \cap RowsIn(v, k) = {}
    BY <1>3, <1>4
  <2> QED
    BY <1>5, <2>1, <2>2 DEF HeapsOf
<1>7. h # {}
  BY <1>a
<1>8. HeapRows(h, k) = 1..N
  <2>1. ASSUME NEW o \in 0..(M - 1) PROVE Block(rows, o, k) \subseteq 1..N
    <3>1. \A i \in 1..k : o * k + i \in 1..N
      BY <1>b
    <3>2. \A i \in 1..k : rows[o * k + i] \in 1..N
      BY <1>c, <3>1
    <3> QED
      BY <3>2 DEF Block
  <2>2. ASSUME NEW n \in 1..N PROVE \E o \in 0..(M - 1) : n \in Block(rows, o, k)
    <3>1. PICK m \in 1..Len(rows) : rows[m] = n
      BY <1>2 DEF Lists
    <3>2. PICK o \in 0..(M - 1), i \in 1..k : m = o * k + i
      BY <1>2, <1>b, <3>1
    <3> QED
      BY <3>1, <3>2 DEF Block
  <2>3. HeapRows(h, k) = UNION {Block(rows, o, k) : o \in 0..(M - 1)}
    BY <1>3 DEF HeapRows
  <2> QED
    BY <2>1, <2>2, <2>3
<1>9. EvenHeap(h, k)
  BY <1>3 DEF EvenHeap
<1>10. ASSUME NEW o \in 0..(M - 1) PROVE NearRows(loads, k, s(o))
  <2> DEFINE hi == rows[o * k + k]
             lo == rows[o * k + 1]
             between == {i \in 1..N : loads[lo] < loads[i] /\ loads[i] < loads[hi]}
  <2>1. k \in 1..k /\ 1 \in 1..k /\ o * k + k \in 1..N /\ o * k + 1 \in 1..N
        /\ o * k \in Nat
    BY <1>b
  <2>2. \A n \in 1..N : rows[n] \in 1..N /\ loads[rows[n]] \in Nat
    <3> SUFFICES ASSUME NEW n \in 1..N
                 PROVE  rows[n] \in 1..N /\ loads[rows[n]] \in Nat
      OBVIOUS
    <3>1. rows[n] \in 1..N
      BY <1>c
    <3> QED
      BY <3>1
  <2>3. Spread(s(o)) <= loads[hi] - loads[lo]
    <3>1. Len(s(o)) = k
      BY <1>3, HeaviestNotEmpty
    <3>2. PICK i \in 1..k : s(o)[1].sum = loads[rows[o * k + i]]
      BY <1>3, <2>1
    <3>3. PICK j \in 1..k : s(o)[k].sum = loads[rows[o * k + j]]
      BY <1>3, <2>1
    <3>4. o * k + i \in 1..N /\ o * k + j \in 1..N
      BY <1>b
    <3>5. loads[rows[o * k + i]] <= loads[hi]
      <4>1. o * k + i <= o * k + k
        BY <2>1
      <4> QED
        BY <1>2, <2>1, <3>4, <4>1
    <3>6. loads[lo] <= loads[rows[o * k + j]]
      <4>1. o * k + 1 <= o * k + j
        BY <2>1
      <4> QED
        BY <1>2, <2>1, <3>4, <4>1
    <3>7. /\ loads[rows[o * k + i]] \in Nat /\ loads[rows[o * k + j]] \in Nat
          /\ loads[hi] \in Nat /\ loads[lo] \in Nat
      BY <2>1, <2>2, <3>4
    <3>8. Spread(s(o)) = loads[rows[o * k + i]] - loads[rows[o * k + j]]
      BY <3>1, <3>2, <3>3 DEF Spread
    <3> HIDE DEF hi, lo
    <3> QED
      BY <3>5, <3>6, <3>7, <3>8
  <2>4. ASSUME k > 1 PROVE Cardinality(between) <= k - 2
    <3> DEFINE place == [x \in between |-> CHOOSE n \in 1..N : rows[n] = x]
               inside == (o * k + 2)..(o * k + k - 1)
    <3>1. ASSUME NEW x \in between
          PROVE  place[x] \in inside /\ rows[place[x]] = x
      <4>1. \E n \in 1..N : rows[n] = x
        BY <1>2 DEF Lists
      <4>2. place[x] \in 1..N /\ rows[place[x]] = x
        BY <4>1
      <4> DEFINE n == place[x]
      <4> HIDE DEF place
      <4>3. loads[lo] < loads[rows[n]] /\ loads[rows[n]] < loads[hi]
        BY <4>2
      <4>4. loads[rows[n]] \in Nat /\ loads[lo] \in Nat /\ loads[hi] \in Nat
        BY <2>1, <2>2, <4>2
      <4>5. ~(n <= o * k + 1)
        <5>1. n <= o * k + 1 => loads[rows[n]] <= loads[lo]
          BY <1>2, <2>1, <4>2
        <5> QED
          BY <4>3, <4>4, <5>1
      <4>6. ~(o * k + k <= n)
        <5>1. o * k + k <= n => loads[hi] <= loads[rows[n]]
          BY <1>2, <2>1, <4>2
        <5> QED
          BY <4>3, <4>4, <5>1
      <4>7. n \in Nat
        BY <4>2
      <4> QED
        BY <2>1, <4>2, <4>5, <4>6, <4>7
    <3>2. place \in Injection(between, inside)
      <4>1. DOMAIN place = between /\ place = [x \in between |-> place[x]]
        OBVIOUS
      <4>2. \A x \in between : place[x] \in inside /\ rows[place[x]] = x
        BY <3>1
      <4> HIDE DEF place, between, inside
      <4>3. place \in [between -> inside]
        BY <4>1, <4>2
      <4>4. \A x, y \in between : place[x] = place[y] => x = y
        BY <4>2
      <4> QED
        BY <4>3, <4>4 DEF Injection, IsInjective
    <3>3. IsFiniteSet(inside) /\ Cardinality(inside) = k - 2
      <4>1. o * k + 2 \in Int /\ o * k + k - 1 \in Int
        BY <2>1
      <4>2. /\ IsFiniteSet(inside)
            /\ Cardinality(inside) = IF o * k + 2 > o * k + k - 1 THEN 0
                                     ELSE (o * k + k - 1) - (o * k + 2) + 1
        BY <4>1, FS_Interval
      <4> QED
        BY <2>1, <2>4, <4>2
    <3> HIDE DEF place, between, inside
    <3>4. Cardinality(between) <= Cardinality(inside)
      BY <3>2, <3>3, FS_Injection
    <3> QED
      BY <3>3, <3>4
  <2>5. hi \in 1..N /\ lo \in 1..N
    BY <2>1, <2>2
  <2> QED
    BY <2>3, <2>4, <2>5 DEF NearRows
<1>11. \A u \in h : NearRows(loads, k, u)
  BY <1>10
<1> HIDE DEF h
<1> QED
  BY <1>1, <1>6, <1>7, <1>8, <1>9, <1>11

Alone(loads, r, k) == State([i \in 1..k |-> IF i = 1 THEN OneRow(loads, r) ELSE NoRows])

\* A state of one row and nothing else.
LEMMA AloneFacts ==
  ASSUME NEW loads \in Seq(Nat), NEW k \in Nat \ {0}, NEW r \in 1..Len(loads)
  PROVE  /\ Alone(loads, r, k) \in StatesOf(loads, k)
         /\ RowsIn(Alone(loads, r, k), k) = {r}
         /\ Filled(Alone(loads, r, k), k)
         /\ Spread(Alone(loads, r, k)) <= loads[r]
<1> DEFINE sets == [i \in 1..k |-> IF i = 1 THEN OneRow(loads, r) ELSE NoRows]
<1>1. /\ OneRow(loads, r) \in SetsOf(loads) /\ OneRow(loads, r).rows = {r}
      /\ NoRows \in SetsOf(loads) /\ NoRows.rows = {}
      /\ OneRow(loads, r).sum = loads[r] /\ NoRows.sum = 0 /\ loads[r] \in Nat
  <2>1. loads[r] \in Nat
    OBVIOUS
  <2>2. /\ OneRow(loads, r) \in SetsOf(loads) /\ NoRows \in SetsOf(loads)
        /\ OneRow(loads, r).rows = {r} /\ NoRows.rows = {}
    BY OneRowFacts
  <2>3. OneRow(loads, r).sum = loads[r] /\ NoRows.sum = 0
    BY DEF OneRow, NoRows
  <2> QED
    BY <2>1, <2>2, <2>3
<1>2. sets \in [1..k -> SetsOf(loads)]
  BY <1>1
<1>3. /\ \A i \in 1..k : sets[i].rows = IF i = 1 THEN {r} ELSE {}
      /\ \A i \in 1..k : sets[i].sum \in 0..loads[r]
  <2>1. \A i \in 1..k : sets[i].rows = IF i = 1 THEN {r} ELSE {}
    BY <1>1
  <2>2. \A i \in 1..k : sets[i].sum = IF i = 1 THEN loads[r] ELSE 0
    BY <1>1
  <2>3. 0 \in 0..loads[r] /\ loads[r] \in 0..loads[r]
    BY <1>1
  <2> QED
    BY <2>1, <2>2, <2>3
<1> HIDE DEF sets
<1>4. Apart(sets, k)
  BY <1>3 DEF Apart
<1>5. RowsIn(sets, k) = {r}
  <2>1. 1 \in 1..k
    OBVIOUS
  <2> QED
    BY <1>3, <2>1 DEF RowsIn
<1>6. State(sets) \in StatesOf(loads, k) /\ RowsIn(State(sets), k) = {r}
  BY <1>2, <1>4, <1>5, StateRows
<1> DEFINE s == State(sets)
<1>7. /\ s[1].rows # {} /\ Len(s) = k /\ \A i \in 1..k : s[i].sum \in 0..loads[r]
  <2>1. s[1].rows # {} /\ Len(s) = k
    BY <1>6, HeaviestNotEmpty
  <2>2. Permuted(s, sets, k)
    BY <1>2, StateFacts
  <2>3. PICK order \in [1..k -> 1..k] : \A i \in 1..k : s[i] = sets[order[i]]
    BY <2>2 DEF Permuted
  <2>4. \A i \in 1..k : s[i].sum \in 0..loads[r]
    BY <1>3, <2>3
  <2> QED
    BY <2>1, <2>4
<1> HIDE DEF s
<1>8. Filled(s, k)
  <2>1. Cardinality(RowsIn(s, k)) = 1
    BY <1>6, FS_Singleton DEF s
  <2> QED
    BY <1>7, <2>1 DEF Filled
<1>9. Spread(s) <= loads[r]
  <2>1. s[1].sum \in 0..loads[r] /\ s[k].sum \in 0..loads[r]
    BY <1>7
  <2> QED
    BY <1>1, <1>7, <2>1 DEF Spread
<1> QED
  BY <1>6, <1>8, <1>9 DEF Alone, sets, s

\* The heap that parts of any size start from.
LEMMA UnequalHeap ==
  ASSUME NEW loads \in Seq(Nat), NEW k \in Nat \ {0}, Len(loads) > 0
  PROVE  /\ InitialHeap(loads, k, FALSE) \in HeapsOf(loads, k)
         /\ InitialHeap(loads, k, FALSE) # {}
         /\ HeapRows(InitialHeap(loads, k, FALSE), k) = 1..Len(loads)
         /\ FilledHeap(InitialHeap(loads, k, FALSE), k)
         /\ \A s \in InitialHeap(loads, k, FALSE) :
              \E r \in 1..Len(loads) : Spread(s) <= loads[r]
<1> DEFINE N == Len(loads)
           h == {Alone(loads, r, k) : r \in 1..N}
<1>1. InitialHeap(loads, k, FALSE) = h
  <2>1. DOMAIN loads = 1..N
    OBVIOUS
  <2> QED
    BY <2>1 DEF InitialHeap, Alone
<1>2. \A r \in 1..N : /\ Alone(loads, r, k) \in StatesOf(loads, k)
                      /\ RowsIn(Alone(loads, r, k), k) = {r}
                      /\ Filled(Alone(loads, r, k), k)
                      /\ Spread(Alone(loads, r, k)) <= loads[r]
  BY AloneFacts
<1>3. IsFiniteSet(h)
  <2> DEFINE f == [r \in 1..N |-> Alone(loads, r, k)]
  <2>1. DOMAIN f = 1..N /\ IsFiniteSet(1..N) /\ h = {f[r] : r \in 1..N}
    BY FS_Interval
  <2> HIDE DEF f, h
  <2> QED
    BY <2>1, ImageFinite
<1>4. h \in SUBSET StatesOf(loads, k)
  BY <1>2
<1>5. \A s, t \in h : s # t => RowsIn(s, k) \cap RowsIn(t, k) = {}
  BY <1>2
<1>6. h # {}
  <2>1. 1 \in 1..N
    OBVIOUS
  <2> QED
    BY <2>1
<1>7. HeapRows(h, k) = 1..N
  <2>1. HeapRows(h, k) = UNION {RowsIn(Alone(loads, r, k), k) : r \in 1..N}
    BY DEF HeapRows
  <2>2. \A r \in 1..N : RowsIn(Alone(loads, r, k), k) = {r}
    BY <1>2
  <2>3. ASSUME NEW n \in 1..N PROVE n \in HeapRows(h, k)
    BY <2>1, <2>2
  <2>4. ASSUME NEW n \in HeapRows(h, k) PROVE n \in 1..N
    BY <2>1, <2>2
  <2> QED
    BY <2>3, <2>4
<1>8. FilledHeap(h, k) /\ \A s \in h : \E r \in 1..N : Spread(s) <= loads[r]
  BY <1>2 DEF FilledHeap
<1> HIDE DEF h
<1> QED
  BY <1>1, <1>3, <1>4, <1>5, <1>6, <1>7, <1>8 DEF HeapsOf

\* k sets that hold the numbers up to N once.
Partition(parts, k, N) ==
  /\ parts \in [1..k -> SUBSET (1..N)]
  /\ \A i, j \in 1..k : i # j => parts[i] \cap parts[j] = {}
  /\ \A n \in 1..N : \E i \in 1..k : n \in parts[i]

\* The sets of the last state divide the rows.
LEMMA FinalPartition ==
  ASSUME NEW loads \in Seq(Nat), NEW k \in Nat \ {0},
         NEW heap0 \in HeapsOf(loads, k), heap0 # {},
         HeapRows(heap0, k) = 1..Len(loads)
  PROVE  /\ Partition([i \in 1..k |-> FinalState(heap0)[i].rows], k, Len(loads))
         /\ \A i \in 1..k : FinalState(heap0)[i].sum = Total(loads, FinalState(heap0)[i].rows)
<1> DEFINE s == FinalState(heap0)
           parts == [i \in 1..k |-> s[i].rows]
<1>1. s \in StatesOf(loads, k) /\ RowsIn(s, k) = 1..Len(loads)
  BY FinalFacts
<1> HIDE DEF s
<1>2. /\ \A i \in 1..k : s[i] \in SetsOf(loads)
      /\ Apart(s, k)
  BY <1>1 DEF StatesOf
<1>3. \A i \in 1..k : s[i].sum = Total(loads, s[i].rows) /\ s[i].rows \in SUBSET (1..Len(loads))
  <2> SUFFICES ASSUME NEW i \in 1..k
               PROVE  s[i].sum = Total(loads, s[i].rows) /\ s[i].rows \in SUBSET (1..Len(loads))
    OBVIOUS
  <2>1. s[i] \in SetsOf(loads)
    BY <1>2
  <2> QED
    BY <2>1, SetFacts DEF SetsOf
<1>4. parts \in [1..k -> SUBSET (1..Len(loads))] /\ \A i \in 1..k : parts[i] = s[i].rows
  BY <1>3
<1> HIDE DEF parts
<1>5. \A i, j \in 1..k : i # j => parts[i] \cap parts[j] = {}
  BY <1>2, <1>4 DEF Apart
<1>6. \A n \in 1..Len(loads) : \E i \in 1..k : n \in parts[i]
  BY <1>1, <1>4 DEF RowsIn
<1>7. Partition(parts, k, Len(loads))
  BY <1>4, <1>5, <1>6 DEF Partition
<1> QED
  BY <1>3, <1>7 DEF parts, s

\* No two parts differ by more than a row, and none is empty that need not be.
LEMMA UnequalPartition ==
  ASSUME NEW loads \in Seq(Nat), NEW k \in Nat \ {0}, Len(loads) > 0
  PROVE  LET parts == BalancedPartitions(loads, k, FALSE) IN
         /\ Partition(parts, k, Len(loads))
         /\ \E r \in 1..Len(loads) : \A i, j \in 1..k :
              Total(loads, parts[i]) <= Total(loads, parts[j]) + loads[r]
         /\ k <= Len(loads) => \A i \in 1..k : parts[i] # {}
<1> DEFINE heap0 == InitialHeap(loads, k, FALSE)
           s == FinalState(heap0)
           parts == BalancedPartitions(loads, k, FALSE)
<1>1. /\ heap0 \in HeapsOf(loads, k) /\ heap0 # {}
      /\ HeapRows(heap0, k) = 1..Len(loads) /\ FilledHeap(heap0, k)
      /\ \A o \in heap0 : \E r \in 1..Len(loads) : Spread(o) <= loads[r]
  BY UnequalHeap
<1> HIDE DEF heap0
<1>2. parts = [i \in 1..k |-> s[i].rows]
  BY DEF BalancedPartitions, heap0
<1>3. /\ s \in StatesOf(loads, k) /\ RowsIn(s, k) = 1..Len(loads) /\ Filled(s, k)
      /\ \E o \in heap0 : Spread(s) <= Spread(o)
  BY <1>1, FinalFacts
<1>4. /\ Partition([i \in 1..k |-> s[i].rows], k, Len(loads))
      /\ \A i \in 1..k : s[i].sum = Total(loads, s[i].rows)
  BY <1>1, FinalPartition
<1> HIDE DEF s, parts
<1>5. \A i \in 1..k : parts[i] = s[i].rows
  BY <1>2
<1>6. PICK r \in 1..Len(loads) : Spread(s) <= loads[r]
  <2>1. PICK o \in heap0 : Spread(s) <= Spread(o)
    BY <1>3
  <2>2. PICK r \in 1..Len(loads) : Spread(o) <= loads[r]
    BY <1>1
  <2>3. Spread(s) \in Nat /\ Spread(o) \in Nat /\ loads[r] \in Nat
    <3>1. o \in StatesOf(loads, k)
      BY <1>1 DEF HeapsOf
    <3> QED
      BY <1>3, <3>1, HeaviestNotEmpty
  <2> QED
    BY <2>1, <2>2, <2>3
<1>7. ASSUME NEW i \in 1..k, NEW j \in 1..k
      PROVE  Total(loads, parts[i]) <= Total(loads, parts[j]) + loads[r]
  <2>1. /\ Len(s) = k /\ s[k].sum <= s[j].sum /\ s[i].sum <= s[1].sum
        /\ s[1].sum \in Nat /\ s[k].sum \in Nat /\ s[i].sum \in Nat /\ s[j].sum \in Nat
    <3>1. \A m \in 1..k : s[m] \in SetsOf(loads)
      BY <1>3 DEF StatesOf
    <3>2. \A m \in 1..k : s[m].sum \in Nat
      BY <3>1, SetFacts
    <3> QED
      BY <1>3, <3>2, HeaviestNotEmpty
  <2>2. Spread(s) = s[1].sum - s[k].sum /\ loads[r] \in Nat
    BY <2>1 DEF Spread
  <2>3. s[i].sum <= s[j].sum + loads[r]
    BY SMTT(30), <1>6, <2>1, <2>2
  <2> QED
    BY <1>4, <1>5, <2>3
<1>8. ASSUME k <= Len(loads), NEW i \in 1..k PROVE parts[i] # {}
  <2>1. Cardinality(1..Len(loads)) = Len(loads)
    <3>1. Len(loads) \in Int /\ Len(loads) >= 1
      OBVIOUS
    <3> DEFINE L == Len(loads)
    <3>2. Cardinality(1..L) = L
      <4>1. L \in Int /\ L >= 1
        BY <3>1
      <4> HIDE DEF L
      <4>2. Cardinality(1..L) = L - 1 + 1
        BY <4>1, FS_Interval
      <4> QED
        BY <4>1, <4>2
    <3> QED
      BY <3>2
  <2>2. CASE s[i].rows = {}
    <3>1. Cardinality(RowsIn(s, k)) < i
      BY <1>3, <2>2 DEF Filled
    <3> QED
      BY <1>3, <1>8, <2>1, <3>1
  <2> QED
    BY <1>5, <2>2
<1>9. Partition(parts, k, Len(loads))
  BY <1>2, <1>4
<1> QED
  BY <1>7, <1>8, <1>9 DEF parts

\* Sets of one size c that hold M * k numbers hold M each.
LEMMA EvenParts ==
  ASSUME NEW k \in Nat \ {0}, NEW M \in Nat, NEW parts,
         Partition(parts, k, M * k),
         \A i, j \in 1..k : Cardinality(parts[i]) = Cardinality(parts[j])
  PROVE  \A i \in 1..k : Cardinality(parts[i]) = M /\ IsFiniteSet(parts[i])
<1> DEFINE N == M * k
           c == Cardinality(parts[1])
           U(n) == UNION {parts[i] : i \in 1..n}
           P == {n \in 0..k : IsFiniteSet(U(n)) /\ Cardinality(U(n)) = n * c}
<1>1. N \in Nat /\ IsFiniteSet(1..N) /\ Cardinality(1..N) = N /\ 1 \in 1..k
  <2>1. N \in Nat /\ 1 \in 1..k
    OBVIOUS
  <2> HIDE DEF N
  <2> QED
    BY <2>1, FS_Interval
<1> HIDE DEF N
<1>2. ASSUME NEW i \in 1..k
      PROVE IsFiniteSet(parts[i]) /\ Cardinality(parts[i]) = c /\ parts[i] \in SUBSET (1..N)
  <2>1. parts[i] \in SUBSET (1..N)
    BY DEF Partition, N
  <2> QED
    BY <1>1, <2>1, FS_Subset
<1>3. c \in Nat
  BY <1>1, <1>2, FS_CardinalityType
<1> HIDE DEF c
<1>4. 0 \in P
  <2>1. U(0) = {} /\ 0 * c = 0
    BY <1>3
  <2> HIDE DEF U
  <2> QED
    BY <2>1, FS_EmptySet
<1>5. ASSUME NEW n \in 0..(k - 1), n \in P PROVE n + 1 \in P
  <2>1. n + 1 \in 1..k /\ n + 1 \in 0..k /\ n \in Nat
    OBVIOUS
  <2>2. U(n + 1) = U(n) \cup parts[n + 1]
    <3>1. 1..(n + 1) = (1..n) \cup {n + 1}
      BY <2>1
    <3> QED
      BY <3>1
  <2>3. U(n) \cap parts[n + 1] = {}
    <3> SUFFICES ASSUME NEW i \in 1..n PROVE parts[i] \cap parts[n + 1] = {}
      OBVIOUS
    <3>1. i \in 1..k /\ i # n + 1
      BY <2>1
    <3> QED
      BY <2>1, <3>1 DEF Partition
  <2>4. IsFiniteSet(U(n)) /\ Cardinality(U(n)) = n * c
    BY <1>5
  <2> HIDE DEF U
  <2>5. /\ IsFiniteSet(U(n + 1))
        /\ Cardinality(U(n + 1)) = n * c + c
    <3>1. IsFiniteSet(parts[n + 1]) /\ Cardinality(parts[n + 1]) = c
      BY <1>2, <2>1
    <3> QED
      BY <2>2, <2>3, <2>4, <3>1, DisjointSize
  <2>6. (n + 1) * c = n * c + c
    BY <1>3, <2>1
  <2> QED
    BY <2>1, <2>5, <2>6
<1>6. k \in P
  <2> HIDE DEF P
  <2>1. \A n \in 0..k : n \in P
    BY <1>4, <1>5, UpTo
  <2> QED
    BY <2>1
<1>7. U(k) = 1..N
  BY <1>2 DEF Partition, N
<1>8. k * c = N
  <2> HIDE DEF U
  <2> QED
    BY <1>1, <1>6, <1>7
<1>9. c = M
  <2>1. c * k = M * k
    BY <1>3, <1>8 DEF N
  <2>2. CASE c < M
    <3>1. c * k + k <= M * k /\ c * k \in Nat
      BY <1>3, <2>2, TimesMono
    <3> QED
      BY <2>1, <3>1
  <2>3. CASE M < c
    <3>1. M * k + k <= c * k /\ M * k \in Nat
      BY <1>3, <2>3, TimesMono
    <3> QED
      BY <2>1, <3>1
  <2> QED
    BY <1>3, <2>2, <2>3
<1> QED
  BY <1>2, <1>9

\* No two parts differ by more than two rows near each other do.
NearLoads(loads, k, parts) ==
  \E h, l \in 1..Len(loads) :
    /\ \A i, j \in 1..k : Total(loads, parts[i]) - Total(loads, parts[j])
                            <= loads[h] - loads[l]
    /\ k > 1 => Cardinality({i \in 1..Len(loads) : loads[l] < loads[i]
                                                   /\ loads[i] < loads[h]}) <= k - 2

\* A difference within two bounds on either side.
LEMMA Within ==
  ASSUME NEW x \in Nat, NEW y \in Nat, NEW a \in Nat, NEW b \in Nat,
         NEW d \in Nat, NEW e \in Nat, NEW h \in Nat, NEW l \in Nat,
         a <= x, y <= b, d = x - y, d <= e, e <= h - l
  PROVE  a - b <= h - l
OBVIOUS

\* Parts of equal size: each holds as many rows, and two differ by no more than
\* neighbours in the order of the loads.
LEMMA EqualPartition ==
  ASSUME NEW loads \in Seq(Nat), NEW k \in Nat \ {0}, NEW M \in Nat \ {0},
         Len(loads) = M * k
  PROVE  LET parts == BalancedPartitions(loads, k, TRUE) IN
         /\ Partition(parts, k, Len(loads))
         /\ \A i \in 1..k : Cardinality(parts[i]) = M /\ IsFiniteSet(parts[i])
         /\ NearLoads(loads, k, parts)
<1> DEFINE heap0 == InitialHeap(loads, k, TRUE)
           s == FinalState(heap0)
           parts == [i \in 1..k |-> s[i].rows]
<1>1. BalancedPartitions(loads, k, TRUE) = parts
  BY DEF BalancedPartitions
<1>2. /\ heap0 \in HeapsOf(loads, k) /\ heap0 # {}
      /\ HeapRows(heap0, k) = 1..Len(loads) /\ EvenHeap(heap0, k)
      /\ \A u \in heap0 : NearRows(loads, k, u)
  BY EqualHeap
<1> HIDE DEF heap0
<1>3. /\ s \in StatesOf(loads, k) /\ Even(s, k)
      /\ \E o \in heap0 : Spread(s) <= Spread(o)
  BY <1>2, FinalFacts
<1>4. /\ Partition(parts, k, Len(loads))
      /\ \A i \in 1..k : s[i].sum = Total(loads, s[i].rows)
  BY <1>2, FinalPartition
<1> HIDE DEF s
<1>5. \A i \in 1..k : parts[i] = s[i].rows
  OBVIOUS
<1> HIDE DEF parts
<1>6. \A i \in 1..k : Cardinality(parts[i]) = M /\ IsFiniteSet(parts[i])
  <2>1. \A i, j \in 1..k : Cardinality(parts[i]) = Cardinality(parts[j])
    BY <1>3, <1>5 DEF Even
  <2>2. Partition(parts, k, M * k)
    BY <1>4
  <2>3. M \in Nat
    OBVIOUS
  <2> QED
    BY <2>1, <2>2, <2>3, EvenParts
<1>7. NearLoads(loads, k, parts)
  <2>1. PICK o \in heap0 : Spread(s) <= Spread(o)
    BY <1>3
  <2>2. NearRows(loads, k, o)
    BY <1>2, <2>1
  <2>3. PICK h \in 1..Len(loads), l \in 1..Len(loads) :
          /\ Spread(o) <= loads[h] - loads[l]
          /\ k > 1 => Cardinality({i \in 1..Len(loads) : loads[l] < loads[i]
                                                   /\ loads[i] < loads[h]}) <= k - 2
    BY <2>2 DEF NearRows
  <2>4. ASSUME NEW i \in 1..k, NEW j \in 1..k
        PROVE  Total(loads, parts[i]) - Total(loads, parts[j]) <= loads[h] - loads[l]
    <3>1. /\ Total(loads, parts[i]) = s[i].sum /\ Total(loads, parts[j]) = s[j].sum
      BY <1>4, <1>5
    <3>2. /\ s[i].sum <= s[1].sum /\ s[k].sum <= s[j].sum
          /\ Spread(s) = s[1].sum - s[k].sum
      BY <1>3, HeaviestNotEmpty DEF Spread
    <3>3. /\ s[i].sum \in Nat /\ s[j].sum \in Nat /\ s[1].sum \in Nat /\ s[k].sum \in Nat
      <4>1. /\ s[i] \in SetsOf(loads) /\ s[j] \in SetsOf(loads)
            /\ s[1] \in SetsOf(loads) /\ s[k] \in SetsOf(loads)
        BY <1>3 DEF StatesOf
      <4> QED
        BY <4>1, SetFacts
    <3>4. Spread(o) \in Nat /\ loads[h] \in Nat /\ loads[l] \in Nat
      <4>1. o \in StatesOf(loads, k)
        BY <1>2, <2>1 DEF HeapsOf
      <4> QED
        BY <4>1, HeaviestNotEmpty
    <3>5. Spread(s) <= Spread(o) /\ Spread(o) <= loads[h] - loads[l] /\ Spread(s) \in Nat
      BY <1>3, <2>1, <2>3, HeaviestNotEmpty
    <3>6. s[i].sum - s[j].sum <= loads[h] - loads[l]
      BY <3>2, <3>3, <3>4, <3>5, Within
    <3> QED
      BY <3>1, <3>6
  <2> QED
    BY <2>3, <2>4 DEF NearLoads
<1> QED
  BY <1>1, <1>4, <1>6, <1>7

\* A list of a set is as long as the set is large.
LEMMA ListsSize ==
  ASSUME NEW S, NEW s, Lists(s, S)
  PROVE  IsFiniteSet(S) /\ Cardinality(S) = Len(s) /\ Len(s) \in Nat
<1>1. s \in Seq(S) /\ Len(s) \in Nat
  BY DEF Lists
<1>2. s \in Bijection(1..Len(s), S)
  <2>1. s \in [1..Len(s) -> S]
    BY <1>1
  <2>2. \A i, j \in 1..Len(s) : s[i] = s[j] => i = j
    BY DEF Lists
  <2>3. \A x \in S : \E i \in 1..Len(s) : s[i] = x
    BY DEF Lists
  <2> QED
    BY <2>1, <2>2, <2>3 DEF Bijection, Injection, Surjection, IsInjective
<1>3. IsFiniteSet(1..Len(s)) /\ Cardinality(1..Len(s)) = Len(s)
  BY <1>1, FS_Interval
<1>4. ExistsBijection(1..Len(s), S)
  BY <1>2 DEF ExistsBijection
<1> QED
  BY <1>1, <1>3, <1>4, FS_Bijection

\* Lists of disjoint sets make one of both.
LEMMA ListsConcat ==
  ASSUME NEW A, NEW B, NEW a, NEW b, Lists(a, A), Lists(b, B), A \cap B = {}
  PROVE  Lists(a \o b, A \cup B) /\ Len(a \o b) = Len(a) + Len(b)
<1> DEFINE S == A \cup B
           c == a \o b
<1>0. a \in Seq(A) /\ b \in Seq(B)
  BY DEF Lists
<1>a. (\A i \in 1..Len(a) : a[i] \in A) /\ (\A i \in 1..Len(b) : b[i] \in B)
  BY <1>0
<1>1. a \in Seq(S) /\ b \in Seq(S)
  BY <1>0
<1>2. /\ c \in Seq(S) /\ Len(c) = Len(a) + Len(b)
      /\ \A i \in 1..Len(a) : c[i] = a[i]
      /\ \A i \in 1..Len(b) : c[Len(a) + i] = b[i]
      /\ \A i \in 1..Len(c) : i \in 1..Len(a) \/ \E j \in 1..Len(b) : i = Len(a) + j
  <2> HIDE DEF S
  <2> QED
    BY <1>1, Concat
<1>b. Len(a) \in Nat /\ Len(b) \in Nat
  BY <1>1
<1> HIDE DEF c
<1>3. ASSUME NEW i \in 1..Len(c), NEW j \in 1..Len(c), c[i] = c[j]
      PROVE  i = j
  <2>1. CASE i \in 1..Len(a) /\ j \in 1..Len(a)
    BY <1>2, <1>3, <2>1 DEF Lists
  <2>2. CASE i \in 1..Len(a) /\ \E y \in 1..Len(b) : j = Len(a) + y
    <3>1. PICK y \in 1..Len(b) : j = Len(a) + y
      BY <2>2
    <3>2. c[i] \in A /\ c[j] \in B
      BY <1>2, <1>a, <2>2, <3>1
    <3> QED
      BY <1>3, <3>2
  <2>3. CASE j \in 1..Len(a) /\ \E y \in 1..Len(b) : i = Len(a) + y
    <3>1. PICK y \in 1..Len(b) : i = Len(a) + y
      BY <2>3
    <3>2. c[j] \in A /\ c[i] \in B
      BY <1>2, <1>a, <2>3, <3>1
    <3> QED
      BY <1>3, <3>2
  <2>4. CASE /\ \E x \in 1..Len(b) : i = Len(a) + x
             /\ \E y \in 1..Len(b) : j = Len(a) + y
    <3>1. PICK x \in 1..Len(b), y \in 1..Len(b) : i = Len(a) + x /\ j = Len(a) + y
      BY <2>4
    <3>2. b[x] = b[y]
      BY <1>2, <1>3, <3>1
    <3>3. x = y
      BY <3>2 DEF Lists
    <3> QED
      BY <3>1, <3>3
  <2> QED
    BY <1>2, <2>1, <2>2, <2>3, <2>4
<1>4. ASSUME NEW x \in S PROVE \E i \in 1..Len(c) : c[i] = x
  <2>1. CASE x \in A
    <3>1. PICK i \in 1..Len(a) : a[i] = x
      BY <2>1 DEF Lists
    <3>2. i \in 1..Len(c)
      BY <1>2, <1>b
    <3> QED
      BY <1>2, <3>1, <3>2
  <2>2. CASE x \in B
    <3>1. PICK i \in 1..Len(b) : b[i] = x
      BY <2>2 DEF Lists
    <3>2. Len(a) + i \in 1..Len(c)
      BY <1>2, <1>b
    <3> QED
      BY <1>2, <3>1, <3>2
  <2> QED
    BY <2>1, <2>2
<1> QED
  BY <1>2, <1>3, <1>4 DEF Lists, c

\* A list backwards.
LEMMA ListsReverse ==
  ASSUME NEW S, NEW s, Lists(s, S)
  PROVE  Lists(Reverse(s), S) /\ Len(Reverse(s)) = Len(s)
<1> DEFINE N == Len(s)
           r == Reverse(s)
<1>1. s \in Seq(S) /\ N \in Nat /\ \A i \in 1..N : s[i] \in S
  BY DEF Lists
<1>2. r \in Seq(S) /\ Len(r) = N /\ \A i \in 1..N : r[i] = s[N - i + 1]
  BY <1>1 DEF Reverse
<1>3. \A i \in 1..N : N - i + 1 \in 1..N /\ N - (N - i + 1) + 1 = i
  BY <1>1
<1> HIDE DEF r, N
<1>4. ASSUME NEW i \in 1..N, NEW j \in 1..N, r[i] = r[j] PROVE i = j
  <2>1. N - i + 1 = N - j + 1
    <3>1. s[N - i + 1] = s[N - j + 1]
      BY <1>2, <1>4
    <3>2. N - i + 1 \in 1..N /\ N - j + 1 \in 1..N
      BY <1>3
    <3> QED
      BY <3>1, <3>2 DEF Lists, N
  <2> QED
    BY <1>1, <2>1
<1>5. ASSUME NEW x \in S PROVE \E i \in 1..N : r[i] = x
  <2>1. PICK j \in 1..N : s[j] = x
    BY DEF Lists, N
  <2>2. r[N - j + 1] = x /\ N - j + 1 \in 1..N
    BY <1>2, <1>3, <2>1
  <2> QED
    BY <2>2
<1> QED
  BY <1>2, <1>4, <1>5 DEF Lists, r, N

\* Short and long rows dealt to both ends list the same set.
LEMMA Interleaved ==
  ASSUME NEW S, NEW s, Lists(s, S)
  PROVE  /\ Lists(Odds(s) \o Reverse(Evens(s)), S)
         /\ Len(Odds(s) \o Reverse(Evens(s))) = Len(s)
         /\ Lists(Reverse(Odds(s)) \o Evens(s), S)
         /\ Len(Reverse(Odds(s)) \o Evens(s)) = Len(s)
<1> DEFINE N == Len(s)
           a == Odds(s)
           b == Evens(s)
           A == {s[2 * i - 1] : i \in 1..((N + 1) \div 2)}
           B == {s[2 * i] : i \in 1..(N \div 2)}
<1>1. s \in Seq(S) /\ N \in Nat /\ \A i \in 1..N : s[i] \in S
  BY DEF Lists
<1>2. /\ (N + 1) \div 2 \in Nat /\ N \div 2 \in Nat
      /\ (N + 1) \div 2 + N \div 2 = N
      /\ \A i \in 1..((N + 1) \div 2) : 2 * i - 1 \in 1..N
      /\ \A i \in 1..(N \div 2) : 2 * i \in 1..N
      /\ \A n \in 1..N : \/ \E i \in 1..((N + 1) \div 2) : n = 2 * i - 1
                         \/ \E i \in 1..(N \div 2) : n = 2 * i
  <2>1. /\ (N + 1) \div 2 \in Nat /\ N \div 2 \in Nat
        /\ (N + 1) \div 2 + N \div 2 = N
    BY <1>1
  <2>2. \A i \in 1..((N + 1) \div 2) : 2 * i - 1 \in 1..N
    BY <1>1
  <2>3. \A i \in 1..(N \div 2) : 2 * i \in 1..N
    BY <1>1
  <2>4. ASSUME NEW n \in 1..N
        PROVE \/ \E i \in 1..((N + 1) \div 2) : n = 2 * i - 1
              \/ \E i \in 1..(N \div 2) : n = 2 * i
    <3> HIDE DEF N
    <3>1. CASE n = 2 * (n \div 2)
      <4>1. n \div 2 \in 1..(N \div 2)
        BY <1>1, <3>1
      <4> QED
        BY <3>1, <4>1
    <3>2. CASE n # 2 * (n \div 2)
      <4>1. (n + 1) \div 2 \in 1..((N + 1) \div 2) /\ n = 2 * ((n + 1) \div 2) - 1
        BY <1>1, <3>2
      <4> QED
        BY <4>1
    <3> QED
      BY <3>1, <3>2
  <2> QED
    BY <2>1, <2>2, <2>3, <2>4
<1>3. /\ a = [i \in 1..((N + 1) \div 2) |-> s[2 * i - 1]]
      /\ b = [i \in 1..(N \div 2) |-> s[2 * i]]
  BY DEF Odds, Evens
<1>4. Lists(a, A) /\ Len(a) = (N + 1) \div 2
  <2> DEFINE K == (N + 1) \div 2
  <2>1. K \in Nat /\ \A i \in 1..K : s[2 * i - 1] \in A
    BY <1>2
  <2>2. a \in [1..K -> A]
    BY <1>3, <2>1
  <2>3. a \in Seq(A) /\ Len(a) = K
    <3> HIDE DEF a, K, A
    <3> QED
      BY <2>1, <2>2
  <2>4. ASSUME NEW i \in 1..K, NEW j \in 1..K, a[i] = a[j] PROVE i = j
    <3>1. 2 * i - 1 \in 1..N /\ 2 * j - 1 \in 1..N /\ s[2 * i - 1] = s[2 * j - 1]
      BY <1>2, <1>3, <2>4
    <3>2. 2 * i - 1 = 2 * j - 1
      BY <3>1 DEF Lists
    <3> QED
      BY <2>1, <3>2
  <2>5. \A x \in A : \E i \in 1..K : a[i] = x
    BY <1>3
  <2> HIDE DEF a, K, A
  <2>6. Lists(a, A)
    BY <2>3, <2>4, <2>5 DEF Lists
  <2> QED
    BY <2>3, <2>6 DEF K
<1>5. Lists(b, B) /\ Len(b) = N \div 2
  <2> DEFINE K == N \div 2
  <2>1. K \in Nat /\ \A i \in 1..K : s[2 * i] \in B
    BY <1>2
  <2>2. b \in [1..K -> B]
    BY <1>3, <2>1
  <2>3. b \in Seq(B) /\ Len(b) = K
    <3> HIDE DEF b, K, B
    <3> QED
      BY <2>1, <2>2
  <2>4. ASSUME NEW i \in 1..K, NEW j \in 1..K, b[i] = b[j] PROVE i = j
    <3>1. 2 * i \in 1..N /\ 2 * j \in 1..N /\ s[2 * i] = s[2 * j]
      BY <1>2, <1>3, <2>4
    <3>2. 2 * i = 2 * j
      BY <3>1 DEF Lists
    <3> QED
      BY <2>1, <3>2
  <2>5. \A x \in B : \E i \in 1..K : b[i] = x
    BY <1>3
  <2> HIDE DEF b, K, B
  <2>6. Lists(b, B)
    BY <2>3, <2>4, <2>5 DEF Lists
  <2> QED
    BY <2>3, <2>6 DEF K
<1>6. A \cap B = {}
  <2> SUFFICES ASSUME NEW i \in 1..((N + 1) \div 2), NEW j \in 1..(N \div 2),
                      s[2 * i - 1] = s[2 * j]
               PROVE  FALSE
    OBVIOUS
  <2>1. 2 * i - 1 = 2 * j
    BY <1>2 DEF Lists
  <2> QED
    BY <1>2, <2>1
<1>7. A \cup B = S
  <2>1. A \subseteq S /\ B \subseteq S
    BY <1>1, <1>2
  <2>2. ASSUME NEW x \in S PROVE x \in A \cup B
    <3>1. PICK n \in 1..N : s[n] = x
      BY DEF Lists
    <3> QED
      BY <1>2, <3>1
  <2> QED
    BY <2>1, <2>2
<1> HIDE DEF a, b, A, B
<1>8. /\ Lists(Reverse(a), A) /\ Len(Reverse(a)) = Len(a)
      /\ Lists(Reverse(b), B) /\ Len(Reverse(b)) = Len(b)
  BY <1>4, <1>5, ListsReverse
<1>9. /\ Lists(a \o Reverse(b), A \cup B) /\ Len(a \o Reverse(b)) = Len(a) + Len(Reverse(b))
      /\ Lists(Reverse(a) \o b, A \cup B) /\ Len(Reverse(a) \o b) = Len(Reverse(a)) + Len(b)
  BY <1>4, <1>5, <1>6, <1>8, ListsConcat
<1>10. Len(a) + Len(b) = N
  BY <1>2, <1>4, <1>5
<1> QED
  BY <1>7, <1>8, <1>9, <1>10 DEF a, b

\* Sequences of one length, one after the other.
LEMMA FlatBlocks ==
  ASSUME NEW S, NEW ss \in Seq(Seq(S)), NEW c \in Nat,
         \A m \in 1..Len(ss) : Len(ss[m]) = c
  PROVE  /\ Len(FlattenSeq(ss)) = Len(ss) * c
         /\ \A m \in 1..Len(ss) : \A i \in 1..c :
              FlattenSeq(ss)[(m - 1) * c + i] = ss[m][i]
<1> DEFINE N == Len(ss)
           P == {t \in 0..N : Len(FlatTo(ss, t)) = t * c}
<1>1. N \in Nat /\ \A m \in 1..N : ss[m] \in Seq(S)
  OBVIOUS
<1>2. /\ FlatTo(ss, 0) = <<>>
      /\ FlatTo(ss, N) = FlattenSeq(ss)
      /\ \A t \in 0..(N - 1) : FlatTo(ss, t + 1) = FlatTo(ss, t) \o ss[t + 1]
      /\ \A t \in 0..N : FlatTo(ss, t) \in Seq(S)
  BY FlatToFacts
<1> HIDE DEF N
<1>3. 0 \in P
  <2>1. 0 * c = 0 /\ Len(<<>>) = 0
    OBVIOUS
  <2> QED
    BY <1>1, <1>2, <2>1
<1>4. ASSUME NEW t \in 0..(N - 1), Len(FlatTo(ss, t)) = t * c
      PROVE  /\ Len(FlatTo(ss, t + 1)) = (t + 1) * c
             /\ \A i \in 1..c : FlatTo(ss, t + 1)[t * c + i] = ss[t + 1][i]
  <2>1. t + 1 \in 1..N /\ t \in 0..N /\ t \in Nat
    BY <1>1
  <2>2. FlatTo(ss, t) \in Seq(S) /\ ss[t + 1] \in Seq(S)
        /\ FlatTo(ss, t + 1) = FlatTo(ss, t) \o ss[t + 1] /\ Len(ss[t + 1]) = c
    BY <1>1, <1>2, <2>1 DEF N
  <2>3. /\ Len(FlatTo(ss, t + 1)) = Len(FlatTo(ss, t)) + Len(ss[t + 1])
        /\ \A i \in 1..Len(ss[t + 1]) :
             FlatTo(ss, t + 1)[Len(FlatTo(ss, t)) + i] = ss[t + 1][i]
    <3> DEFINE a == FlatTo(ss, t)
               b == ss[t + 1]
    <3>1. a \in Seq(S) /\ b \in Seq(S)
      BY <2>2
    <3> HIDE DEF a, b
    <3>2. Len(a \o b) = Len(a) + Len(b) /\ \A i \in 1..Len(b) : (a \o b)[Len(a) + i] = b[i]
      BY <3>1, Concat
    <3>3. FlatTo(ss, t + 1) = a \o b
      BY <2>2 DEF a, b
    <3> QED
      BY <3>2, <3>3 DEF a, b
  <2>4. (t + 1) * c = t * c + c
    BY <2>1
  <2> QED
    BY <1>4, <2>2, <2>3, <2>4
<1>5. ASSUME NEW t \in 0..(N - 1), t \in P PROVE t + 1 \in P
  <2>1. t + 1 \in 0..N
    BY <1>1
  <2> QED
    BY <1>4, <1>5, <2>1
<1>6. \A t \in 0..N : t \in P
  <2> HIDE DEF P
  <2> QED
    BY <1>1, <1>3, <1>5, UpTo
<1>7. ASSUME NEW m \in 1..N, NEW i \in 1..c
      PROVE  FlattenSeq(ss)[(m - 1) * c + i] = ss[m][i]
  <2>1. m - 1 \in 0..(N - 1) /\ (m - 1) + 1 = m /\ m \in 0..N /\ m - 1 \in 0..N
        /\ N \in m..N
    BY <1>1
  <2>2. Len(FlatTo(ss, m - 1)) = (m - 1) * c
    BY <1>6, <2>1
  <2>3. FlatTo(ss, m)[(m - 1) * c + i] = ss[m][i] /\ Len(FlatTo(ss, m)) = m * c
    BY <1>4, <1>6, <2>1, <2>2
  <2>4. (m - 1) * c + i \in 1..(m * c)
    <3>1. m * c = (m - 1) * c + c /\ (m - 1) * c \in Nat
      BY <1>1
    <3> QED
      BY <3>1
  <2>5. \A u \in m..N : \A n \in 1..Len(FlatTo(ss, m)) : FlatTo(ss, u)[n] = FlatTo(ss, m)[n]
    BY <2>1, FlatPrefix DEF N
  <2>6. FlatTo(ss, N)[(m - 1) * c + i] = FlatTo(ss, m)[(m - 1) * c + i]
    BY <2>1, <2>3, <2>4, <2>5
  <2> QED
    BY <1>2, <2>3, <2>6
<1>8. N \in 0..N
  BY <1>1
<1> QED
  BY <1>2, <1>6, <1>7, <1>8 DEF N

\* Putting together what a function makes of some sequences.
Mapped(s, g) == [i \in 1..Len(s) |-> g[s[i]]]
AllMapped(ss, g) == [m \in DOMAIN ss |-> [i \in DOMAIN ss[m] |-> g[ss[m][i]]]]

\* Concatenation of mapped sequences.
LEMMA FlatMap ==
  ASSUME NEW S, NEW ss \in Seq(Seq(S)), NEW g, NEW T,
         \A x \in S : g[x] \in T
  PROVE  /\ AllMapped(ss, g) \in Seq(Seq(T)) /\ Len(AllMapped(ss, g)) = Len(ss)
         /\ \A t \in 0..Len(ss) :
              FlatTo(AllMapped(ss, g), t) = Mapped(FlatTo(ss, t), g)
<1> DEFINE ms == AllMapped(ss, g)
<1>a. ms = [m \in DOMAIN ss |-> [i \in DOMAIN ss[m] |-> g[ss[m][i]]]]
  BY DEF AllMapped
<1> HIDE DEF ms
<1> DEFINE N == Len(ss)
           over(s) == [i \in 1..Len(s) |-> g[s[i]]]
           P == {t \in 0..N : FlatTo(ms, t) = over(FlatTo(ss, t))}
<1>1. N \in Nat /\ DOMAIN ss = 1..N /\ \A m \in 1..N : ss[m] \in Seq(S)
  OBVIOUS
<1>2. /\ FlatTo(ss, 0) = <<>>
      /\ \A t \in 0..(N - 1) : FlatTo(ss, t + 1) = FlatTo(ss, t) \o ss[t + 1]
      /\ \A t \in 0..N : FlatTo(ss, t) \in Seq(S)
  BY FlatToFacts
<1>3. ASSUME NEW s \in Seq(S)
      PROVE  /\ over(s) \in Seq(T) /\ Len(over(s)) = Len(s)
             /\ [i \in DOMAIN s |-> g[s[i]]] = over(s)
  <2>1. Len(s) \in Nat /\ DOMAIN s = 1..Len(s) /\ \A i \in 1..Len(s) : s[i] \in S
    OBVIOUS
  <2>2. over(s) \in [1..Len(s) -> T]
    BY <2>1
  <2>3. [i \in DOMAIN s |-> g[s[i]]] = over(s)
    BY <2>1
  <2>4. over(s) \in Seq(T) /\ DOMAIN over(s) = 1..Len(s)
    BY <2>1, <2>2
  <2>5. Len(over(s)) = Len(s)
    <3> HIDE DEF over
    <3> QED
      BY <2>1, <2>4
  <2> QED
    BY <2>3, <2>4, <2>5
<1> HIDE DEF N
<1>4. \A m \in 1..N : ms[m] = over(ss[m]) /\ ms[m] \in Seq(T)
  <2> SUFFICES ASSUME NEW m \in 1..N PROVE ms[m] = over(ss[m]) /\ ms[m] \in Seq(T)
    OBVIOUS
  <2>1. ms[m] = [i \in DOMAIN ss[m] |-> g[ss[m][i]]] /\ ss[m] \in Seq(S)
    BY <1>a, <1>1
  <2>2. over(ss[m]) \in Seq(T) /\ [i \in DOMAIN ss[m] |-> g[ss[m][i]]] = over(ss[m])
    BY <1>3, <2>1
  <2> QED
    BY <2>1, <2>2
<1>5. ms \in Seq(Seq(T)) /\ Len(ms) = N
  <2>1. DOMAIN ms = 1..N /\ ms = [m \in 1..N |-> ms[m]]
    BY <1>a, <1>1
  <2>2. ms \in [1..N -> Seq(T)]
    BY <1>4, <2>1
  <2> QED
    BY <1>1, <2>2
<1>6. /\ FlatTo(ms, 0) = <<>>
      /\ \A t \in 0..(N - 1) : FlatTo(ms, t + 1) = FlatTo(ms, t) \o ms[t + 1]
  BY <1>5, FlatToFacts
<1>7. 0 \in P
  <2>1. over(<<>>) = <<>>
    OBVIOUS
  <2> HIDE DEF over
  <2> QED
    BY <1>1, <1>2, <1>6, <2>1
<1>8. ASSUME NEW a \in Seq(S), NEW b \in Seq(S) PROVE over(a \o b) = over(a) \o over(b)
  <2>1. /\ a \o b \in Seq(S) /\ Len(a \o b) = Len(a) + Len(b)
        /\ \A i \in 1..Len(a) : (a \o b)[i] = a[i]
        /\ \A i \in 1..Len(b) : (a \o b)[Len(a) + i] = b[i]
        /\ \A i \in 1..Len(a \o b) :
              i \in 1..Len(a) \/ \E j \in 1..Len(b) : i = Len(a) + j
    BY Concat
  <2> DEFINE x == over(a)
             y == over(b)
             z == over(a \o b)
  <2>2. x \in Seq(T) /\ y \in Seq(T) /\ z \in Seq(T) /\ Len(x) = Len(a) /\ Len(y) = Len(b)
        /\ Len(z) = Len(a \o b)
    BY <1>3, <2>1
  <2>3. /\ \A i \in 1..Len(a) : x[i] = g[a[i]]
        /\ \A i \in 1..Len(b) : y[i] = g[b[i]]
        /\ \A i \in 1..Len(a \o b) : z[i] = g[(a \o b)[i]]
    OBVIOUS
  <2> HIDE DEF x, y, z
  <2>4. /\ x \o y \in Seq(T) /\ Len(x \o y) = Len(x) + Len(y)
        /\ \A i \in 1..Len(x) : (x \o y)[i] = x[i]
        /\ \A i \in 1..Len(y) : (x \o y)[Len(x) + i] = y[i]
    <3>1. x \in Seq(T) /\ y \in Seq(T)
      BY <2>2
    <3> QED
      BY ONLY <3>1, Concat
  <2>5. ASSUME NEW i \in 1..Len(z) PROVE z[i] = (x \o y)[i]
    <3>1. CASE i \in 1..Len(a)
      BY <2>1, <2>2, <2>3, <2>4, <3>1
    <3>2. CASE \E j \in 1..Len(b) : i = Len(a) + j
      <4>1. PICK j \in 1..Len(b) : i = Len(a) + j
        BY <3>2
      <4>2. z[i] = g[b[j]]
        BY <2>1, <2>2, <2>3, <4>1
      <4>3. (x \o y)[i] = g[b[j]]
        BY <2>2, <2>3, <2>4, <4>1
      <4> QED
        BY <4>2, <4>3
    <3> QED
      BY <2>1, <2>2, <3>1, <3>2
  <2>6. Len(z) = Len(x \o y)
    BY <2>1, <2>2, <2>4
  <2>7. z = x \o y
    BY <2>2, <2>4, <2>5, <2>6
  <2> QED
    BY <2>7 DEF x, y, z
<1> HIDE DEF over
<1>9. ASSUME NEW t \in 0..(N - 1), t \in P PROVE t + 1 \in P
  <2>1. t + 1 \in 1..N /\ t + 1 \in 0..N /\ t \in 0..N
    BY <1>1
  <2>2. FlatTo(ss, t) \in Seq(S) /\ ss[t + 1] \in Seq(S) /\ ms[t + 1] = over(ss[t + 1])
    BY <1>1, <1>2, <1>4, <2>1
  <2>3. FlatTo(ms, t + 1) = over(FlatTo(ss, t)) \o over(ss[t + 1])
    BY <1>6, <1>9, <2>2
  <2>4. FlatTo(ss, t + 1) = FlatTo(ss, t) \o ss[t + 1]
    BY <1>2
  <2> QED
    BY <1>8, <2>1, <2>2, <2>3, <2>4
<1>10. \A t \in 0..N : t \in P
  <2> HIDE DEF P
  <2> QED
    BY <1>1, <1>7, <1>9, UpTo
<1>11. \A t \in 0..N : FlatTo(ms, t) = over(FlatTo(ss, t))
  BY <1>10
<1>12. \A s : Mapped(s, g) = over(s)
  BY DEF Mapped, over
<1> QED
  BY <1>5, <1>11, <1>12 DEF N, ms

-----------------------------------------------------------------------------
\* The order of the batch.

\* Lists of the sets of a partition are parts of what it divides.
LEMMA PartsOf ==
  ASSUME NEW k \in Nat, NEW N \in Nat, NEW parts, Partition(parts, k, N),
         NEW ss, ss = [r \in 1..k |-> ss[r]],
         \A r \in 1..k : Lists(ss[r], parts[r])
  PROVE  Parts(ss, 1..N) /\ Len(ss) = k
<1>1. ASSUME NEW r \in 1..k PROVE ss[r] \in Seq(1..N)
  <2>1. ss[r] \in Seq(parts[r]) /\ parts[r] \in SUBSET (1..N)
    BY DEF Lists, Partition
  <2> QED
    BY <2>1
<1>2. DOMAIN ss = 1..k
  OBVIOUS
<1>3. ss \in [1..k -> Seq(1..N)]
  BY <1>1, <1>2
<1>4. ss \in Seq(Seq(1..N)) /\ Len(ss) = k
  BY <1>3
<1>5. ASSUME NEW m \in 1..k, NEW n \in 1..k, NEW i \in 1..Len(ss[m]),
             NEW j \in 1..Len(ss[n]), ss[m][i] = ss[n][j]
      PROVE  m = n /\ i = j
  <2>1. ss[m][i] \in parts[m] /\ ss[n][j] \in parts[n]
    <3>1. ss[m] \in Seq(parts[m]) /\ ss[n] \in Seq(parts[n])
      BY DEF Lists
    <3> QED
      BY <3>1
  <2>2. m = n
    BY <1>5, <2>1 DEF Partition
  <2> QED
    BY <1>5, <2>2 DEF Lists
<1>6. ASSUME NEW x \in 1..N
      PROVE  \E m \in 1..k : \E i \in 1..Len(ss[m]) : ss[m][i] = x
  <2>1. PICK m \in 1..k : x \in parts[m]
    BY DEF Partition
  <2> QED
    BY <2>1 DEF Lists
<1> QED
  BY <1>4, <1>5, <1>6 DEF Parts

\* An order of the rows that gives each of k ranks M rows: those of its part.
Dealt(order, parts, k, M) ==
  /\ Partition(parts, k, M * k)
  /\ Lists(order, 1..(M * k)) /\ Len(order) = M * k
  /\ \A r \in 1..k : Block(order, r - 1, M) = parts[r]

\* Where a row is in an order that deals the parts to ranks.
LEMMA DealtFacts ==
  ASSUME NEW k \in Nat \ {0}, NEW M \in Nat \ {0}, NEW parts,
         Partition(parts, k, M * k),
         NEW ss, ss = [r \in 1..k |-> ss[r]],
         \A r \in 1..k : Lists(ss[r], parts[r]) /\ Len(ss[r]) = M
  PROVE  Dealt(FlattenSeq(ss), parts, k, M)
<1> DEFINE N == M * k
           order == FlattenSeq(ss)
<1>1. N \in Nat /\ Len(ss) * M = N /\ Len(ss) = k /\ k * M = N /\ k \in Nat
  <2>1. DOMAIN ss = 1..k
    OBVIOUS
  <2>2. k * M = M * k /\ k * M \in Nat /\ k \in Nat
    OBVIOUS
  <2> QED
    BY <2>1, <2>2, PartsOf
<1>2. Parts(ss, 1..N)
  BY <1>1, PartsOf
<1>3. Lists(order, 1..N)
  BY <1>2, PartsListed
<1>4. ss \in Seq(Seq(1..N)) /\ M \in Nat /\ \A m \in 1..Len(ss) : Len(ss[m]) = M
  BY <1>1, <1>2 DEF Parts
<1>5. /\ Len(order) = k * M
      /\ \A m \in 1..k : \A i \in 1..M : order[(m - 1) * M + i] = ss[m][i]
  <2> HIDE DEF N
  <2> QED
    BY <1>1, <1>4, FlatBlocks
<1>6. ASSUME NEW r \in 1..k PROVE Block(order, r - 1, M) = parts[r]
  <2>1. Block(order, r - 1, M) = {ss[r][i] : i \in 1..M}
    <3> HIDE DEF order
    <3>1. \A i \in 1..M : order[(r - 1) * M + i] = ss[r][i]
      BY <1>5
    <3> QED
      BY <3>1 DEF Block
  <2>2. {ss[r][i] : i \in 1..M} = parts[r]
    <3>1. ss[r] \in Seq(parts[r]) /\ Len(ss[r]) = M
          /\ \A x \in parts[r] : \E i \in 1..M : ss[r][i] = x
      BY DEF Lists
    <3> QED
      BY <3>1
  <2> QED
    BY <2>1, <2>2
<1>7. Len(order) = M * k /\ Lists(order, 1..(M * k))
  BY <1>1, <1>3, <1>5
<1> HIDE DEF order
<1>8. Dealt(order, parts, k, M)
  BY <1>6, <1>7 DEF Dealt
<1> QED
  BY <1>8 DEF order

\* Balanced row by row, the ranks' loads are as near as some rows' loads are.
LEMMA RowsBalanced ==
  ASSUME NEW lens \in Seq(Nat \ {0}), NEW uids, NEW k \in Nat \ {0},
         NEW M \in Nat \ {0}, Len(lens) = M * k,
         NEW loads, loads = [i \in DOMAIN lens |-> Workload(lens[i])]
  PROVE  \E parts : /\ Dealt(BalancedOrder(lens, uids, k, FALSE), parts, k, M)
                    /\ NearLoads(loads, k, parts)
<1> DEFINE parts == BalancedPartitions(loads, k, TRUE)
           ss == [r \in 1..k |-> ShortAtEnds(parts[r], loads)]
<1>1. loads \in Seq(Nat) /\ Len(loads) = M * k
  <2>1. DOMAIN loads = 1..Len(lens) /\ Len(lens) \in Nat
    OBVIOUS
  <2>2. \A i \in 1..Len(lens) : Workload(lens[i]) \in Nat
    <3>1. \A l \in Nat : Workload(l) \in Nat
      <4>1. \A l \in Nat : l * l \in Nat /\ 24576 * l \in Nat
        OBVIOUS
      <4>2. \A a, b \in Nat : a + b \in Nat
        OBVIOUS
      <4> QED
        BY <4>1, <4>2 DEF Workload
    <3>2. \A i \in 1..Len(lens) : lens[i] \in Nat
      OBVIOUS
    <3> QED
      BY <3>1, <3>2
  <2>3. loads \in [1..Len(lens) -> Nat]
    BY <2>1, <2>2
  <2> QED
    BY <2>3, <2>1
<1>2. /\ Partition(parts, k, M * k)
      /\ \A i \in 1..k : Cardinality(parts[i]) = M
      /\ NearLoads(loads, k, parts)
  <2>1. /\ Partition(BalancedPartitions(loads, k, TRUE), k, Len(loads))
        /\ \A i \in 1..k : Cardinality(BalancedPartitions(loads, k, TRUE)[i]) = M
        /\ NearLoads(loads, k, BalancedPartitions(loads, k, TRUE))
    <3>1. loads \in Seq(Nat) /\ k \in Nat \ {0} /\ M \in Nat \ {0} /\ Len(loads) = M * k
      BY <1>1
    <3> QED
      BY ONLY <3>1, EqualPartition
  <2> QED
    BY <1>1, <2>1
<1> HIDE DEF parts
<1>3. ASSUME NEW r \in 1..k
      PROVE  Lists(ShortAtEnds(parts[r], loads), parts[r])
             /\ Len(ShortAtEnds(parts[r], loads)) = M
  <2>1. parts[r] \in SUBSET (1..Len(loads)) /\ Cardinality(parts[r]) = M
    BY <1>1, <1>2 DEF Partition
  <2>2. Lists(ByLoad(parts[r], loads), parts[r]) /\ Len(ByLoad(parts[r], loads)) = M
    BY <1>1, <2>1, ByLoadFacts
  <2> QED
    BY <2>2, Interleaved DEF ShortAtEnds
<1>4. ss = [r \in 1..k |-> ss[r]] /\ \A r \in 1..k : Lists(ss[r], parts[r]) /\ Len(ss[r]) = M
  BY <1>3
<1>5. BalancedOrder(lens, uids, k, FALSE) = FlattenSeq(ss)
  BY DEF BalancedOrder, parts
<1> HIDE DEF ss
<1>6. Dealt(FlattenSeq(ss), parts, k, M)
  BY <1>2, <1>4, DealtFacts
<1> QED
  BY <1>2, <1>5, <1>6

\* Numbers in ascending order.
LEMMA AscendingFacts ==
  ASSUME NEW S \in SUBSET Nat, IsFiniteSet(S)
  PROVE  /\ Lists(Ascending(S), S)
         /\ Len(Ascending(S)) = Cardinality(S) /\ Cardinality(S) \in Nat
<1> DEFINE R == {p \in S \X S : p[1] < p[2]}
<1>1. \A x, y \in S : <<x, y>> \in R <=> x < y
  OBVIOUS
<1>2. OrderOf(R, S)
  <2>1. \A x \in S : x \in Nat
    OBVIOUS
  <2> HIDE DEF R
  <2> QED
    BY <1>1, <2>1 DEF OrderOf
<1>3. Ascending(S) = Sorted(S, R)
  BY DEF Ascending
<1> HIDE DEF R
<1> QED
  BY <1>2, <1>3, SortedFacts

\* What is equal k times over is equal.
LEMMA Cancel ==
  ASSUME NEW a \in Nat, NEW b \in Nat, NEW k \in Nat \ {0}, a * k = b * k
  PROVE  a = b
<1>1. ~(a < b) /\ ~(b < a)
  <2>1. \A x, y \in Nat : x < y => x * k + k <= y * k
    BY TimesMono
  <2>2. a * k \in Nat /\ b * k \in Nat
    OBVIOUS
  <2> QED
    BY <2>1, <2>2
<1> QED
  BY <1>1

\* The sizes of a batch.
LEMMA SizesFacts ==
  /\ Prompts \in Nat \ {0} /\ Rollouts \in Nat \ {0} /\ Ranks \in Nat \ {0}
  /\ Prompts * Rollouts \in Nat \ {0}
  /\ PerRank \in Nat \ {0} /\ PerRank * Ranks = Prompts * Rollouts
<1>1. Prompts \in Nat \ {0} /\ Rollouts \in Nat \ {0} /\ Ranks \in Nat \ {0}
      /\ (Prompts * Rollouts) % Ranks = 0
  BY SizesAssumption
<1> DEFINE N == Prompts * Rollouts
           M == N \div Ranks
<1>2. N \in Nat \ {0}
  BY <1>1
<1> HIDE DEF N
<1>3. M \in Int /\ M * Ranks = N
  BY <1>1, <1>2, DivFacts DEF N
<1>4. M \in Nat \ {0}
  <2> HIDE DEF M
  <2>1. CASE M <= 0
    <3>1. (-M) \in Nat /\ (-M) * Ranks \in Nat /\ (-M) * Ranks = -(M * Ranks)
      BY <1>1, <1>3, <2>1
    <3> QED
      BY <1>2, <1>3, <3>1
  <2> QED
    BY <1>3, <2>1
<1> QED
  BY <1>1, <1>2, <1>3, <1>4 DEF N, PerRank

\* The responses to a prompt are neighbours.
LEMMA UidFacts ==
  /\ \A o \in 0..(Prompts - 1), i \in 1..Rollouts :
       /\ o * Rollouts + i \in Samples
       /\ Uid(o * Rollouts + i) = o + 1
  /\ \A s \in Samples : \E o \in 0..(Prompts - 1), i \in 1..Rollouts :
       s = o * Rollouts + i
  /\ \A s \in Samples : Uid(s) \in 1..Prompts
<1>1. Prompts \in Nat \ {0} /\ Rollouts \in Nat \ {0}
  BY SizesFacts
<1>2. /\ \A o \in 0..(Prompts - 1), i \in 1..Rollouts :
           o * Rollouts + i \in 1..(Prompts * Rollouts)
      /\ \A n \in 1..(Prompts * Rollouts) :
           \E o \in 0..(Prompts - 1), i \in 1..Rollouts : n = o * Rollouts + i
  <2>1. Prompts \in Nat
    BY <1>1
  <2> QED
    BY <1>1, <2>1, Cells
<1>3. ASSUME NEW o \in 0..(Prompts - 1), NEW i \in 1..Rollouts
      PROVE  Uid(o * Rollouts + i) = o + 1
  <2>1. o * Rollouts + i - 1 \in Int /\ o * Rollouts \in Nat
    BY <1>1
  <2> DEFINE d == ((o * Rollouts + i) - 1) \div Rollouts
  <2>2. d \in Int /\ d * Rollouts <= o * Rollouts + i - 1
        /\ o * Rollouts + i - 1 < d * Rollouts + Rollouts
    BY <1>1, <2>1, DivFacts
  <2>3. d \in Nat
    BY <1>1, <2>1
  <2>4. Uid(o * Rollouts + i) = d + 1
    BY Zenon DEF Uid
  <2> HIDE DEF d
  <2>5. d * Rollouts \in Nat /\ o \in Nat /\ Rollouts \in Nat
    BY <1>1, <2>3
  <2>6. ~(d < o)
    <3>1. d < o => d * Rollouts + Rollouts <= o * Rollouts
      BY <2>3, <2>5, TimesMono
    <3> QED
      BY <1>1, <2>1, <2>2, <2>5, <3>1
  <2>7. ~(o < d)
    <3>1. o < d => o * Rollouts + Rollouts <= d * Rollouts
      BY <2>3, <2>5, TimesMono
    <3> QED
      BY <1>1, <2>1, <2>2, <2>5, <3>1
  <2> QED
    BY <2>3, <2>4, <2>5, <2>6, <2>7
<1>4. ASSUME NEW s \in Samples PROVE Uid(s) \in 1..Prompts
  <2>1. PICK o \in 0..(Prompts - 1), i \in 1..Rollouts : s = o * Rollouts + i
    BY <1>2 DEF Samples
  <2> QED
    BY SMTT(30), <1>1, <1>3, <2>1
<1> QED
  BY <1>2, <1>3, <1>4 DEF Samples

Uids == [s \in Samples |-> Uid(s)]

\* The responses to a prompt are a group, numbered as the prompt.
LEMMA GroupsFacts ==
  /\ \A s \in Samples : GroupOf(Uids, s) = Uid(s)
  /\ Cardinality(Starts(Uids)) = Prompts
<1> DEFINE R == Rollouts
           first(n) == {p * R + 1 : p \in 0..(n - 1)}
<1>1. Prompts \in Nat \ {0} /\ R \in Nat \ {0}
  BY SizesFacts
<1>2. /\ \A o \in 0..(Prompts - 1), i \in 1..R :
           o * R + i \in Samples /\ Uid(o * R + i) = o + 1
      /\ \A s \in Samples : \E o \in 0..(Prompts - 1), i \in 1..R : s = o * R + i
  BY UidFacts
<1>3. \A o, p \in Nat : o < p => o * R + R <= p * R /\ o * R \in Nat /\ p * R \in Nat
  <2>1. R \in Nat
    BY <1>1
  <2> QED
    BY <2>1, TimesMono
<1>4. DOMAIN Uids = Samples /\ \A s \in Samples : Uids[s] = Uid(s)
  BY DEF Uids
<1> HIDE DEF R
<1>5. ASSUME NEW o \in 0..(Prompts - 1) PROVE o * R + 1 \in Starts(Uids)
  <2>1. o * R + 1 \in Samples /\ o \in Nat /\ o * R \in Nat /\ 1 \in 1..R
    <3>1. 1 \in 1..R /\ o \in Nat /\ o * R \in Nat
      BY <1>1
    <3>2. o * R + 1 \in Samples
      BY <1>2, <3>1
    <3> QED
      BY <3>1, <3>2
  <2>2. CASE o = 0
    <3>1. o * R + 1 = 1
      BY <1>1, <2>2
    <3> QED
      BY <1>4, <2>1, <3>1 DEF Starts
  <2>3. CASE o > 0
    <3>1. o - 1 \in 0..(Prompts - 1) /\ R \in 1..R /\ o - 1 \in Nat
      BY <1>1, <2>1, <2>3
    <3>2. (o - 1) * R + R = o * R
      BY <1>1, <2>1, <3>1
    <3>3. o * R \in Samples /\ Uid(o * R) = o /\ Uid(o * R + 1) = o + 1
      BY <1>2, <2>1, <3>1, <3>2
    <3>4. (o * R + 1) - 1 = o * R
      BY <2>1
    <3>5. Uids[o * R + 1] # Uids[(o * R + 1) - 1]
      BY <1>4, <2>1, <3>3, <3>4
    <3> QED
      BY <1>4, <2>1, <3>5 DEF Starts
  <2> QED
    BY <2>1, <2>2, <2>3
<1>6. ASSUME NEW s \in Starts(Uids) PROVE \E o \in 0..(Prompts - 1) : s = o * R + 1
  <2>1. s \in Samples /\ (s = 1 \/ Uids[s] # Uids[s - 1])
    BY <1>4 DEF Starts
  <2>2. PICK o \in 0..(Prompts - 1), i \in 1..R : s = o * R + i
    BY <1>2, <2>1
  <2>3. o \in Nat /\ o * R \in Nat
    BY <1>1
  <2>4. CASE i = 1
    BY <2>2, <2>4
  <2>5. CASE i # 1
    <3>1. i - 1 \in 1..R /\ s - 1 = o * R + (i - 1) /\ s # 1
      BY <1>1, <2>2, <2>3, <2>5
    <3>2. Uid(s) = o + 1 /\ Uid(s - 1) = o + 1 /\ s - 1 \in Samples
      BY <1>2, <2>2, <3>1
    <3> QED
      BY <1>4, <2>1, <3>1, <3>2
  <2> QED
    BY <2>4, <2>5
<1>7. ASSUME NEW n \in 1..Prompts PROVE Cardinality(first(n)) = n
  <2> DEFINE f == [o \in 1..n |-> (o - 1) * R + 1]
  <2>1. \A o \in 1..n : o - 1 \in 0..(n - 1) /\ o - 1 \in Nat /\ o \in Nat
    BY <1>1
  <2>2. n \in Nat
    BY <1>1
  <2>3. f \in Seq(first(n)) /\ Len(f) = n
    <3>1. f \in [1..n -> first(n)]
      BY <2>1
    <3> QED
      BY <2>2, <3>1
  <2>4. ASSUME NEW o \in 1..n, NEW p \in 1..n, f[o] = f[p] PROVE o = p
    <3>1. (o - 1) * R + 1 = (p - 1) * R + 1
      BY <2>4
    <3>2. (o - 1) * R \in Nat /\ (p - 1) * R \in Nat
      BY <1>1, <2>1
    <3>3. o - 1 = p - 1
      BY <1>1, <2>1, <3>1, <3>2, Cancel
    <3> QED
      BY <2>1, <3>3
  <2>5. ASSUME NEW x \in first(n) PROVE \E o \in 1..n : f[o] = x
    <3>1. PICK p \in 0..(n - 1) : x = p * R + 1
      OBVIOUS
    <3>2. p + 1 \in 1..n /\ (p + 1) - 1 = p
      BY <2>2
    <3>3. f[p + 1] = ((p + 1) - 1) * R + 1
      BY <3>2
    <3> QED
      BY <3>1, <3>2, <3>3
  <2> HIDE DEF f, first
  <2>6. Lists(f, first(n))
    BY <2>3, <2>4, <2>5 DEF Lists
  <2> QED
    BY <2>3, <2>6, ListsSize
<1>8. ASSUME NEW o \in 0..(Prompts - 1), NEW i \in 1..R
      PROVE  {j \in Starts(Uids) : j <= o * R + i} = first(o + 1)
  <2>1. o \in Nat /\ o * R \in Nat /\ i \in Nat /\ i >= 1 /\ i <= R /\ R \in Nat
    BY <1>1
  <2>2. ASSUME NEW p \in 0..(Prompts - 1)
        PROVE  p * R + 1 <= o * R + i <=> p \in 0..o
    <3>1. p \in Nat /\ p * R \in Nat
      BY <1>1
    <3>2. CASE p < o
      <4>1. p * R + R <= o * R
        BY <1>3, <2>1, <3>1, <3>2
      <4> QED
        BY <2>1, <3>1, <3>2, <4>1
    <3>3. CASE p = o
      BY <2>1, <3>1, <3>3
    <3>4. CASE o < p
      <4>1. o * R + R <= p * R
        BY <1>3, <2>1, <3>1, <3>4
      <4> QED
        BY <2>1, <3>1, <3>4, <4>1
    <3> QED
      BY <2>1, <3>1, <3>2, <3>3, <3>4
  <2>3. (o + 1) - 1 = o /\ \A p \in 0..o : p \in 0..(Prompts - 1)
    BY <1>1, <2>1
  <2> QED
    BY <1>5, <1>6, <2>2, <2>3
<1> HIDE DEF first
<1>9. ASSUME NEW o \in 0..(Prompts - 1), NEW i \in 1..R
      PROVE  GroupOf(Uids, o * R + i) = o + 1
  <2>1. o + 1 \in 1..Prompts
    BY <1>1
  <2>2. Cardinality(first(o + 1)) = o + 1
    BY <1>7, <2>1
  <2> QED
    BY <1>8, <2>2 DEF GroupOf
<1>10. ASSUME NEW s \in Samples PROVE GroupOf(Uids, s) = Uid(s)
  BY <1>2, <1>9
<1>11. Starts(Uids) = first(Prompts)
  <2>1. Prompts - 1 \in 0..(Prompts - 1) /\ \A p \in 0..(Prompts - 1) : p \in 0..(Prompts - 1)
    BY <1>1
  <2> QED
    BY <1>5, <1>6 DEF first
<1>12. Cardinality(Starts(Uids)) = Prompts
  <2>1. Prompts \in 1..Prompts
    BY <1>1
  <2> QED
    BY <1>7, <1>11, <2>1
<1> QED
  BY <1>10, <1>12

\* The rows of some prompts are as many times as many.
PromptRows(ps) == {s \in Samples : Uid(s) \in ps}

\* The responses to some prompts.
LEMMA PromptRowsFacts ==
  ASSUME NEW ps \in SUBSET (1..Prompts), NEW Q \in Nat, Cardinality(ps) = Q
  PROVE  /\ IsFiniteSet(PromptRows(ps))
         /\ Cardinality(PromptRows(ps)) = Q * Rollouts
<1> DEFINE R == Rollouts
           a == Ascending(ps)
           ss == [o \in 1..Q |-> [i \in 1..R |-> (a[o] - 1) * R + i]]
           T == PromptRows(ps)
<1>1. Prompts \in Nat \ {0} /\ R \in Nat \ {0} /\ R \in Nat
  BY SizesFacts
<1>2. Lists(a, ps) /\ Len(a) = Q
  <2>1. ps \in SUBSET Nat /\ IsFiniteSet(ps)
    <3>1. IsFiniteSet(1..Prompts)
      BY <1>1, FS_Interval
    <3>2. IsFiniteSet(ps)
      BY <3>1, FS_Subset
    <3>3. ps \in SUBSET Nat
      BY <1>1
    <3> QED
      BY <3>2, <3>3
  <2> QED
    BY <2>1, AscendingFacts
<1>3. \A o \in 1..Q : a[o] \in ps /\ a[o] \in 1..Prompts /\ a[o] - 1 \in 0..(Prompts - 1)
                      /\ a[o] - 1 \in Nat /\ (a[o] - 1) + 1 = a[o]
  <2> HIDE DEF a
  <2>1. \A o \in 1..Q : a[o] \in ps
    BY <1>2 DEF Lists
  <2>2. \A p \in ps : p \in 1..Prompts /\ p - 1 \in 0..(Prompts - 1) /\ p - 1 \in Nat
                      /\ (p - 1) + 1 = p
    BY <1>1
  <2> QED
    BY <2>1, <2>2
<1>4. /\ \A o \in 0..(Prompts - 1), i \in 1..R :
           o * R + i \in Samples /\ Uid(o * R + i) = o + 1
      /\ \A s \in Samples : \E o \in 0..(Prompts - 1), i \in 1..R : s = o * R + i
  BY UidFacts
<1>5. \A o, p \in Nat : \A i, j \in 1..R : o * R + i = p * R + j => o = p /\ i = j
  BY <1>1, Cells
<1> HIDE DEF a, R
<1>6. \A o \in 1..Q, i \in 1..R : (a[o] - 1) * R + i \in T
                                 /\ Uid((a[o] - 1) * R + i) = a[o]
  BY <1>3, <1>4 DEF PromptRows
<1>7. /\ ss \in Seq(Seq(T)) /\ Len(ss) = Q
      /\ \A o \in 1..Q : Len(ss[o]) = R
      /\ \A o \in 1..Q : \A i \in 1..R : ss[o][i] = (a[o] - 1) * R + i
  <2> HIDE DEF T
  <2>1. \A o \in 1..Q : ss[o] \in [1..R -> T]
    BY <1>6
  <2>2. \A o \in 1..Q : ss[o] \in Seq(T) /\ Len(ss[o]) = R
    <3> HIDE DEF ss
    <3> QED
      BY <1>1, <2>1
  <2>3. ss \in [1..Q -> Seq(T)]
    BY <2>2
  <2>4. \A o \in 1..Q : \A i \in 1..R : ss[o][i] = (a[o] - 1) * R + i
    OBVIOUS
  <2>5. ss \in Seq(Seq(T)) /\ Len(ss) = Q
    BY <2>3
  <2> QED
    BY <2>2, <2>4, <2>5
<1> HIDE DEF ss
<1>8. ASSUME NEW m \in 1..Q, NEW n \in 1..Q, NEW i \in 1..R, NEW j \in 1..R,
             ss[m][i] = ss[n][j]
      PROVE  m = n /\ i = j
  <2>1. (a[m] - 1) * R + i = (a[n] - 1) * R + j
    BY <1>7, <1>8
  <2>2. a[m] - 1 = a[n] - 1 /\ i = j
    BY <1>3, <1>5, <2>1
  <2>3. a[m] = a[n]
    BY <1>3, <2>2
  <2> QED
    BY <1>2, <2>2, <2>3 DEF Lists
<1>9. ASSUME NEW x \in T PROVE \E m \in 1..Q : \E i \in 1..R : ss[m][i] = x
  <2>1. x \in Samples /\ Uid(x) \in ps
    BY DEF PromptRows
  <2>2. PICK o \in 0..(Prompts - 1), i \in 1..R : x = o * R + i
    BY <1>4, <2>1
  <2>3. Uid(x) = o + 1
    BY <1>4, <2>2
  <2>4. PICK m \in 1..Q : a[m] = o + 1
    BY <1>2, <2>1, <2>3 DEF Lists
  <2>5. a[m] - 1 = o
    BY <1>1, <2>4
  <2>6. ss[m][i] = x
    BY <1>7, <2>2, <2>5
  <2> QED
    BY <2>6
<1>10. Parts(ss, T)
  <2> HIDE DEF T
  <2> QED
    BY <1>7, <1>8, <1>9 DEF Parts
<1>11. Lists(FlattenSeq(ss), T)
  <2> HIDE DEF T
  <2> QED
    BY <1>10, PartsListed
<1>12. Len(FlattenSeq(ss)) = Q * R
  <2>1. \A m \in 1..Len(ss) : Len(ss[m]) = R
    BY <1>7
  <2>2. Len(FlattenSeq(ss)) = Len(ss) * R
    <3> HIDE DEF T
    <3> QED
      BY <1>1, <1>7, <2>1, FlatBlocks
  <2> QED
    BY <1>7, <2>2
<1>13. IsFiniteSet(T) /\ Cardinality(T) = Q * R
  <2> HIDE DEF T
  <2> QED
    BY <1>11, <1>12, ListsSize
<1> QED
  BY <1>13 DEF R

LoadsFor(lens) == [i \in DOMAIN lens |-> Workload(lens[i])]

\* The loads of rows by their lengths.
LEMMA LoadsFacts ==
  ASSUME NEW lens \in Seq(Nat \ {0})
  PROVE  /\ LoadsFor(lens) \in Seq(Nat) /\ Len(LoadsFor(lens)) = Len(lens)
         /\ DOMAIN LoadsFor(lens) = 1..Len(lens)
         /\ \A i \in 1..Len(lens) : LoadsFor(lens)[i] = Workload(lens[i])
<1> DEFINE loads == LoadsFor(lens)
<1>1. DOMAIN loads = 1..Len(lens) /\ Len(lens) \in Nat
  BY DEF LoadsFor
<1>2. \A i \in 1..Len(lens) : Workload(lens[i]) \in Nat
  <2>1. \A l \in Nat : Workload(l) \in Nat
    <3>1. \A l \in Nat : l * l \in Nat /\ 24576 * l \in Nat
      OBVIOUS
    <3>2. \A a, b \in Nat : a + b \in Nat
      OBVIOUS
    <3> QED
      BY <3>1, <3>2 DEF Workload
  <2>2. \A i \in 1..Len(lens) : lens[i] \in Nat
    OBVIOUS
  <2> QED
    BY <2>1, <2>2
<1>3. \A i \in 1..Len(lens) : loads[i] = Workload(lens[i])
  BY <1>1 DEF LoadsFor
<1>4. loads \in [1..Len(lens) -> Nat]
  <2>1. loads = [i \in 1..Len(lens) |-> Workload(lens[i])]
    BY <1>1 DEF LoadsFor
  <2> HIDE DEF loads
  <2> QED
    BY <1>2, <2>1
<1>5. loads \in Seq(Nat) /\ Len(loads) = Len(lens)
  <2> HIDE DEF loads
  <2> QED
    BY <1>1, <1>4
<1> QED
  BY <1>1, <1>3, <1>5

\* Balanced prompt by prompt, the responses to a prompt stay on one rank.
WholePrompts(part) ==
  \A s \in part : \A t \in Samples : Uid(t) = Uid(s) => t \in part

\* The order of a batch whose prompts stay together.
LEMMA PromptsBalanced ==
  ASSUME NEW lens \in Seq(Nat \ {0}), Len(lens) = Prompts * Rollouts,
         Prompts % Ranks = 0
  PROVE  \E parts : /\ Dealt(BalancedOrder(lens, Uids, Ranks, TRUE), parts, Ranks, PerRank)
                    /\ \A r \in 1..Ranks : WholePrompts(parts[r])
<1> DEFINE loads == LoadsFor(lens)
           group(g) == {i \in DOMAIN Uids : GroupOf(Uids, i) = g}
           gl == [g \in 1..Cardinality(Starts(Uids)) |-> Total(loads, group(g))]
           gparts == BalancedPartitions(gl, Ranks, TRUE)
           parts == [p \in 1..Ranks |-> PromptRows(gparts[p])]
           ss == [p \in 1..Ranks |-> Ascending(parts[p])]
           Q == Prompts \div Ranks
<1>1. /\ Prompts \in Nat \ {0} /\ Rollouts \in Nat \ {0} /\ Ranks \in Nat \ {0}
      /\ PerRank \in Nat \ {0} /\ PerRank * Ranks = Prompts * Rollouts
      /\ Prompts * Rollouts \in Nat \ {0}
  BY SizesFacts
<1>2. Q \in Nat \ {0} /\ Q * Ranks = Prompts
  <2>1. Q \in Int /\ Q * Ranks = Prompts
    BY <1>1, DivFacts
  <2> HIDE DEF Q
  <2>2. CASE Q <= 0
    <3>1. (-Q) \in Nat /\ (-Q) * Ranks \in Nat /\ (-Q) * Ranks = -(Q * Ranks)
      BY <1>1, <2>1, <2>2
    <3> QED
      BY <1>1, <2>1, <3>1
  <2> QED
    BY <2>1, <2>2
<1> HIDE DEF Q
<1>3. PerRank = Q * Rollouts
  <2>1. Q * Rollouts \in Nat /\ (Q * Rollouts) * Ranks = (Q * Ranks) * Rollouts
    BY <1>1, <1>2
  <2>2. PerRank * Ranks = (Q * Rollouts) * Ranks /\ PerRank \in Nat
    BY <1>1, <1>2, <2>1
  <2> HIDE DEF PerRank
  <2> QED
    BY <1>1, <2>1, <2>2, Cancel
<1>4. gl \in Seq(Nat) /\ Len(gl) = Prompts
  <2>1. loads \in Seq(Nat)
    BY LoadsFacts
  <2>2. Cardinality(Starts(Uids)) = Prompts
    BY GroupsFacts
  <2> HIDE DEF loads, group
  <2>3. \A g \in 1..Prompts : Total(loads, group(g)) \in Nat
    BY <2>1, TotalType
  <2>4. gl \in [1..Prompts -> Nat]
    BY <2>2, <2>3
  <2> HIDE DEF gl
  <2> QED
    BY <1>1, <2>4
<1> HIDE DEF gl
<1>5. /\ Partition(gparts, Ranks, Prompts)
      /\ \A i \in 1..Ranks : Cardinality(gparts[i]) = Q
  <2>1. gl \in Seq(Nat) /\ Ranks \in Nat \ {0} /\ Q \in Nat \ {0} /\ Len(gl) = Q * Ranks
    BY <1>1, <1>2, <1>4
  <2>2. /\ Partition(BalancedPartitions(gl, Ranks, TRUE), Ranks, Len(gl))
        /\ \A i \in 1..Ranks : Cardinality(BalancedPartitions(gl, Ranks, TRUE)[i]) = Q
    BY ONLY <2>1, EqualPartition
  <2> QED
    BY <1>4, <2>2
<1> HIDE DEF gparts
<1>6. \A r \in 1..Ranks : /\ gparts[r] \in SUBSET (1..Prompts)
                          /\ IsFiniteSet(PromptRows(gparts[r]))
                          /\ Cardinality(PromptRows(gparts[r])) = PerRank
  <2>1. \A r \in 1..Ranks : gparts[r] \in SUBSET (1..Prompts)
    BY <1>5 DEF Partition
  <2> QED
    BY <1>2, <1>3, <1>5, <2>1, PromptRowsFacts
<1>7. Samples = 1..(PerRank * Ranks) /\ \A s \in Samples : Uid(s) \in 1..Prompts
  BY <1>1, UidFacts DEF Samples
<1>8. Partition(parts, Ranks, PerRank * Ranks)
  <2>1. parts \in [1..Ranks -> SUBSET (1..(PerRank * Ranks))]
    BY <1>7 DEF PromptRows
  <2>2. ASSUME NEW i \in 1..Ranks, NEW j \in 1..Ranks, i # j
        PROVE  parts[i] \cap parts[j] = {}
    <3>1. gparts[i] \cap gparts[j] = {}
      BY <1>5, <2>2 DEF Partition
    <3> QED
      BY <3>1 DEF PromptRows
  <2>3. ASSUME NEW n \in 1..(PerRank * Ranks) PROVE \E i \in 1..Ranks : n \in parts[i]
    <3>1. n \in Samples /\ Uid(n) \in 1..Prompts
      BY <1>7
    <3>2. PICK i \in 1..Ranks : Uid(n) \in gparts[i]
      BY <1>5, <3>1 DEF Partition
    <3> QED
      BY <3>1, <3>2 DEF PromptRows
  <2> HIDE DEF parts
  <2> QED
    BY <2>1, <2>2, <2>3 DEF Partition
<1>9. \A r \in 1..Ranks : parts[r] = PromptRows(gparts[r])
  OBVIOUS
<1>10. BalancedOrder(lens, Uids, Ranks, TRUE) = FlattenSeq(ss)
  <2>1. \A p \in 1..Ranks : {i \in DOMAIN Uids : GroupOf(Uids, i) \in gparts[p]} = parts[p]
    <3>1. DOMAIN Uids = Samples /\ \A s \in Samples : GroupOf(Uids, s) = Uid(s)
      BY GroupsFacts DEF Uids
    <3> QED
      BY <3>1 DEF PromptRows
  <2>2. GroupPartitions(loads, Uids, Ranks) =
          [p \in 1..Ranks |->
             Ascending({i \in DOMAIN Uids : GroupOf(Uids, i) \in gparts[p]})]
    BY DEF GroupPartitions, gparts, gl
  <2>3. GroupPartitions(loads, Uids, Ranks) = ss
    <3> HIDE DEF parts
    <3> QED
      BY <2>1, <2>2
  <2> QED
    BY <2>3 DEF BalancedOrder, LoadsFor
<1> HIDE DEF parts
<1>11. ASSUME NEW r \in 1..Ranks
       PROVE  Lists(Ascending(parts[r]), parts[r]) /\ Len(Ascending(parts[r])) = PerRank
  <2>1. parts[r] \in SUBSET Nat /\ IsFiniteSet(parts[r]) /\ Cardinality(parts[r]) = PerRank
    <3>1. parts[r] \in SUBSET Nat
      BY <1>1, <1>9 DEF PromptRows, Samples
    <3> QED
      BY <1>6, <1>9, <3>1
  <2> QED
    BY <2>1, AscendingFacts
<1>12. ss = [r \in 1..Ranks |-> ss[r]]
       /\ \A r \in 1..Ranks : Lists(ss[r], parts[r]) /\ Len(ss[r]) = PerRank
  BY <1>11
<1> HIDE DEF ss
<1>13. Dealt(FlattenSeq(ss), parts, Ranks, PerRank)
  <2> HIDE DEF PerRank
  <2> QED
    BY <1>1, <1>8, <1>12, DealtFacts
<1>14. \A r \in 1..Ranks : WholePrompts(parts[r])
  BY <1>9 DEF WholePrompts, PromptRows
<1> QED
  BY <1>10, <1>13, <1>14

\* How a balanced batch is shared out.
SharedOut(order, c, lens) ==
  \E parts :
    /\ Dealt(order, parts, Ranks, PerRank)
    /\ IF c.prefixGrouper THEN \A r \in RankSet : WholePrompts(parts[r])
                          ELSE NearLoads(LoadsFor(lens), Ranks, parts)

\* _balance_batch only moves rows, and spreads them as it is told.
LEMMA OrderFacts ==
  ASSUME NEW c \in Settings, NEW lens \in [Samples -> Nat \ {0}], c.balance
  PROVE  LET order == BalancedOrder(lens, Uids, Ranks, c.prefixGrouper) IN
         Lists(order, Samples) /\ SharedOut(order, c, lens)
<1> DEFINE order == BalancedOrder(lens, Uids, Ranks, c.prefixGrouper)
<1>1. /\ Prompts \in Nat \ {0} /\ Rollouts \in Nat \ {0} /\ Ranks \in Nat \ {0}
      /\ PerRank \in Nat \ {0} /\ PerRank * Ranks = Prompts * Rollouts
      /\ Prompts * Rollouts \in Nat \ {0}
  BY SizesFacts
<1>2. c.prefixGrouper \in BOOLEAN /\ (c.prefixGrouper => Prompts % Ranks = 0)
  <2>1. c.prefixGrouper \in BOOLEAN
    BY SettingsAssumption
  <2> QED
    BY <2>1, SettingsAssumption
<1>3. lens \in Seq(Nat \ {0}) /\ Len(lens) = Prompts * Rollouts
  BY <1>1 DEF Samples
<1>4. Samples = 1..(PerRank * Ranks) /\ RankSet = 1..Ranks
  BY <1>1 DEF Samples, RankSet
<1> HIDE DEF PerRank
<1>5. SharedOut(order, c, lens)
  <2>1. CASE c.prefixGrouper
    <3>1. \E parts : /\ Dealt(BalancedOrder(lens, Uids, Ranks, TRUE), parts, Ranks, PerRank)
                     /\ \A r \in 1..Ranks : WholePrompts(parts[r])
      BY <1>2, <1>3, <2>1, PromptsBalanced
    <3>2. c.prefixGrouper = TRUE
      BY <1>2, <2>1
    <3> QED
      BY <1>4, <3>1, <3>2 DEF SharedOut
  <2>2. CASE ~c.prefixGrouper
    <3>1. \E parts : /\ Dealt(BalancedOrder(lens, Uids, Ranks, FALSE), parts, Ranks, PerRank)
                     /\ NearLoads(LoadsFor(lens), Ranks, parts)
      <4>1. Len(lens) = PerRank * Ranks
        BY <1>1, <1>3
      <4>2. LoadsFor(lens) = [i \in DOMAIN lens |-> Workload(lens[i])]
        BY DEF LoadsFor
      <4> QED
        BY <1>1, <1>3, <4>1, <4>2, RowsBalanced
    <3>2. c.prefixGrouper = FALSE
      BY <1>2, <2>2
    <3> QED
      BY <1>4, <3>1, <3>2 DEF SharedOut
  <2> QED
    BY <2>1, <2>2
<1>6. Lists(order, Samples)
  BY <1>4, <1>5 DEF SharedOut, Dealt
<1> QED
  BY <1>5, <1>6

\* The batch as it was generated.
LEMMA GeneratedBatch == Lists([i \in Samples |-> i], Samples)
<1>1. [i \in Samples |-> i] \in [1..(Prompts * Rollouts) -> Samples]
  BY DEF Samples
<1>2. Prompts * Rollouts \in Nat
  BY SizesFacts
<1>3. [i \in Samples |-> i] \in Seq(Samples) /\ Len([i \in Samples |-> i]) = Prompts * Rollouts
  BY <1>1, <1>2
<1> QED
  BY <1>3 DEF Lists, Samples

\* What is true of the batch: it is made of the samples, and shared out once
\* balanced.
BatchInv ==
  /\ setting \in Settings /\ input \in Inputs
  /\ phase \in {"balance", "logprob", "context", "update", "done"}
  /\ Lists(batch, Samples)
  /\ phase # "balance" /\ setting.balance => SharedOut(batch, setting, input.len)

\* Every sample is in one row of the batch.
LEMMA BatchFacts ==
  ASSUME BatchInv
  PROVE  /\ batch \in [Samples -> Samples] /\ DOMAIN batch = Samples
         /\ Len(batch) = Prompts * Rollouts
         /\ \A i, j \in Samples : batch[i] = batch[j] => i = j
         /\ \A s \in Samples : \E i \in Samples : batch[i] = s
         /\ input.len \in [Samples -> Nat \ {0}]
         /\ input.ok \in SUBSET Samples /\ input.feedback \in SUBSET Samples
<1>1. Lists(batch, Samples) /\ batch \in Seq(Samples)
  BY DEF BatchInv, Lists
<1>2. Prompts * Rollouts \in Nat
  BY SizesFacts
<1>3. Cardinality(Samples) = Prompts * Rollouts
  BY <1>2, FS_Interval DEF Samples
<1>4. Len(batch) = Prompts * Rollouts
  BY <1>1, <1>3, ListsSize
<1>5. DOMAIN batch = Samples /\ Samples = 1..Len(batch)
  BY <1>1, <1>4 DEF Samples
<1>6. batch \in [Samples -> Samples]
  BY <1>1, <1>5
<1>7. input \in Inputs
  BY DEF BatchInv
<1>8. /\ input.len \in [Samples -> Nat \ {0}]
      /\ input.ok \in SUBSET Samples /\ input.feedback \in SUBSET Samples
  BY <1>7, InputsAssumption
<1> QED
  BY <1>1, <1>4, <1>5, <1>6, <1>8 DEF Lists

\* The batch as it was generated.
LEMMA BatchStarts == StepInit => BatchInv
BY GeneratedBatch DEF StepInit, BatchInv

\* Only Balance moves the rows.
LEMMA BatchStays == BatchInv /\ [StepNext]_stepVars => BatchInv'
<1> SUFFICES ASSUME BatchInv, [StepNext]_stepVars PROVE BatchInv'
  OBVIOUS
<1>1. CASE Balance
  <2>1. input.len \in [Samples -> Nat \ {0}] /\ setting \in Settings
        /\ Lists(batch, Samples)
    BY BatchFacts DEF BatchInv
  <2>2. setting' = setting /\ input' = input /\ phase' = "logprob"
    BY <1>1 DEF Balance
  <2>3. CASE setting.balance
    <3>1. batch' = BalancedOrder(input.len, Uids, Ranks, setting.prefixGrouper)
      BY <1>1, <2>3 DEF Balance, Uids
    <3>2. Lists(batch', Samples) /\ SharedOut(batch', setting, input.len)
      BY <2>1, <2>3, <3>1, OrderFacts
    <3> QED
      BY <2>2, <3>2 DEF BatchInv, SharedOut
  <2>4. CASE ~setting.balance
    <3>1. batch' = batch
      BY <1>1, <2>4 DEF Balance
    <3> QED
      BY <2>1, <2>2, <2>4, <3>1 DEF BatchInv
  <2> QED
    BY <2>3, <2>4
<1>2. ASSUME UNCHANGED <<setting, input, batch>>,
             phase # "balance",
             phase' \in {"logprob", "context", "update", "done"}
      PROVE  BatchInv'
  BY <1>2 DEF BatchInv, SharedOut
<1>3. CASE Forward
  BY <1>2, <1>3 DEF Forward
<1>4. CASE Collect
  BY <1>2, <1>4 DEF Collect
<1>5. CASE Context
  BY <1>2, <1>5 DEF Context
<1>6. CASE Update
  BY <1>2, <1>6 DEF Update
<1>7. CASE TrainMicroBatch
  BY <1>2, <1>7 DEF TrainMicroBatch
<1>8. CASE NextMiniBatch
  BY <1>2, <1>8 DEF NextMiniBatch, Optimize
<1>9. CASE NextEpoch
  BY <1>2, <1>9 DEF NextEpoch, Optimize
<1>10. CASE UNCHANGED stepVars
  BY <1>10 DEF stepVars, BatchInv, SharedOut
<1> QED
  BY <1>1, <1>3, <1>4, <1>5, <1>6, <1>7, <1>8, <1>9, <1>10
  DEF StepNext, Step, Finished

\* The samples of a rank are those of its part.
LEMMA RankPart ==
  ASSUME NEW parts, Dealt(batch, parts, Ranks, PerRank), NEW r \in RankSet
  PROVE  SamplesOf(r) = parts[r]
<1>1. PerRank \in Nat \ {0}
  BY SizesFacts
<1>2. Block(batch, r - 1, PerRank) = parts[r]
  BY DEF Dealt, RankSet
<1>3. ToSet(RowsOf(r)) = {(r - 1) * PerRank + i : i \in 1..PerRank}
  <2> HIDE DEF PerRank
  <2> QED
    BY <1>1 DEF ToSet, RowsOf
<1>4. SamplesOf(r) = Block(batch, r - 1, PerRank)
  <2> HIDE DEF PerRank
  <2> QED
    BY <1>3 DEF SamplesOf, Block
<1> QED
  BY <1>2, <1>4

\* What BatchInv says of the ranks' rows is that their work is balanced.
LEMMA BatchBalanced == BatchInv => Balanced
<1> SUFFICES ASSUME BatchInv PROVE Balanced
  OBVIOUS
<1>1. {batch[i] : i \in Samples} = Samples
  BY BatchFacts
<1>2. ASSUME phase # "balance", setting.balance
      PROVE  IF setting.prefixGrouper
             THEN \A r \in RankSet : \A s \in SamplesOf(r), t \in Samples :
                    Uid(t) = Uid(s) => t \in SamplesOf(r)
             ELSE \A r, q \in RankSet : r # q =>
                    \E h, l \in Samples :
                      /\ RankLoad(r) - RankLoad(q) <= Work[h] - Work[l]
                      /\ Cardinality({s \in Samples : Work[l] < Work[s]
                                                      /\ Work[s] < Work[h]})
                           <= Ranks - 2
  <2>1. SharedOut(batch, setting, input.len)
    BY <1>2 DEF BatchInv
  <2>2. PICK parts :
          /\ Dealt(batch, parts, Ranks, PerRank)
          /\ IF setting.prefixGrouper
             THEN \A r \in RankSet : WholePrompts(parts[r])
             ELSE NearLoads(LoadsFor(input.len), Ranks, parts)
    BY <2>1 DEF SharedOut
  <2>3. \A r \in RankSet : SamplesOf(r) = parts[r]
    BY <2>2, RankPart
  <2>4. CASE setting.prefixGrouper
    <3>1. \A r \in RankSet : \A s \in SamplesOf(r), t \in Samples :
            Uid(t) = Uid(s) => t \in SamplesOf(r)
      BY <2>2, <2>3, <2>4 DEF WholePrompts
    <3> QED
      BY <2>4, <3>1
  <2>5. CASE ~setting.prefixGrouper
    <3>1. /\ Samples = 1..Len(LoadsFor(input.len))
          /\ Work = LoadsFor(input.len)
      <4>1. input.len \in [Samples -> Nat \ {0}] /\ Prompts * Rollouts \in Nat
        BY BatchFacts, SizesFacts
      <4>2. input.len \in Seq(Nat \ {0}) /\ Len(input.len) = Prompts * Rollouts
            /\ DOMAIN input.len = Samples
        BY <4>1 DEF Samples
      <4>3. Len(LoadsFor(input.len)) = Prompts * Rollouts
        BY <4>2, LoadsFacts
      <4> QED
        BY <4>2, <4>3 DEF Work, LoadsFor, Samples
    <3>2. PICK h \in Samples, l \in Samples :
            /\ \A i, j \in 1..Ranks : Total(Work, parts[i]) - Total(Work, parts[j])
                                        <= Work[h] - Work[l]
            /\ Ranks > 1 => Cardinality({s \in Samples : Work[l] < Work[s]
                                          /\ Work[s] < Work[h]}) <= Ranks - 2
      <4> HIDE DEF Work
      <4> QED
        BY <2>2, <2>5, <3>1 DEF NearLoads
    <3>3. ASSUME NEW r \in RankSet, NEW q \in RankSet, r # q
          PROVE  /\ RankLoad(r) - RankLoad(q) <= Work[h] - Work[l]
                 /\ Cardinality({s \in Samples : Work[l] < Work[s]
                                                 /\ Work[s] < Work[h]})
                      <= Ranks - 2
      <4>1. Ranks > 1 /\ r \in 1..Ranks /\ q \in 1..Ranks
        BY <3>3, SizesFacts DEF RankSet
      <4>2. RankLoad(r) = Total(Work, parts[r]) /\ RankLoad(q) = Total(Work, parts[q])
        BY <2>3 DEF RankLoad
      <4> HIDE DEF Work
      <4> QED
        BY <3>2, <4>1, <4>2
    <3> QED
      BY <2>5, <3>3
  <2> QED
    BY <2>4, <2>5
<1> QED
  BY <1>1, <1>2 DEF Balanced

\* The ranks' loads are level (_balance_batch and karmarkar_karp): for every
\* number of prompts, responses and ranks and any lengths.
THEOREM BatchIsBalanced == StepSpec => []Balanced
<1>1. StepInit => BatchInv
  BY BatchStarts
<1>2. BatchInv /\ [StepNext]_stepVars => BatchInv'
  BY BatchStays
<1>3. BatchInv => Balanced
  BY BatchBalanced
<1> QED
  BY <1>1, <1>2, <1>3, PTL DEF StepSpec

-----------------------------------------------------------------------------
\* The rows of the teacher's context.

\* What the trainer sees of a row.
LEMMA BatchRows ==
  ASSUME BatchInv
  PROVE  /\ Rowed(Batch) /\ Rows(Batch) = Samples /\ DOMAIN batch = Samples
         /\ \A i \in Samples : /\ Batch.uid[i] = Uid(batch[i])
                               /\ Batch.ok[i] = (batch[i] \in input.ok)
                               /\ Batch.feedback[i] = (batch[i] \in input.feedback)
         /\ \A i \in Samples : Batch.feedback[i] \in BOOLEAN
<1>1. /\ batch \in [Samples -> Samples] /\ DOMAIN batch = Samples
      /\ input.len \in [Samples -> Nat \ {0}]
  BY BatchFacts
<1>2. Prompts * Rollouts \in Nat /\ Samples = 1..(Prompts * Rollouts)
  BY SizesFacts DEF Samples
<1>3. /\ DOMAIN Batch.uid = Samples
      /\ \A i \in Samples : Batch.uid[i] = Uid(batch[i])
  BY <1>1 DEF Batch
<1>4. \A i \in Samples : /\ Batch.ok[i] = (batch[i] \in input.ok)
                         /\ Batch.ok[i] \in BOOLEAN
  BY <1>1 DEF Batch
<1>5. \A i \in Samples : /\ Batch.feedback[i] = (batch[i] \in input.feedback)
                         /\ Batch.feedback[i] \in BOOLEAN
  BY <1>1 DEF Batch
<1>6. Batch.len \in [Samples -> Nat \ {0}]
  BY <1>1 DEF Batch
<1>7. Batch.len \in Seq(Nat \ {0}) /\ Samples = 1..Len(Batch.len)
  BY <1>2, <1>6
<1> QED
  BY <1>1, <1>3, <1>4, <1>5, <1>7 DEF Rowed, Rows

\* The teacher's contexts so far.
ContextInv ==
  /\ row \in 0..(Prompts * Rollouts)
  /\ mask \in Seq(BOOLEAN) /\ Len(mask) = row
  /\ phase \in {"balance", "logprob"} => row = 0
  /\ Built => /\ ctx \in Contexts(Batch, setting, row)
              /\ mask[row] = Mask(Batch, setting, row, ctx)

\* A mask is true or false.
LEMMA MaskType ==
  ASSUME NEW b, NEW c, NEW i, NEW x, b.feedback[i] \in BOOLEAN
  PROVE  Mask(b, c, i, x) \in BOOLEAN
BY DEF Mask

\* No context is built at the start.
LEMMA ContextStarts == StepInit => ContextInv
BY SizesFacts DEF StepInit, ContextInv, Built

\* Only Context builds one, of the rows as they are.
LEMMA ContextStays == BatchInv /\ ContextInv /\ [StepNext]_stepVars => ContextInv'
<1> SUFFICES ASSUME BatchInv, ContextInv, [StepNext]_stepVars PROVE ContextInv'
  OBVIOUS
<1>1. CASE Context
  <2>1. /\ phase' = "context" /\ row < Len(batch) /\ row' = row + 1
        /\ ctx' \in Contexts(Batch, setting, row + 1)
        /\ mask' = Append(mask, Mask(Batch, setting, row + 1, ctx'))
        /\ UNCHANGED <<setting, input, batch>>
    BY <1>1 DEF Context
  <2>2. Batch' = Batch
    BY <2>1 DEF Batch
  <2>3. /\ row \in 0..(Prompts * Rollouts) /\ Len(batch) = Prompts * Rollouts
        /\ Prompts * Rollouts \in Nat /\ mask \in Seq(BOOLEAN) /\ Len(mask) = row
    BY BatchFacts, SizesFacts DEF ContextInv
  <2>4. row + 1 \in Samples /\ row' \in 0..(Prompts * Rollouts)
    BY <2>1, <2>3 DEF Samples
  <2>5. Mask(Batch, setting, row + 1, ctx') \in BOOLEAN
    BY <2>4, BatchRows, MaskType
  <2>6. mask' \in Seq(BOOLEAN) /\ Len(mask') = row'
        /\ mask'[row'] = Mask(Batch, setting, row + 1, ctx')
    <3> DEFINE v == Mask(Batch, setting, row + 1, ctx')
    <3> HIDE DEF v
    <3>1. v \in BOOLEAN /\ mask' = Append(mask, v)
      BY <2>1, <2>5 DEF v
    <3>2. mask' \in Seq(BOOLEAN) /\ Len(mask') = row' /\ mask'[row'] = v
      BY <2>1, <2>3, <3>1
    <3> QED
      BY <3>2 DEF v
  <2> QED
    BY <2>1, <2>2, <2>4, <2>6 DEF ContextInv
<1>2. ASSUME UNCHANGED <<row, mask>>,
             phase' \in {"balance", "logprob"} => phase \in {"balance", "logprob"},
             phase' = "context" => phase \in {"balance", "logprob"}
      PROVE  ContextInv'
  <2>1. row' > 0 => row # 0
    BY <1>2 DEF ContextInv
  <2> QED
    BY <1>2, <2>1 DEF ContextInv, Built
<1>3. CASE Balance
  BY <1>2, <1>3 DEF Balance
<1>4. CASE Forward
  BY <1>2, <1>4 DEF Forward
<1>5. CASE Collect
  BY <1>2, <1>5 DEF Collect
<1>6. CASE Update
  BY <1>2, <1>6 DEF Update
<1>7. CASE TrainMicroBatch
  BY <1>2, <1>7 DEF TrainMicroBatch
<1>8. CASE NextMiniBatch
  BY <1>2, <1>8 DEF NextMiniBatch, Optimize
<1>9. CASE NextEpoch
  BY <1>2, <1>9 DEF NextEpoch, Optimize
<1>10. CASE UNCHANGED stepVars
  <2>1. UNCHANGED <<setting, input, phase, batch, row, ctx, mask>>
    BY <1>10 DEF stepVars
  <2>2. Batch' = Batch
    BY <2>1 DEF Batch
  <2> QED
    BY <2>1, <2>2 DEF ContextInv, Built
<1> QED
  BY <1>1, <1>3, <1>4, <1>5, <1>6, <1>7, <1>8, <1>9, <1>10
  DEF StepNext, Step, Finished

\* The settings as they are.
LEMMA SettingFacts ==
  ASSUME NEW c \in Settings
  PROVE  /\ c.control \in {"none", "random_peer", "unrelated_prompt",
                           "success_only_matched"}
         /\ c.match \in {"block", "token"}
         /\ c.feedback \in {"off", "always", "without_solution"}
         /\ c.skipSelf \in BOOLEAN /\ c.summaryK \in Nat
         /\ c.dynamic \in BOOLEAN
         /\ c.maxTokens \in Nat \ {0} /\ c.microBatch \in Nat \ {0}
         /\ c.miniBatch \in Nat \ {0} /\ c.epochs \in Nat \ {0}
BY SettingsAssumption

\* What has been built for the row.
LEMMA BuiltFacts ==
  ASSUME BatchInv, ContextInv, Built
  PROVE  /\ row \in Samples /\ ctx \in Contexts(Batch, setting, row)
         /\ mask[row] = Mask(Batch, setting, row, ctx)
<1>1. row \in 0..(Prompts * Rollouts) /\ row > 0
      /\ ctx \in Contexts(Batch, setting, row)
      /\ mask[row] = Mask(Batch, setting, row, ctx)
  BY DEF ContextInv, Built
<1> QED
  BY <1>1, SizesFacts DEF Samples

\* What a built context shows is what its row may see.
LEMMA BuiltPeersFit == BatchInv /\ ContextInv => PeersFit
<1> SUFFICES ASSUME BatchInv, ContextInv, Built
             PROVE  /\ setting.control # "random_peer" =>
                         /\ \A j \in ctx.solution \cup ctx.another : batch[j] \in input.ok
                         /\ \A j \in ctx.failure : batch[j] \notin input.ok
                    /\ \A j \in Shown :
                         IF setting.control = "unrelated_prompt" THEN ~SamePrompt(row, j)
                         ELSE SamePrompt(row, j) \/ setting.control = "success_only_matched"
                    /\ setting.skipSelf => row \notin Shown
                    /\ setting.control = "none" => row \notin ctx.failure
  BY DEF PeersFit
<1> DEFINE b == Batch
           c == setting
<1>1. /\ row \in Samples /\ ctx \in Contexts(b, c, row)
      /\ c \in Settings
  BY BuiltFacts DEF BatchInv
<1>2. c.control \in {"none", "random_peer", "unrelated_prompt",
                     "success_only_matched"} /\ c.skipSelf \in BOOLEAN
  BY <1>1, SettingFacts
<1>3. /\ Rows(b) = Samples
      /\ \A i \in Samples : /\ b.uid[i] = Uid(batch[i])
                            /\ b.ok[i] = (batch[i] \in input.ok)
  BY BatchRows
<1>4. /\ \A j \in Successes(b, c, row) :
           batch[j] \in input.ok /\ SamePrompt(row, j) /\ (c.skipSelf => j # row)
      /\ \A j \in Failures(b, row) :
           batch[j] \notin input.ok /\ SamePrompt(row, j) /\ j # row
      /\ \A j \in Others(b, row) :
           batch[j] \in input.ok /\ ~SamePrompt(row, j) /\ j # row
  <2> HIDE DEF b, c
  <2>1. \A j \in Successes(b, c, row) :
          batch[j] \in input.ok /\ SamePrompt(row, j) /\ (c.skipSelf => j # row)
    BY <1>1, <1>3 DEF Successes, SamePrompt
  <2>2. \A j \in Failures(b, row) :
          batch[j] \notin input.ok /\ SamePrompt(row, j) /\ j # row
    BY <1>1, <1>3 DEF Failures, SamePrompt
  <2>3. ASSUME NEW j \in Others(b, row)
        PROVE  batch[j] \in input.ok /\ ~SamePrompt(row, j) /\ j # row
    <3>1. j \in Samples /\ b.ok[j] /\ b.uid[j] # b.uid[row]
      BY <1>3 DEF Others
    <3>2. j # row
      BY <3>1
    <3>3. batch[j] \in input.ok
      BY <1>3, <3>1
    <3>4. ~SamePrompt(row, j)
      BY <1>1, <1>3, <3>1 DEF SamePrompt
    <3> QED
      BY <3>2, <3>3, <3>4
  <2> QED
    BY <2>1, <2>2, <2>3
<1> HIDE DEF b, c
<1>5. CASE c.control = "none"
  <2>1. ctx \in StandardContexts(b, c, row)
    BY <1>1, <1>5 DEF Contexts
  <2>2. /\ ctx.solution \cup ctx.another \subseteq Successes(b, c, row)
        /\ ctx.failure \subseteq Failures(b, row)
        /\ ctx.summaries \subseteq
             {j \in Rows(b) : b.uid[j] = b.uid[row] /\ (c.skipSelf => j # row)}
    BY <2>1, StandardFit
  <2>3. \A j \in ctx.summaries : SamePrompt(row, j) /\ (c.skipSelf => j # row)
    BY <1>1, <1>3, <2>2 DEF SamePrompt
  <2> QED
    BY <1>4, <1>5, <2>2, <2>3 DEF Shown, c
<1>6. CASE c.control # "none"
  <2>1. ctx \in ControlContexts(b, c, row)
        /\ c.control \in {"random_peer", "unrelated_prompt", "success_only_matched"}
    BY <1>1, <1>2, <1>6 DEF Contexts
  <2>2. /\ ctx.another = {} /\ ctx.summaries = {}
        /\ c.control = "random_peer" =>
             ctx.solution \cup ctx.failure \subseteq Successes(b, c, row) \cup Failures(b, row)
        /\ c.control = "unrelated_prompt" =>
             ctx.solution \subseteq Others(b, row) /\ ctx.failure = {}
        /\ c.control = "success_only_matched" =>
             /\ ctx.solution \subseteq Successes(b, c, row) \cup Others(b, row)
             /\ ctx.failure = {}
    BY <2>1, ControlFit
  <2> QED
    BY <1>4, <1>6, <2>1, <2>2 DEF Shown, c
<1> QED
  BY <1>5, <1>6

\* A row is masked as its context says.
LEMMA BuiltMaskMatches == BatchInv /\ ContextInv => MaskMatchesPrompt
<1> SUFFICES ASSUME BatchInv, ContextInv, Built
             PROVE  /\ mask[row] => Reprompted(Batch, setting, row, ctx)
                    /\ Reprompted(Batch, setting, row, ctx) /\ ~mask[row] =>
                         /\ setting.control # "none"
                         /\ setting.feedback = "without_solution"
                         /\ Shown = {} /\ Solution(Batch, setting, row) # {}
  BY DEF MaskMatchesPrompt
<1> DEFINE b == Batch
           c == setting
<1>1. /\ row \in Samples /\ ctx \in Contexts(b, c, row)
      /\ mask[row] = Mask(b, c, row, ctx) /\ c \in Settings
  BY BuiltFacts DEF BatchInv
<1>2. c.control \in {"none", "random_peer", "unrelated_prompt",
                     "success_only_matched"}
  BY <1>1, SettingFacts
<1> HIDE DEF b, c
<1>3. ShowsBlocks(ctx) <=> Shown # {}
  BY DEF ShowsBlocks, Shown
<1>4. CASE c.control = "none"
  <2>1. ctx \in StandardContexts(b, c, row)
    BY <1>1, <1>4 DEF Contexts
  <2>2. ctx.solution = Solution(b, c, row)
    BY <2>1, StandardFit
  <2>3. Mask(b, c, row, ctx) <=> Reprompted(b, c, row, ctx)
    BY <2>2 DEF Mask, Reprompted
  <2> QED
    BY <1>1, <2>3 DEF b, c
<1>5. CASE c.control # "none"
  <2>1. mask[row] => Reprompted(b, c, row, ctx)
    <3>1. CASE ShowsBlocks(ctx)
      BY <3>1 DEF Reprompted
    <3>2. CASE ~ShowsBlocks(ctx)
      <4>1. ctx.solution = {}
        BY <3>2 DEF ShowsBlocks
      <4> QED
        BY <1>1, <4>1 DEF Mask, Reprompted
    <3> QED
      BY <3>1, <3>2
  <2>2. Reprompted(b, c, row, ctx) /\ ~mask[row] =>
          /\ c.feedback = "without_solution"
          /\ Shown = {} /\ Solution(b, c, row) # {}
    BY <1>1, <1>3 DEF Mask, Reprompted
  <2> QED
    BY <1>5, <2>1, <2>2 DEF b, c
<1> QED
  BY <1>4, <1>5

\* A control shows as many blocks as the baseline, or the rows it may draw from
\* are used up.
LEMMA BuiltMatchesBudget == BatchInv /\ ContextInv => MatchedBudget
<1> SUFFICES ASSUME BatchInv, ContextInv, Built, setting.control # "none"
             PROVE  IF setting.match = "block"
                    THEN \/ Blocks(ctx) = Blocks(Baseline)
                         \/ Blocks(ctx) < Blocks(Baseline) /\ Drawable \subseteq Shown
                    ELSE (Shown = {}) <=> (Blocks(Baseline) = 0 \/ Drawable = {})
  BY DEF MatchedBudget
<1> DEFINE b == Batch
           c == setting
           slots == SuccessSlots(b, c, row) \cup FailureSlots(b, c, row)
           n == Cardinality(slots)
<1>1. /\ row \in Samples /\ ctx \in Contexts(b, c, row)
      /\ c \in Settings
  BY BuiltFacts DEF BatchInv
<1>2. /\ c.control \in {"random_peer", "unrelated_prompt", "success_only_matched"}
      /\ c.skipSelf \in BOOLEAN /\ c.summaryK \in Nat /\ c.match \in {"block", "token"}
  BY <1>1, SettingFacts
<1>3. /\ Rowed(b) /\ Rows(b) = Samples /\ DOMAIN batch = Samples
      /\ \A i \in Samples : /\ b.uid[i] = Uid(batch[i])
                            /\ b.ok[i] = (batch[i] \in input.ok)
  BY BatchRows
<1>4. Baseline = CHOOSE x \in StandardContexts(b, c, row) : TRUE
  BY DEF Baseline
<1>5. Drawable =
        {j \in Samples :
           CASE c.control = "random_peer" -> SamePrompt(row, j)
             [] c.control = "unrelated_prompt" ->
                  batch[j] \in input.ok /\ ~SamePrompt(row, j)
             [] c.control = "success_only_matched" -> batch[j] \in input.ok}
        \ (IF c.skipSelf THEN {row} ELSE {})
  BY <1>3 DEF Drawable
<1> HIDE DEF b
<1>6. /\ Successes(b, c, row) = {j \in Samples : /\ SamePrompt(row, j)
                                                 /\ batch[j] \in input.ok
                                                 /\ c.skipSelf => j # row}
      /\ Failures(b, row) = {j \in Samples : /\ SamePrompt(row, j)
                                             /\ batch[j] \notin input.ok /\ j # row}
      /\ Others(b, row) = {j \in Samples : batch[j] \in input.ok /\ ~SamePrompt(row, j)}
      /\ SamePrompt(row, row)
  BY <1>1, <1>3 DEF Successes, Failures, Others, SamePrompt
<1> HIDE DEF c
<1>7. /\ c.control = "unrelated_prompt" => Drawable = Others(b, row)
      /\ c.control = "success_only_matched" =>
           Drawable = Successes(b, c, row) \cup Others(b, row)
      /\ c.control = "random_peer" =>
           Successes(b, c, row) \cup Failures(b, row) \subseteq Drawable
  <2>1. CASE c.control = "unrelated_prompt"
    BY <1>2, <1>5, <1>6, <2>1
  <2>2. CASE c.control = "success_only_matched"
    BY <1>1, <1>2, <1>5, <1>6, <2>2
  <2>3. CASE c.control = "random_peer"
    BY <1>2, <1>5, <1>6, <2>3
  <2> QED
    BY <1>2, <2>1, <2>2, <2>3
<1>8. Blocks(Baseline) = n
  <2>1. Baseline \in StandardContexts(b, c, row)
    <3>1. StandardContexts(b, c, row) # {}
      BY <1>2, <1>3, StandardExists
    <3> QED
      BY <1>4, <3>1
  <2> QED
    BY <1>3, <2>1, BaselineBlocks
<1>9. ctx \in ControlContexts(b, c, row)
  BY <1>1, <1>2 DEF Contexts
<1>10. ctx.another = {} /\ ctx.summaries = {} /\ ctx.solution \subseteq Shown
  BY <1>2, <1>9, ControlFit DEF Shown
<1>11. CASE c.match = "block"
  <2>1. \/ Blocks(ctx) = n
        \/ /\ Blocks(ctx) < n
           /\ c.control = "unrelated_prompt" /\ ctx.solution = Others(b, row)
        \/ /\ Blocks(ctx) < n
           /\ c.control = "success_only_matched"
           /\ ctx.solution = Successes(b, c, row) \cup Others(b, row)
    BY <1>2, <1>3, <1>9, <1>11, BlocksMatched
  <2>2. \/ Blocks(ctx) = n
        \/ Blocks(ctx) < n /\ Drawable \subseteq Shown
    <3> HIDE DEF n
    <3> QED
      BY <1>7, <1>10, <2>1
  <2> QED
    BY <1>8, <1>11, <2>2 DEF c
<1>12. CASE c.match = "token"
  <2>1. /\ slots = {} => Shown = {}
        /\ slots # {} /\ c.control = "random_peer" => Shown # {}
        /\ slots # {} /\ c.control = "unrelated_prompt" =>
             (Shown = {} <=> Others(b, row) = {})
        /\ slots # {} /\ c.control = "success_only_matched" =>
             (Shown = {} <=> Successes(b, c, row) \cup Others(b, row) = {})
    BY <1>2, <1>3, <1>9, <1>12, TokensMatched DEF Shown
  <2>2. /\ slots \subseteq Successes(b, c, row) \cup Failures(b, row)
        /\ slots \in SUBSET Rows(b)
    BY <1>3, SlotsFacts
  <2>3. n = 0 <=> slots = {}
    <3>1. IsFiniteSet(slots)
      BY <1>3, <2>2, PoolsFinite
    <3> HIDE DEF slots
    <3> QED
      BY <3>1, FS_EmptySet
  <2>4. (Shown = {}) <=> (n = 0 \/ Drawable = {})
    <3> HIDE DEF n, slots
    <3> QED
      BY <1>2, <1>7, <2>1, <2>2, <2>3
  <2> QED
    BY <1>8, <1>12, <2>4 DEF c
<1> QED
  BY <1>2, <1>11, <1>12

\* The teacher is shown peers that fit (_maybe_build_self_distillation_batch).
THEOREM ContextsFit == StepSpec => []PeersFit
<1>1. StepInit => BatchInv /\ ContextInv
  BY BatchStarts, ContextStarts
<1>2. BatchInv /\ ContextInv /\ [StepNext]_stepVars => BatchInv' /\ ContextInv'
  BY BatchStays, ContextStays
<1>3. BatchInv /\ ContextInv => PeersFit
  BY BuiltPeersFit
<1> QED
  BY <1>1, <1>2, <1>3, PTL DEF StepSpec

\* A row is distilled from only if its teacher's prompt was rewritten, and left
\* out after a rewrite only where a control found no peer and feedback took the
\* place of the solution, for every batch and every setting.
THEOREM MaskFits == StepSpec => []MaskMatchesPrompt
<1>1. StepInit => BatchInv /\ ContextInv
  BY BatchStarts, ContextStarts
<1>2. BatchInv /\ ContextInv /\ [StepNext]_stepVars => BatchInv' /\ ContextInv'
  BY BatchStays, ContextStays
<1>3. BatchInv /\ ContextInv => MaskMatchesPrompt
  BY BuiltMaskMatches
<1> QED
  BY <1>1, <1>2, <1>3, PTL DEF StepSpec

\* A control shows a row as many blocks as it would see without the control, or
\* all the rows it may draw; matched by tokens, it shows blocks whenever there
\* are any to match and to draw.
THEOREM BudgetsMatch == StepSpec => []MatchedBudget
<1>1. StepInit => BatchInv /\ ContextInv
  BY BatchStarts, ContextStarts
<1>2. BatchInv /\ ContextInv /\ [StepNext]_stepVars => BatchInv' /\ ContextInv'
  BY BatchStays, ContextStays
<1>3. BatchInv /\ ContextInv => MatchedBudget
  BY BuiltMatchesBudget
<1> QED
  BY <1>1, <1>2, <1>3, PTL DEF StepSpec

-----------------------------------------------------------------------------
\* Micro-batches.

\* Where the j-th of n ends up when the odd ones are reversed and the even ones
\* follow.
Place(j, n) == LET K == (n + 1) \div 2 IN
               IF j <= K THEN 2 * ((K - j) + 1) - 1 ELSE 2 * (j - K)

\* Small at both ends: each place of the order is taken once.
LEMMA Places ==
  ASSUME NEW T, NEW s \in Seq(T)
  PROVE  LET d == Reverse(Odds(s)) \o Evens(s) IN
         /\ d \in Seq(T) /\ Len(d) = Len(s)
         /\ \A j \in 1..Len(s) : Place(j, Len(s)) \in 1..Len(s)
                                 /\ d[j] = s[Place(j, Len(s))]
<1> DEFINE N == Len(s)
           K == (N + 1) \div 2
           L == N \div 2
           a == Odds(s)
           b == Evens(s)
           ra == Reverse(a)
<1>1. N \in Nat /\ \A i \in 1..N : s[i] \in T
  OBVIOUS
<1>2. /\ K \in Nat /\ L \in Nat /\ K + L = N
      /\ \A i \in 1..K : 2 * i - 1 \in 1..N
      /\ \A i \in 1..L : 2 * i \in 1..N
  <2>1. K \in Nat /\ L \in Nat /\ K + L = N
    BY <1>1
  <2>2. \A i \in 1..K : 2 * i - 1 \in 1..N
    BY <1>1
  <2>3. \A i \in 1..L : 2 * i \in 1..N
    BY <1>1
  <2> QED
    BY <2>1, <2>2, <2>3
<1>3. /\ a = [i \in 1..K |-> s[2 * i - 1]]
      /\ b = [i \in 1..L |-> s[2 * i]]
  BY DEF Odds, Evens
<1> HIDE DEF K, L, a, b
<1>4. a \in Seq(T) /\ Len(a) = K /\ \A i \in 1..K : a[i] = s[2 * i - 1]
  <2>1. a \in [1..K -> T]
    BY <1>1, <1>2, <1>3
  <2> QED
    BY <1>2, <1>3, <2>1
<1>5. b \in Seq(T) /\ Len(b) = L /\ \A i \in 1..L : b[i] = s[2 * i]
  <2>1. b \in [1..L -> T]
    BY <1>1, <1>2, <1>3
  <2> QED
    BY <1>2, <1>3, <2>1
<1>6. ra \in Seq(T) /\ Len(ra) = K /\ \A i \in 1..K : ra[i] = a[(K - i) + 1]
  <2>1. ra = [i \in 1..K |-> a[(K - i) + 1]]
    BY <1>4 DEF Reverse
  <2>2. ra \in [1..K -> T]
    BY <1>2, <1>4, <2>1
  <2> HIDE DEF ra
  <2> QED
    BY <1>2, <2>1, <2>2
<1> HIDE DEF ra, N
<1>7. /\ ra \o b \in Seq(T) /\ Len(ra \o b) = N
      /\ \A i \in 1..K : (ra \o b)[i] = ra[i]
      /\ \A i \in 1..L : (ra \o b)[K + i] = b[i]
  <2>1. /\ ra \o b \in Seq(T) /\ Len(ra \o b) = Len(ra) + Len(b)
        /\ \A i \in 1..Len(ra) : (ra \o b)[i] = ra[i]
        /\ \A i \in 1..Len(b) : (ra \o b)[Len(ra) + i] = b[i]
    <3>1. ra \in Seq(T) /\ b \in Seq(T)
      BY <1>5, <1>6
    <3> QED
      BY ONLY <3>1, Concat
  <2> QED
    BY <1>2, <1>5, <1>6, <2>1
<1>8. ASSUME NEW j \in 1..N
      PROVE  Place(j, N) \in 1..N /\ (ra \o b)[j] = s[Place(j, N)]
  <2>1. Place(j, N) = IF j <= K THEN 2 * ((K - j) + 1) - 1 ELSE 2 * (j - K)
    BY DEF Place, K
  <2>2. CASE j <= K
    <3>1. j \in 1..K /\ (K - j) + 1 \in 1..K
      BY <1>1, <1>2, <2>2
    <3> QED
      BY <1>2, <1>4, <1>6, <1>7, <2>1, <2>2, <3>1
  <2>3. CASE ~(j <= K)
    <3>1. j - K \in 1..L /\ K + (j - K) = j
      BY <1>1, <1>2, <2>3
    <3> QED
      BY <1>2, <1>5, <1>7, <2>1, <2>3, <3>1
  <2> QED
    BY <2>2, <2>3
<1> QED
  BY <1>7, <1>8 DEF ra, a, b, N

\* What a function makes of 1..n, in some order.
Reordered(d, f, n, T) ==
  /\ d \in Seq(T) /\ Len(d) = n
  /\ \E o \in Seq(1..n) : /\ Lists(o, 1..n) /\ Len(o) = n
                          /\ \A m \in 1..n : d[m] = f[o[m]]

\* Sequences that are moved to those places.
LEMMA PlacesMap ==
  ASSUME NEW n \in Nat, NEW order, Lists(order, 1..n), Len(order) = n,
         NEW T, NEW f \in [1..n -> T],
         NEW h \in Seq(T), Len(h) = n, \A m \in 1..n : h[m] = f[order[m]]
  PROVE  Reordered(Reverse(Odds(h)) \o Evens(h), f, n, T)
<1> DEFINE o == Reverse(Odds(order)) \o Evens(order)
           d == Reverse(Odds(h)) \o Evens(h)
<1>1. Lists(o, 1..n) /\ Len(o) = n /\ o \in Seq(1..n)
  <2>1. Lists(o, 1..n) /\ Len(o) = n
    BY Interleaved
  <2> QED
    BY <2>1 DEF Lists
<1>2. order \in Seq(1..n) /\ \A m \in 1..n : order[m] \in 1..n
  BY DEF Lists
<1>3. h \in Seq(T) /\ Len(h) = n /\ \A m \in 1..n : h[m] = f[order[m]]
  OBVIOUS
<1>4. /\ \A j \in 1..n : Place(j, n) \in 1..n /\ o[j] = order[Place(j, n)]
  <2>1. order \in Seq(1..n)
    BY <1>2
  <2>2. \A j \in 1..Len(order) :
          /\ Place(j, Len(order)) \in 1..Len(order)
          /\ (Reverse(Odds(order)) \o Evens(order))[j] = order[Place(j, Len(order))]
    BY ONLY <2>1, Places
  <2> QED
    BY <2>2
<1>5. d \in Seq(T) /\ Len(d) = n /\ \A j \in 1..n : d[j] = h[Place(j, n)]
  <2>1. h \in Seq(T)
    BY <1>3
  <2>2. /\ Reverse(Odds(h)) \o Evens(h) \in Seq(T)
        /\ Len(Reverse(Odds(h)) \o Evens(h)) = Len(h)
        /\ \A j \in 1..Len(h) : (Reverse(Odds(h)) \o Evens(h))[j] = h[Place(j, Len(h))]
    BY ONLY <2>1, Places
  <2> QED
    BY <1>3, <2>2
<1> HIDE DEF o, d
<1>6. \A j \in 1..n : d[j] = f[o[j]]
  BY <1>3, <1>4, <1>5
<1>7. Reordered(d, f, n, T)
  BY <1>1, <1>5, <1>6 DEF Reordered
<1> QED
  BY <1>7 DEF d

\* Sorting by two numbers, and by place where they are the same.
LEMMA TwoKeysOrder ==
  ASSUME NEW n \in Nat, NEW w \in [1..n -> Nat], NEW f \in [1..n -> Nat],
         NEW R, R = {p \in (1..n) \X (1..n) :
                       \/ w[p[1]] > w[p[2]]
                       \/ /\ w[p[1]] = w[p[2]]
                          /\ \/ f[p[1]] > f[p[2]]
                             \/ f[p[1]] = f[p[2]] /\ p[1] < p[2]}
  PROVE  OrderOf(R, 1..n)
<1>1. \A x, y \in 1..n :
        <<x, y>> \in R <=> \/ w[x] > w[y]
                           \/ /\ w[x] = w[y]
                              /\ \/ f[x] > f[y]
                                 \/ f[x] = f[y] /\ x < y
  OBVIOUS
<1>2. \A x \in 1..n : w[x] \in Nat /\ f[x] \in Nat /\ x \in Nat
  OBVIOUS
<1>3. \A x \in 1..n : <<x, x>> \notin R
  BY <1>1, <1>2
<1>4. ASSUME NEW x \in 1..n, NEW y \in 1..n, NEW z \in 1..n,
             <<x, y>> \in R, <<y, z>> \in R
      PROVE  <<x, z>> \in R
  BY SMTT(30), <1>1, <1>2, <1>4
<1>5. ASSUME NEW x \in 1..n, NEW y \in 1..n
      PROVE  x = y \/ <<x, y>> \in R \/ <<y, x>> \in R
  BY <1>1, <1>2
<1> QED
  BY <1>3, <1>4, <1>5 DEF OrderOf

\* Each of the lists is of one of the sets.
FromParts(ms, parts, n) == \A m \in 1..n : \E p \in 1..n : Lists(ms[m], parts[p])

\* The micro-batches hold every row once, are as many as asked for, and each is
\* one of the balanced sets.
LEMMA MicroBatchesFacts ==
  ASSUME NEW lens \in Seq(Nat \ {0}), Len(lens) > 0, NEW n \in Nat \ {0}
  PROVE  /\ Parts(MicroBatches(lens, n), 1..Len(lens))
         /\ Len(MicroBatches(lens, n)) = n
         /\ FromParts(MicroBatches(lens, n),
                      BalancedPartitions(LoadsFor(lens), n, FALSE), n)
<1> DEFINE loads == LoadsFor(lens)
           N == Len(lens)
           parts == BalancedPartitions(loads, n, FALSE)
           w == [p \in 1..n |-> Total(loads, parts[p])]
           f == [p \in 1..n |-> IF parts[p] = {} THEN 0 ELSE Ascending(parts[p])[1]]
           R == {p \in (1..n) \X (1..n) :
                   \/ w[p[1]] > w[p[2]]
                   \/ /\ w[p[1]] = w[p[2]]
                      /\ \/ f[p[1]] > f[p[2]]
                         \/ f[p[1]] = f[p[2]] /\ p[1] < p[2]}
           order == Sorted(1..n, R)
           g == [p \in 1..n |-> Ascending(parts[p])]
           h == [m \in 1..n |-> g[order[m]]]
<1>1. loads \in Seq(Nat) /\ Len(loads) = N /\ N \in Nat
  BY LoadsFacts
<1>2. Partition(parts, n, N)
  <2> HIDE DEF loads
  <2> QED
    BY <1>1, UnequalPartition
<1>3. loads \in Seq(Nat) /\ \A p \in 1..n : parts[p] \in SUBSET (1..N)
  BY <1>1, <1>2 DEF Partition
<1> HIDE DEF parts, loads
<1>4. ASSUME NEW p \in 1..n PROVE Lists(Ascending(parts[p]), parts[p])
  <2>1. IsFiniteSet(1..N)
    BY <1>1, FS_Interval
  <2>2. parts[p] \in SUBSET (1..N)
    BY <1>3
  <2>3. IsFiniteSet(parts[p])
    BY <2>1, <2>2, FS_Subset
  <2>4. parts[p] \in SUBSET Nat
    BY <1>1, <2>2
  <2> QED
    BY <2>3, <2>4, AscendingFacts
<1>5. OrderOf(R, 1..n) /\ IsFiniteSet(1..n) /\ Cardinality(1..n) = n /\ n \in Nat
  <2>1. w \in [1..n -> Nat]
    BY <1>3, TotalType
  <2>2. f \in [1..n -> Nat]
    <3>1. ASSUME NEW p \in 1..n, parts[p] # {} PROVE Ascending(parts[p])[1] \in Nat
      <4>1. Lists(Ascending(parts[p]), parts[p]) /\ parts[p] \in SUBSET (1..N)
        BY <1>3, <1>4
      <4>2. PICK x \in parts[p] : TRUE
        BY <3>1
      <4>3. \E i \in 1..Len(Ascending(parts[p])) : Ascending(parts[p])[i] = x
        BY <4>1 DEF Lists
      <4>4. Ascending(parts[p]) \in Seq(parts[p])
        BY <4>1 DEF Lists
      <4>5. Ascending(parts[p])[1] \in parts[p]
        <5> DEFINE s == Ascending(parts[p])
        <5> HIDE DEF s
        <5>1. s \in Seq(parts[p]) /\ \E i \in 1..Len(s) : s[i] = x
          BY <4>3, <4>4 DEF s
        <5>2. 1 \in 1..Len(s)
          BY <5>1
        <5>3. s[1] \in parts[p]
          BY <5>1, <5>2
        <5> QED
          BY <5>3 DEF s
      <4> QED
        BY <1>1, <4>1, <4>5
    <3> QED
      BY <3>1
  <2>3. n \in Nat /\ IsFiniteSet(1..n) /\ Cardinality(1..n) = n
    <3>1. n \in Int /\ 1 \in Int /\ ~(1 > n) /\ n - 1 + 1 = n
      OBVIOUS
    <3> QED
      BY <3>1, FS_Interval
  <2>4. OrderOf(R, 1..n)
    <3> HIDE DEF w, f
    <3> QED
      BY <2>1, <2>2, <2>3, TwoKeysOrder
  <2> QED
    BY <2>3, <2>4
<1>6. MicroBatches(lens, n) = Reverse(Odds(h)) \o Evens(h)
  <2> DEFINE R1 == {p \in (1..n) \X (1..n) :
                 \/ Total(loads, parts[p[1]]) > Total(loads, parts[p[2]])
                 \/ /\ Total(loads, parts[p[1]]) = Total(loads, parts[p[2]])
                    /\ \/ (IF parts[p[1]] = {} THEN 0 ELSE Ascending(parts[p[1]])[1])
                            > (IF parts[p[2]] = {} THEN 0 ELSE Ascending(parts[p[2]])[1])
                       \/ /\ (IF parts[p[1]] = {} THEN 0 ELSE Ascending(parts[p[1]])[1])
                            = (IF parts[p[2]] = {} THEN 0 ELSE Ascending(parts[p[2]])[1])
                          /\ p[1] < p[2]}
             h1 == [m \in 1..n |-> Ascending(parts[Sorted(1..n, R1)[m]])]
  <2>1. MicroBatches(lens, n) = Reverse(Odds(h1)) \o Evens(h1)
    BY DEF MicroBatches, LoadsFor, parts, loads
  <2>2. R1 = R
    <3>1. \A p \in (1..n) \X (1..n) : p[1] \in 1..n /\ p[2] \in 1..n
      OBVIOUS
    <3>2. \A q \in 1..n : w[q] = Total(loads, parts[q])
           /\ f[q] = IF parts[q] = {} THEN 0 ELSE Ascending(parts[q])[1]
      OBVIOUS
    <3> HIDE DEF w, f
    <3> QED
      BY <3>1, <3>2
  <2> HIDE DEF R, R1
  <2>3. Sorted(1..n, R1) = order
    BY <2>2
  <2>4. Lists(order, 1..n) /\ Len(order) = n
    BY <1>5, SortedFacts
  <2> HIDE DEF order
  <2>5. \A m \in 1..n : order[m] \in 1..n
    <3>1. order \in Seq(1..n)
      BY <2>4 DEF Lists
    <3> QED
      BY <2>4, <3>1
  <2>6. h1 = h
    <3>1. \A m \in 1..n : g[order[m]] = Ascending(parts[order[m]])
      BY <2>5
    <3> QED
      BY <2>3, <3>1
  <2> HIDE DEF h, h1
  <2> QED
    BY <2>1, <2>6
<1>7. Lists(order, 1..n) /\ Len(order) = n
  <2> HIDE DEF R
  <2> QED
    BY <1>5, SortedFacts
<1> HIDE DEF order
<1>8. g \in [1..n -> Seq(1..N)] /\ \A p \in 1..n : g[p] = Ascending(parts[p])
  <2>1. ASSUME NEW p \in 1..n PROVE Ascending(parts[p]) \in Seq(1..N)
    <3>1. Ascending(parts[p]) \in Seq(parts[p])
      BY <1>4 DEF Lists
    <3> QED
      BY <1>3, <3>1
  <2> QED
    BY <2>1
<1> HIDE DEF g
<1>9. Reordered(MicroBatches(lens, n), g, n, Seq(1..N))
  <2>1. h \in Seq(Seq(1..N)) /\ Len(h) = n /\ \A m \in 1..n : h[m] = g[order[m]]
    <3>1. order \in Seq(1..n) /\ \A m \in 1..n : order[m] \in 1..n
      <4>1. order \in Seq(1..n)
        BY <1>7 DEF Lists
      <4> QED
        BY <1>7, <4>1
    <3>2. h \in [1..n -> Seq(1..N)]
      BY <1>8, <3>1
    <3> QED
      BY <1>5, <3>2
  <2>2. n \in Nat /\ Lists(order, 1..n) /\ Len(order) = n /\ g \in [1..n -> Seq(1..N)]
    BY <1>5, <1>7, <1>8
  <2> HIDE DEF h, N
  <2>3. Reordered(Reverse(Odds(h)) \o Evens(h), g, n, Seq(1..N))
    BY ONLY <2>1, <2>2, PlacesMap
  <2> QED
    BY <1>6, <2>3
<1>10. PICK o \in Seq(1..n) : /\ Lists(o, 1..n) /\ Len(o) = n
                              /\ \A m \in 1..n : MicroBatches(lens, n)[m] = g[o[m]]
  BY <1>9 DEF Reordered
<1> DEFINE parts2 == [m \in 1..n |-> parts[o[m]]]
           ms == MicroBatches(lens, n)
<1>11. \A m \in 1..n : o[m] \in 1..n
  BY <1>10
<1>12. Partition(parts2, n, N)
  <2>1. parts2 \in [1..n -> SUBSET (1..N)]
    BY <1>3, <1>11
  <2>2. ASSUME NEW i \in 1..n, NEW j \in 1..n, i # j
        PROVE  parts2[i] \cap parts2[j] = {}
    <3>1. o[i] # o[j]
      BY <1>10, <2>2 DEF Lists
    <3> QED
      BY <1>2, <1>11, <3>1 DEF Partition
  <2>3. ASSUME NEW x \in 1..N PROVE \E i \in 1..n : x \in parts2[i]
    <3>1. PICK p \in 1..n : x \in parts[p]
      BY <1>2 DEF Partition
    <3>2. PICK m \in 1..n : o[m] = p
      BY <1>10 DEF Lists
    <3> QED
      BY <3>1, <3>2
  <2> HIDE DEF parts2
  <2> QED
    BY <2>1, <2>2, <2>3 DEF Partition
<1>15. ms \in Seq(Seq(1..N)) /\ Len(ms) = n
  BY <1>9 DEF Reordered
<1> HIDE DEF ms
<1>13. ms = [m \in 1..n |-> ms[m]] /\ \A m \in 1..n : Lists(ms[m], parts2[m])
  <2>1. ASSUME NEW m \in 1..n PROVE Lists(ms[m], parts2[m])
    <3>1. ms[m] = Ascending(parts[o[m]]) /\ parts2[m] = parts[o[m]]
      BY <1>8, <1>10, <1>11 DEF ms
    <3>2. Lists(Ascending(parts[o[m]]), parts[o[m]])
      BY <1>4, <1>11
    <3> QED
      BY <3>1, <3>2
  <2>2. ms = [m \in 1..n |-> ms[m]]
    BY <1>15
  <2> QED
    BY <2>1, <2>2
<1>16. FromParts(ms, parts, n)
  <2>1. \A m \in 1..n : o[m] \in 1..n /\ parts2[m] = parts[o[m]]
    BY <1>11
  <2> HIDE DEF parts2
  <2> QED
    BY <1>13, <2>1 DEF FromParts
<1> HIDE DEF parts2
<1>14. Parts(ms, 1..N) /\ Len(ms) = n
  <2>1. N \in Nat /\ n \in Nat
    BY <1>1, <1>5
  <2> HIDE DEF N
  <2> QED
    BY ONLY <1>12, <1>13, <2>1, PartsOf
<1> QED
  BY <1>14, <1>16 DEF ms, parts, loads

\* A piece of a sequence.
LEMMA SubSeqFacts ==
  ASSUME NEW S, NEW s \in Seq(S), NEW a \in Nat, NEW e \in Nat, a <= e, e <= Len(s)
  PROVE  /\ SubSeq(s, a + 1, e) \in Seq(S)
         /\ Len(SubSeq(s, a + 1, e)) = e - a
         /\ \A i \in 1..(e - a) : SubSeq(s, a + 1, e)[i] = s[a + i]
<1>1. Len(s) \in Nat /\ a + 1 \in 1..(Len(s) + 1) /\ e \in a..Len(s)
  OBVIOUS
<1>2. SubSeq(s, a + 1, e) = [i \in 1..(e - a) |-> s[a + i]]
  <2>1. SubSeq(s, a + 1, e) = [i \in 1..(1 + e - (a + 1)) |-> s[i + (a + 1) - 1]]
    OBVIOUS
  <2>2. 1 + e - (a + 1) = e - a
    OBVIOUS
  <2>3. \A i \in 1..(e - a) : i + (a + 1) - 1 = a + i
    OBVIOUS
  <2> QED
    BY <2>1, <2>2, <2>3
<1>3. \A i \in 1..(e - a) : s[a + i] \in S
  BY <1>1
<1>4. [i \in 1..(e - a) |-> s[a + i]] \in [1..(e - a) -> S] /\ e - a \in Nat
  BY <1>3
<1> DEFINE q == SubSeq(s, a + 1, e)
           d == e - a
<1> HIDE DEF q, d
<1>5. q \in [1..d -> S] /\ d \in Nat /\ q = [i \in 1..d |-> s[a + i]]
  BY <1>2, <1>4 DEF q, d
<1>6. q \in Seq(S) /\ Len(q) = d /\ \A i \in 1..d : q[i] = s[a + i]
  <2>1. q \in Seq(S) /\ Len(q) = d
    <3>1. q \in [1..d -> S] /\ d \in Nat
      BY <1>5
    <3> QED
      BY ONLY <3>1
  <2>2. \A i \in 1..d : q[i] = s[a + i]
    BY ONLY <1>5
  <2> QED
    BY <2>1, <2>2
<1> QED
  BY <1>6 DEF q, d

\* Neighbouring pieces make one.
LEMMA SubSeqJoin ==
  ASSUME NEW S, NEW s \in Seq(S), NEW a \in Nat, NEW e \in Nat, a <= e, e <= Len(s)
  PROVE  SubSeq(s, 1, a) \o SubSeq(s, a + 1, e) = SubSeq(s, 1, e)
<1> DEFINE x == SubSeq(s, 1, a)
           y == SubSeq(s, a + 1, e)
           z == SubSeq(s, 1, e)
<1>1. 0 \in Nat /\ 0 <= a /\ a <= Len(s) /\ 0 <= e /\ e <= Len(s) /\ 0 + 1 = 1
      /\ a - 0 = a /\ e - 0 = e /\ \A i \in Nat : 0 + i = i
  OBVIOUS
<1>2. x \in Seq(S) /\ Len(x) = a /\ \A i \in 1..a : x[i] = s[i]
  <2>1. /\ SubSeq(s, 0 + 1, a) \in Seq(S)
        /\ Len(SubSeq(s, 0 + 1, a)) = a - 0
        /\ \A i \in 1..(a - 0) : SubSeq(s, 0 + 1, a)[i] = s[0 + i]
    BY <1>1, SubSeqFacts
  <2> QED
    BY <1>1, <2>1
<1>3. z \in Seq(S) /\ Len(z) = e /\ \A i \in 1..e : z[i] = s[i]
  <2>1. /\ SubSeq(s, 0 + 1, e) \in Seq(S)
        /\ Len(SubSeq(s, 0 + 1, e)) = e - 0
        /\ \A i \in 1..(e - 0) : SubSeq(s, 0 + 1, e)[i] = s[0 + i]
    BY <1>1, SubSeqFacts
  <2> QED
    BY <1>1, <2>1
<1>4. y \in Seq(S) /\ Len(y) = e - a /\ \A i \in 1..(e - a) : y[i] = s[a + i]
  BY SubSeqFacts
<1> HIDE DEF x, y, z
<1>5. /\ x \o y \in Seq(S) /\ Len(x \o y) = Len(x) + Len(y)
      /\ \A i \in 1..Len(x) : (x \o y)[i] = x[i]
      /\ \A i \in 1..Len(y) : (x \o y)[Len(x) + i] = y[i]
      /\ \A i \in 1..Len(x \o y) :
           i \in 1..Len(x) \/ \E j \in 1..Len(y) : i = Len(x) + j
  BY <1>2, <1>4, Concat
<1>6. Len(x \o y) = e
  BY <1>2, <1>4, <1>5
<1>7. ASSUME NEW i \in 1..e PROVE (x \o y)[i] = z[i]
  <2>1. CASE i \in 1..a
    BY <1>2, <1>3, <1>5, <2>1
  <2>2. CASE i \notin 1..a
    <3>1. i - a \in 1..(e - a) /\ a + (i - a) = i
      BY <2>2
    <3>2. (x \o y)[a + (i - a)] = y[i - a] /\ y[i - a] = s[a + (i - a)]
      BY <1>2, <1>4, <1>5, <3>1
    <3> QED
      BY <1>3, <3>1, <3>2
  <2> QED
    BY <2>1, <2>2
<1>8. x \o y = z
  BY SMTT(30), <1>3, <1>5, <1>6, <1>7
<1> QED
  BY <1>8 DEF x, y, z

\* Division that rounds up.
LEMMA CeilFacts ==
  ASSUME NEW L \in Nat \ {0}, NEW n \in Nat \ {0}
  PROVE  LET C == CeilDiv(L, n) IN
         /\ C \in Nat \ {0} /\ L <= C * n
         /\ \A m \in 1..C : (m - 1) * n < L /\ (m - 1) * n \in Nat
                            /\ m * n = (m - 1) * n + n /\ m * n \in Nat
         /\ \A m \in 0..(C - 1) : m * n < L
<1> DEFINE C == (L + n - 1) \div n
<1>1. CeilDiv(L, n) = C
  BY DEF CeilDiv
<1>2. L + n - 1 \in Int
  OBVIOUS
<1>3. C \in Int /\ C * n <= L + n - 1 /\ L + n - 1 < C * n + n
  BY <1>2, DivFacts
<1>4. C \in Nat \ {0}
  BY <1>2
<1> HIDE DEF C
<1>5. C * n \in Nat /\ L <= C * n
  BY <1>3, <1>4
<1>6. ASSUME NEW m \in 0..(C - 1) PROVE m * n < L /\ m * n \in Nat
  <2>1. m \in Nat /\ m < C /\ n \in Nat /\ C \in Nat
    BY <1>4
  <2>2. m * n + n <= C * n /\ m * n \in Nat
    BY <2>1, TimesMono
  <2> QED
    BY <1>3, <1>5, <2>2
<1>7. ASSUME NEW m \in 1..C
      PROVE  (m - 1) * n < L /\ (m - 1) * n \in Nat /\ m * n = (m - 1) * n + n /\ m * n \in Nat
  <2>1. m - 1 \in 0..(C - 1)
    BY <1>4
  <2>2. (m - 1) * n < L /\ (m - 1) * n \in Nat
    BY <1>6, <2>1
  <2>3. m * n = (m - 1) * n + n
    BY <1>4
  <2> QED
    BY <2>2, <2>3
<1> QED
  BY <1>1, <1>4, <1>5, <1>6, <1>7

\* Where the m-th piece of n rows ends.
Cut(m, n, L) == IF m * n < L THEN m * n ELSE L

\* The pieces of a batch of rows hold each once, in order.
Piece(p, rows, n, m, S) ==
  LET L == Len(rows) IN
  /\ p \in Seq(S) /\ (m - 1) * n \in Nat /\ (m - 1) * n < L
  /\ Cut(m, n, L) \in Nat /\ (m - 1) * n < Cut(m, n, L) /\ Cut(m, n, L) <= L
  /\ Cut(m, n, L) <= (m - 1) * n + n
  /\ Cut(m - 1, n, L) = (m - 1) * n
  /\ p = SubSeq(rows, (m - 1) * n + 1, Cut(m, n, L))
  /\ Len(p) = Cut(m, n, L) - (m - 1) * n
  /\ \A i \in 1..Len(p) : i <= n /\ p[i] = rows[(m - 1) * n + i]

\* A piece that Split cuts off.
LEMMA PieceFacts ==
  ASSUME NEW S, NEW rows \in Seq(S), rows # <<>>, NEW n \in Nat \ {0},
         NEW m \in 1..CeilDiv(Len(rows), n)
  PROVE  Piece(Split(rows, n)[m], rows, n, m, S)
<1> DEFINE p == Split(rows, n)[m]
           L == Len(rows)
           a == (m - 1) * n
           e == Cut(m, n, L)
<1>1. L \in Nat \ {0}
  OBVIOUS
<1>2. p = SubSeq(rows, a + 1, e)
  BY DEF Split, Cut
<1>3. a < L /\ a \in Nat /\ m * n = a + n /\ m * n \in Nat
  <2> HIDE DEF L
  <2> QED
    BY <1>1, CeilFacts DEF L
<1>4. e = IF m * n < L THEN m * n ELSE L
  BY DEF Cut
<1>5. Cut(m - 1, n, L) = a
  BY <1>3 DEF Cut
<1> HIDE DEF p, L, a, e
<1>6. e \in Nat /\ a < e /\ e <= L /\ e <= a + n
  BY <1>1, <1>3, <1>4
<1>7. rows \in Seq(S) /\ a \in Nat /\ e \in Nat /\ a <= e /\ e <= Len(rows)
  BY <1>3, <1>6 DEF L
<1>8. p \in Seq(S) /\ Len(p) = e - a /\ \A i \in 1..(e - a) : p[i] = rows[a + i]
  <2>1. /\ SubSeq(rows, a + 1, e) \in Seq(S)
        /\ Len(SubSeq(rows, a + 1, e)) = e - a
        /\ \A i \in 1..(e - a) : SubSeq(rows, a + 1, e)[i] = rows[a + i]
    BY ONLY <1>7, SubSeqFacts
  <2> QED
    BY <1>2, <2>1
<1>9. \A i \in 1..Len(p) : i <= n /\ p[i] = rows[a + i]
  BY <1>3, <1>6, <1>8
<1>10. Piece(p, rows, n, m, S)
  BY <1>2, <1>3, <1>5, <1>6, <1>8, <1>9 DEF L, a, e, Piece
<1> QED
  BY <1>10 DEF p

\* Split cuts a list into parts, one after the other.
LEMMA SplitFacts ==
  ASSUME NEW S, NEW rows, Lists(rows, S), rows # <<>>, NEW n \in Nat \ {0}
  PROVE  /\ Parts(Split(rows, n), S)
         /\ Len(Split(rows, n)) = CeilDiv(Len(rows), n)
         /\ FlattenSeq(Split(rows, n)) = rows
<1> DEFINE L == Len(rows)
           C == CeilDiv(L, n)
           ss == Split(rows, n)
<1>1. rows \in Seq(S) /\ L \in Nat \ {0} /\ \A i \in 1..L : rows[i] \in S
  <2>1. rows \in Seq(S)
    BY DEF Lists
  <2> QED
    BY <2>1
<1>2. C \in Nat \ {0} /\ L <= C * n
  <2> HIDE DEF L
  <2> QED
    BY <1>1, CeilFacts
<1>3. ASSUME NEW m \in 1..C
      PROVE  /\ ss[m] \in Seq(S) /\ (m - 1) * n \in Nat
             /\ ss[m] = SubSeq(rows, (m - 1) * n + 1, Cut(m, n, L))
             /\ Cut(m - 1, n, L) = (m - 1) * n /\ Cut(m, n, L) \in Nat
             /\ (m - 1) * n < Cut(m, n, L) /\ Cut(m, n, L) <= L
             /\ Len(ss[m]) = Cut(m, n, L) - (m - 1) * n
             /\ \A i \in 1..Len(ss[m]) : i \in 1..n /\ ss[m][i] = rows[(m - 1) * n + i]
                                         /\ (m - 1) * n + i \in 1..L
  <2> HIDE DEF L, ss, C
  <2>1. /\ ss[m] \in Seq(S) /\ (m - 1) * n \in Nat
        /\ Cut(m, n, L) \in Nat /\ (m - 1) * n < Cut(m, n, L) /\ Cut(m, n, L) <= L
        /\ Cut(m - 1, n, L) = (m - 1) * n
        /\ ss[m] = SubSeq(rows, (m - 1) * n + 1, Cut(m, n, L))
        /\ Len(ss[m]) = Cut(m, n, L) - (m - 1) * n
        /\ \A i \in 1..Len(ss[m]) : i <= n /\ ss[m][i] = rows[(m - 1) * n + i]
    <3>1. rows \in Seq(S) /\ rows # <<>> /\ n \in Nat \ {0} /\ m \in 1..CeilDiv(Len(rows), n)
      BY <1>1 DEF C, L
    <3>2. Piece(Split(rows, n)[m], rows, n, m, S)
      BY ONLY <3>1, PieceFacts
    <3>3. Piece(ss[m], rows, n, m, S)
      BY <3>2 DEF ss
    <3> QED
      BY <3>3 DEF L, Piece
  <2>2. ASSUME NEW i \in 1..Len(ss[m]) PROVE i \in 1..n /\ (m - 1) * n + i \in 1..L
    <3>1. /\ Len(ss[m]) = Cut(m, n, L) - (m - 1) * n /\ Cut(m, n, L) \in Nat
          /\ (m - 1) * n \in Nat /\ Cut(m, n, L) <= L /\ i <= n /\ L \in Nat
      BY <1>1, <2>1
    <3>2. i \in Nat /\ i >= 1 /\ i <= Cut(m, n, L) - (m - 1) * n
      BY <3>1
    <3> QED
      BY <3>1, <3>2
  <2> QED
    BY <2>1, <2>2
<1>4. DOMAIN ss = 1..C
  BY DEF Split
<1> HIDE DEF C, ss
<1>5. ss \in Seq(Seq(S)) /\ Len(ss) = C
  <2>1. ss \in [1..C -> Seq(S)]
    <3>1. ss = [m \in 1..C |-> ss[m]]
      BY <1>4 DEF ss, Split
    <3> QED
      BY <1>3, <3>1
  <2> QED
    BY <1>2, <2>1
<1>6. \A o, p \in Nat : \A i, j \in 1..n : o * n + i = p * n + j => o = p /\ i = j
  BY Cells
<1>7. ASSUME NEW x \in 1..C, NEW y \in 1..C, NEW i \in 1..Len(ss[x]),
             NEW j \in 1..Len(ss[y]), ss[x][i] = ss[y][j]
      PROVE  x = y /\ i = j
  <2>1. /\ i \in 1..n /\ j \in 1..n
        /\ rows[(x - 1) * n + i] = rows[(y - 1) * n + j]
        /\ (x - 1) * n + i \in 1..L /\ (y - 1) * n + j \in 1..L
    BY <1>3, <1>7
  <2>2. (x - 1) * n + i = (y - 1) * n + j
    BY <2>1 DEF Lists, L
  <2>3. x - 1 \in Nat /\ y - 1 \in Nat
    BY <1>2
  <2>4. x - 1 = y - 1 /\ i = j
    BY <1>6, <2>1, <2>2, <2>3
  <2> QED
    BY <1>2, <2>4
<1>8. ASSUME NEW x \in S PROVE \E m \in 1..C : \E i \in 1..Len(ss[m]) : ss[m][i] = x
  <2>1. PICK q \in 1..L : rows[q] = x
    BY DEF Lists, L
  <2>2. q \in 1..(C * n)
    BY <1>1, <1>2
  <2>3. PICK o \in 0..(C - 1), i \in 1..n : q = o * n + i
    <3>1. C \in Nat /\ n \in Nat \ {0}
      BY <1>2
    <3> QED
      <4>1. \A y \in 1..(C * n) : \E o \in 0..(C - 1), i \in 1..n : y = o * n + i
        BY ONLY <3>1, Cells
      <4> QED
        BY <2>2, <4>1
  <2>4. o + 1 \in 1..C /\ (o + 1) - 1 = o
    BY <1>2
  <2>5. /\ Len(ss[o + 1]) = Cut(o + 1, n, L) - o * n /\ o * n \in Nat
        /\ Cut(o + 1, n, L) \in Nat
        /\ \A k \in 1..Len(ss[o + 1]) : ss[o + 1][k] = rows[o * n + k]
    <3>1. o + 1 \in 1..C /\ (o + 1) - 1 = o
      BY <2>4
    <3> QED
      BY <1>3, <3>1
  <2>6. q <= Cut(o + 1, n, L)
    <3>1. (o + 1) * n = o * n + n
      BY <1>2
    <3> QED
      BY <1>1, <2>3, <2>5, <3>1 DEF Cut
  <2>7. i \in 1..Len(ss[o + 1])
    BY <2>3, <2>5, <2>6
  <2>8. ss[o + 1][i] = x
    BY <2>1, <2>3, <2>5, <2>7
  <2> QED
    BY <2>4, <2>7, <2>8
<1>9. Parts(ss, S)
  BY <1>5, <1>7, <1>8 DEF Parts
<1> DEFINE P == {t \in 0..C : FlatTo(ss, t) = SubSeq(rows, 1, Cut(t, n, L))}
<1>10. /\ FlatTo(ss, 0) = <<>>
       /\ FlatTo(ss, C) = FlattenSeq(ss)
       /\ \A t \in 0..(C - 1) : FlatTo(ss, t + 1) = FlatTo(ss, t) \o ss[t + 1]
  BY <1>5, FlatToFacts
<1>11. 0 \in P
  <2>1. Cut(0, n, L) = 0
    <3>1. 0 * n = 0
      OBVIOUS
    <3> QED
      BY <1>1, <3>1 DEF Cut
  <2>2. SubSeq(rows, 1, 0) = <<>>
    BY <1>1
  <2>3. FlatTo(ss, 0) = SubSeq(rows, 1, Cut(0, n, L))
    BY <1>10, <2>1, <2>2
  <2> QED
    BY <1>2, <2>3
<1>12. ASSUME NEW t \in 0..(C - 1), t \in P PROVE t + 1 \in P
  <2>1. t + 1 \in 1..C /\ (t + 1) - 1 = t /\ t + 1 \in 0..C
    BY <1>2
  <2>2. /\ ss[t + 1] = SubSeq(rows, t * n + 1, Cut(t + 1, n, L))
        /\ Cut(t, n, L) = t * n /\ t * n \in Nat /\ Cut(t + 1, n, L) \in Nat
        /\ t * n < Cut(t + 1, n, L) /\ Cut(t + 1, n, L) <= L
    <3>1. t + 1 \in 1..C /\ (t + 1) - 1 = t
      BY <2>1
    <3> QED
      BY <1>3, <3>1
  <2>3. SubSeq(rows, 1, t * n) \o SubSeq(rows, t * n + 1, Cut(t + 1, n, L))
          = SubSeq(rows, 1, Cut(t + 1, n, L))
    <3> DEFINE a == t * n
               e == Cut(t + 1, n, L)
    <3>1. rows \in Seq(S) /\ a \in Nat /\ e \in Nat /\ a <= e /\ e <= Len(rows)
      BY <1>1, <2>2
    <3> HIDE DEF a, e
    <3>2. SubSeq(rows, 1, a) \o SubSeq(rows, a + 1, e) = SubSeq(rows, 1, e)
      BY ONLY <3>1, SubSeqJoin
    <3> QED
      BY <3>2 DEF a, e
  <2>4. FlatTo(ss, t) = SubSeq(rows, 1, t * n)
    BY <1>12, <2>2
  <2>5. FlatTo(ss, t + 1) = SubSeq(rows, 1, Cut(t + 1, n, L))
    BY <1>10, <2>2, <2>3, <2>4
  <2> QED
    BY <2>1, <2>5
<1>13. C \in P
  <2> HIDE DEF P
  <2>1. \A t \in 0..C : t \in P
    BY <1>2, <1>11, <1>12, UpTo
  <2> QED
    BY <1>2, <2>1
<1>14. Cut(C, n, L) = L
  <2>1. C * n \in Nat
    BY <1>2
  <2> QED
    BY <1>1, <1>2, <2>1 DEF Cut
<1>15. SubSeq(rows, 1, L) = rows
  BY <1>1
<1>16. FlattenSeq(ss) = rows
  BY <1>10, <1>13, <1>14, <1>15
<1> QED
  BY <1>5, <1>9, <1>16 DEF ss, C

\* The rows at the places that some parts hold.
LEMMA RowsAtParts ==
  ASSUME NEW S, NEW rows, Lists(rows, S), NEW ps, Parts(ps, 1..Len(rows))
  PROVE  Parts(RowsAt(rows, ps), S) /\ Len(RowsAt(rows, ps)) = Len(ps)
<1> DEFINE N == Len(ps)
           L == Len(rows)
           ms == RowsAt(rows, ps)
<1>1. /\ ps \in Seq(Seq(1..L)) /\ N \in Nat /\ DOMAIN ps = 1..N
      /\ rows \in Seq(S) /\ L \in Nat /\ \A i \in 1..L : rows[i] \in S
  <2>1. ps \in Seq(Seq(1..L)) /\ rows \in Seq(S)
    BY DEF Parts, Lists
  <2> QED
    BY <2>1
<1>2. \A m \in 1..N : ps[m] \in Seq(1..L) /\ DOMAIN ps[m] = 1..Len(ps[m])
                      /\ Len(ps[m]) \in Nat /\ \A i \in 1..Len(ps[m]) : ps[m][i] \in 1..L
  <2>1. \A m \in 1..N : ps[m] \in Seq(1..L)
    BY <1>1
  <2>2. ASSUME NEW m \in 1..N
        PROVE  DOMAIN ps[m] = 1..Len(ps[m])
               /\ Len(ps[m]) \in Nat /\ \A i \in 1..Len(ps[m]) : ps[m][i] \in 1..L
    BY <2>1
  <2> QED
    BY <2>1, <2>2
<1>3. ms = [m \in 1..N |-> [i \in DOMAIN ps[m] |-> rows[ps[m][i]]]]
  BY <1>1 DEF RowsAt
<1> HIDE DEF ms, N, L
<1>4. ASSUME NEW m \in 1..N
      PROVE  /\ ms[m] \in Seq(S) /\ Len(ms[m]) = Len(ps[m])
             /\ \A i \in 1..Len(ps[m]) : ms[m][i] = rows[ps[m][i]]
  <2>1. ms[m] = [i \in 1..Len(ps[m]) |-> rows[ps[m][i]]]
    BY <1>2, <1>3
  <2>2. ms[m] \in [1..Len(ps[m]) -> S]
    BY <1>1, <1>2, <2>1
  <2>3. ms[m] \in Seq(S) /\ Len(ms[m]) = Len(ps[m])
    BY SMTT(30), <1>2, <2>2
  <2> QED
    BY <2>1, <2>3
<1>5. ms \in Seq(Seq(S)) /\ Len(ms) = N
  <2>1. ms \in [1..N -> Seq(S)]
    <3>1. DOMAIN ms = 1..N /\ ms = [m \in 1..N |-> ms[m]]
      BY <1>3
    <3> QED
      BY <1>4, <3>1
  <2> QED
    BY <1>1, <2>1
<1>6. ASSUME NEW m \in 1..N, NEW n \in 1..N, NEW i \in 1..Len(ms[m]),
             NEW j \in 1..Len(ms[n]), ms[m][i] = ms[n][j]
      PROVE  m = n /\ i = j
  <2>1. i \in 1..Len(ps[m]) /\ j \in 1..Len(ps[n]) /\ rows[ps[m][i]] = rows[ps[n][j]]
        /\ ps[m][i] \in 1..L /\ ps[n][j] \in 1..L
    BY <1>2, <1>4, <1>6
  <2>2. ps[m][i] = ps[n][j]
    BY <2>1 DEF Lists, L
  <2> QED
    BY <2>1, <2>2 DEF Parts, N, L
<1>7. ASSUME NEW x \in S PROVE \E m \in 1..N : \E i \in 1..Len(ms[m]) : ms[m][i] = x
  <2>1. PICK q \in 1..L : rows[q] = x
    BY DEF Lists, L
  <2>2. PICK m \in 1..N : \E i \in 1..Len(ps[m]) : ps[m][i] = q
    BY DEF Parts, N, L
  <2>3. PICK i \in 1..Len(ps[m]) : ps[m][i] = q
    BY <2>2
  <2>4. i \in 1..Len(ms[m]) /\ ms[m][i] = x
    BY <1>4, <2>1, <2>3
  <2> QED
    BY <2>4
<1> QED
  BY <1>5, <1>6, <1>7 DEF Parts, ms, N

\* A rank wants at least one micro-batch.
LEMMA WantedFacts ==
  ASSUME NEW lens \in Seq(Nat \ {0}), lens # <<>>, NEW t \in Nat \ {0}
  PROVE  /\ MicroBatchesWanted(lens, t) \in Nat \ {0}
         /\ MicroBatchesWanted(lens, t) <= Len(lens)
<1>1. Len(lens) \in Nat \ {0} /\ DOMAIN lens = 1..Len(lens) /\ 1 \in DOMAIN lens
  OBVIOUS
<1>2. Total(lens, DOMAIN lens) \in Nat
  <2>1. lens \in Seq(Nat)
    OBVIOUS
  <2> QED
    BY <2>1, TotalType
<1>3. Total(lens, DOMAIN lens) > 0
  <2>1. DOMAIN lens \in SUBSET DOMAIN lens /\ DOMAIN lens # {}
    BY <1>1
  <2> QED
    BY <2>1, TotalPositive
<1>4. CeilDiv(Total(lens, DOMAIN lens), t) \in Nat \ {0}
  <2> DEFINE w == Total(lens, DOMAIN lens)
  <2>1. w \in Nat \ {0}
    BY <1>2, <1>3
  <2> HIDE DEF w
  <2>2. CeilDiv(w, t) \in Nat \ {0}
    BY <2>1, CeilFacts
  <2> QED
    BY <2>2 DEF w
<1> QED
  BY <1>1, <1>4 DEF MicroBatchesWanted

\* A pass is laid out: each rank has all of its rows once, and as many
\* micro-batches as the others.
Laid(p, rows) ==
  /\ \A r \in RankSet : /\ Parts(p[r], ToSet(rows[r]))
                        /\ ~setting.dynamic => FlattenSeq(p[r]) = rows[r]
  /\ \A r, q \in RankSet : Len(p[r]) = Len(p[q])

\* Rows that can be laid out.
Sendable(rows) ==
  /\ \A r \in RankSet : /\ rows[r] \in Seq(Samples) /\ rows[r] # <<>>
                        /\ Lists(rows[r], ToSet(rows[r]))
  /\ \A r, q \in RankSet : Len(rows[r]) = Len(rows[q])

\* What the all_reduce makes of what the ranks ask for: as many micro-batches as
\* any of them wants, and no more than any has rows.
Agreed(n, order, rows) ==
  \A r \in RankSet :
    /\ MicroBatchesWanted(LengthsOf(order, rows[r]), setting.maxTokens) <= n
    /\ n <= Len(rows[r])

\* The pass of n micro-batches by tokens, or of fixed ones.
PlanOf(n, order, rows) ==
  [r \in RankSet |-> IF setting.dynamic
                     THEN RowsAt(rows[r], MicroBatches(LengthsOf(order, rows[r]), n))
                     ELSE Split(rows[r], setting.microBatch)]

\* The lengths of the rows of a rank.
LEMMA LengthsFacts ==
  ASSUME NEW order \in [Samples -> Samples],
         input.len \in [Samples -> Nat \ {0}], NEW rows, Sendable(rows),
         NEW r \in RankSet
  PROVE  LET l == LengthsOf(order, rows[r]) IN
         /\ l \in Seq(Nat \ {0}) /\ Len(l) = Len(rows[r]) /\ Len(l) > 0 /\ l # <<>>
         /\ \A i \in 1..Len(l) : l[i] = input.len[order[rows[r][i]]]
<1> DEFINE q == rows[r]
           l == LengthsOf(order, q)
<1>1. rows[r] \in Seq(Samples) /\ rows[r] # <<>>
  BY DEF Sendable
<1>3. DOMAIN q = 1..Len(q) /\ Len(q) \in Nat /\ Len(q) > 0 /\ \A i \in 1..Len(q) : q[i] \in Samples
  BY <1>1
<1>4. l = [i \in 1..Len(q) |-> input.len[order[q[i]]]]
  BY <1>3 DEF LengthsOf
<1>5. l \in [1..Len(q) -> Nat \ {0}]
  BY <1>3, <1>4
<1>8. \A i \in 1..Len(q) : l[i] = input.len[order[q[i]]]
  BY <1>4
<1> HIDE DEF l
<1>6. l \in Seq(Nat \ {0}) /\ Len(l) = Len(q)
  <2> HIDE DEF q
  <2> QED
    BY <1>3, <1>5
<1>7. l # <<>>
  <2> HIDE DEF q
  <2> QED
    BY <1>3, <1>6
<1> QED
  BY <1>3, <1>6, <1>7, <1>8 DEF l

\* A pass by tokens has the number of micro-batches that the ranks agree on.
LEMMA PlanAgreed ==
  ASSUME setting \in Settings, NEW order \in [Samples -> Samples],
         input.len \in [Samples -> Nat \ {0}], NEW rows, Sendable(rows)
  PROVE  \E n \in Nat \ {0} : Agreed(n, order, rows) /\ Plan(order, rows) = PlanOf(n, order, rows)
<1> DEFINE lens == [r \in RankSet |-> LengthsOf(order, rows[r])]
           want == [r \in RankSet |-> MicroBatchesWanted(lens[r], setting.maxTokens)]
           wanted == {want[r] : r \in RankSet}
           n == CHOOSE x \in wanted : \A y \in wanted : y <= x
           p == Plan(order, rows)
<1>1. /\ setting.dynamic \in BOOLEAN
      /\ setting.maxTokens \in Nat \ {0} /\ setting.microBatch \in Nat \ {0}
  BY SettingFacts
<1>2. Ranks \in Nat \ {0} /\ RankSet = 1..Ranks /\ 1 \in RankSet
  BY SizesFacts DEF RankSet
<1>3. ASSUME NEW r \in RankSet
      PROVE  lens[r] \in Seq(Nat \ {0}) /\ Len(lens[r]) = Len(rows[r]) /\ lens[r] # <<>>
  <2>1. lens[r] = LengthsOf(order, rows[r])
    OBVIOUS
  <2> QED
    BY <2>1, LengthsFacts
<1>4. p = PlanOf(n, order, rows)
  <2> DEFINE w2 == {MicroBatchesWanted(LengthsOf(order, rows[r]), setting.maxTokens) :
                      r \in RankSet}
             n2 == CHOOSE x \in w2 : \A y \in w2 : y <= x
  <2>1. p = PlanOf(n2, order, rows)
    BY DEF Plan, PlanOf
  <2>2. wanted = w2
    OBVIOUS
  <2>3. n2 = n
    <3> HIDE DEF wanted, w2
    <3> QED
      BY <2>2
  <2> HIDE DEF n2, n, p
  <2> QED
    BY <2>1, <2>3
<1>8. \A r \in RankSet : want[r] = MicroBatchesWanted(LengthsOf(order, rows[r]), setting.maxTokens)
  OBVIOUS
<1> HIDE DEF lens
<1>5. n \in Nat \ {0} /\ \A r \in RankSet : want[r] <= n /\ n <= Len(rows[r])
  <2>1. \A r \in RankSet : want[r] \in Nat \ {0} /\ want[r] <= Len(rows[r])
    BY <1>1, <1>3, WantedFacts
  <2>2. IsFiniteSet(wanted)
    <3>1. IsFiniteSet(RankSet)
      BY <1>2, FS_Interval
    <3>2. DOMAIN want = RankSet
      OBVIOUS
    <3> HIDE DEF want
    <3> QED
      BY <3>1, <3>2, ImageFinite
  <2>3. wanted \in SUBSET Nat /\ wanted # {} /\ \A x \in wanted : x \in Nat \ {0}
    <3> HIDE DEF want
    <3> QED
      BY <1>2, <2>1
  <2>6. (\A r \in RankSet : want[r] \in wanted) /\ \A x \in wanted : \E r \in RankSet : x = want[r]
    OBVIOUS
  <2> HIDE DEF wanted
  <2>4. \E x \in wanted : \A y \in wanted : y <= x
    BY <2>2, <2>3, GreatestExists
  <2>5. n \in wanted /\ \A y \in wanted : y <= n
    BY <2>4
  <2> HIDE DEF n, want
  <2>7. n \in Nat \ {0}
    BY <2>3, <2>5
  <2>8. ASSUME NEW r \in RankSet PROVE want[r] <= n /\ n <= Len(rows[r])
    <3>1. want[r] <= n
      BY <2>5, <2>6
    <3>2. PICK q \in RankSet : n = want[q]
      BY <2>5, <2>6
    <3>3. Len(rows[q]) = Len(rows[r])
      BY DEF Sendable
    <3> QED
      BY <2>1, <3>1, <3>2, <3>3
  <2> QED
    BY <2>7, <2>8
<1> HIDE DEF n, p, want
<1>6. Agreed(n, order, rows)
  BY <1>5, <1>8 DEF Agreed
<1> QED
  BY <1>4, <1>5, <1>6 DEF p

\* Plan lays out all rows of each rank, in as many micro-batches on all.
LEMMA PlanFacts ==
  ASSUME setting \in Settings, NEW order \in [Samples -> Samples],
         input.len \in [Samples -> Nat \ {0}], NEW rows, Sendable(rows)
  PROVE  Laid(Plan(order, rows), rows)
<1> DEFINE lens == [r \in RankSet |-> LengthsOf(order, rows[r])]
           p == Plan(order, rows)
<1>1. setting.dynamic \in BOOLEAN /\ setting.microBatch \in Nat \ {0}
  BY SettingFacts
<1>3. ASSUME NEW r \in RankSet
      PROVE  lens[r] \in Seq(Nat \ {0}) /\ Len(lens[r]) = Len(rows[r]) /\ Len(lens[r]) > 0
  <2>1. lens[r] = LengthsOf(order, rows[r])
    OBVIOUS
  <2> QED
    BY <2>1, LengthsFacts
<1>2. PICK n \in Nat \ {0} : p = PlanOf(n, order, rows)
  BY PlanAgreed
<1>4. p = [r \in RankSet |-> IF setting.dynamic
                        THEN RowsAt(rows[r], MicroBatches(lens[r], n))
                        ELSE Split(rows[r], setting.microBatch)]
  <2>1. \A r \in RankSet : lens[r] = LengthsOf(order, rows[r])
    OBVIOUS
  <2> HIDE DEF lens, p
  <2> QED
    BY <1>2, <2>1 DEF PlanOf
<1> HIDE DEF lens, p
<1>6. CASE setting.dynamic
  <2>1. ASSUME NEW r \in RankSet PROVE Parts(p[r], ToSet(rows[r])) /\ Len(p[r]) = n
    <3>1. p[r] = RowsAt(rows[r], MicroBatches(lens[r], n))
      BY <1>4, <1>6
    <3>2. Parts(MicroBatches(lens[r], n), 1..Len(lens[r]))
          /\ Len(MicroBatches(lens[r], n)) = n
      BY <1>3, MicroBatchesFacts
    <3>3. Lists(rows[r], ToSet(rows[r])) /\ Len(lens[r]) = Len(rows[r])
      BY <1>3 DEF Sendable
    <3> QED
      BY <3>1, <3>2, <3>3, RowsAtParts
  <2> QED
    BY <1>6, <2>1 DEF Laid, p
<1>7. CASE ~setting.dynamic
  <2>1. ASSUME NEW r \in RankSet
        PROVE  /\ Parts(p[r], ToSet(rows[r])) /\ FlattenSeq(p[r]) = rows[r]
               /\ Len(p[r]) = CeilDiv(Len(rows[r]), setting.microBatch)
    <3>1. p[r] = Split(rows[r], setting.microBatch)
      BY <1>4, <1>7
    <3>2. Lists(rows[r], ToSet(rows[r])) /\ rows[r] # <<>>
      BY DEF Sendable
    <3> QED
      BY <1>1, <3>1, <3>2, SplitFacts
  <2>2. \A r, q \in RankSet : Len(rows[r]) = Len(rows[q])
    BY DEF Sendable
  <2>3. \A r, q \in RankSet : Len(p[r]) = Len(p[q])
    BY <2>1, <2>2
  <2> QED
    BY <2>1, <2>3 DEF Laid, p
<1> QED
  BY <1>1, <1>6, <1>7

RowOf(r, i) == (r - 1) * PerRank + i

\* Every row is sent to one rank.
LEMMA RowOfFacts ==
  /\ PerRank \in Nat \ {0} /\ RankSet = 1..Ranks /\ Ranks \in Nat \ {0}
  /\ \A r \in RankSet, i \in 1..PerRank : RowOf(r, i) \in Samples
  /\ \A r, q \in RankSet : \A i, j \in 1..PerRank :
       RowOf(r, i) = RowOf(q, j) => r = q /\ i = j
  /\ \A s \in Samples : \E r \in RankSet, i \in 1..PerRank : s = RowOf(r, i)
<1>1. /\ PerRank \in Nat \ {0} /\ RankSet = 1..Ranks /\ Ranks \in Nat \ {0}
      /\ Samples = 1..(Ranks * PerRank) /\ Ranks \in Nat
  <2>1. PerRank * Ranks = Prompts * Rollouts /\ PerRank \in Nat \ {0} /\ Ranks \in Nat \ {0}
    BY SizesFacts
  <2> HIDE DEF PerRank
  <2>2. PerRank * Ranks = Ranks * PerRank
    BY <2>1
  <2> QED
    BY <2>1, <2>2 DEF Samples, RankSet
<1> HIDE DEF PerRank
<1>2. /\ \A o \in 0..(Ranks - 1), i \in 1..PerRank : o * PerRank + i \in 1..(Ranks * PerRank)
      /\ \A o, p \in Nat : \A i, j \in 1..PerRank :
           o * PerRank + i = p * PerRank + j => o = p /\ i = j
      /\ \A n \in 1..(Ranks * PerRank) :
           \E o \in 0..(Ranks - 1), i \in 1..PerRank : n = o * PerRank + i
  <2>1. PerRank \in Nat \ {0} /\ Ranks \in Nat
    BY <1>1
  <2> QED
    BY ONLY <2>1, Cells
<1>3. \A r \in RankSet : r - 1 \in 0..(Ranks - 1) /\ r - 1 \in Nat
  BY <1>1
<1>4. ASSUME NEW r \in RankSet, NEW i \in 1..PerRank PROVE RowOf(r, i) \in Samples
  BY <1>1, <1>2, <1>3 DEF RowOf
<1>5. ASSUME NEW r \in RankSet, NEW q \in RankSet, NEW i \in 1..PerRank,
             NEW j \in 1..PerRank, RowOf(r, i) = RowOf(q, j)
      PROVE  r = q /\ i = j
  <2>1. r - 1 = q - 1 /\ i = j
    BY <1>2, <1>3, <1>5 DEF RowOf
  <2> QED
    BY <1>1, <2>1
<1>6. ASSUME NEW s \in Samples
      PROVE  \E r \in RankSet, i \in 1..PerRank : s = RowOf(r, i)
  <2>1. PICK o \in 0..(Ranks - 1), i \in 1..PerRank : s = o * PerRank + i
    BY <1>1, <1>2
  <2>2. o + 1 \in RankSet /\ (o + 1) - 1 = o
    BY <1>1
  <2>3. s = RowOf(o + 1, i)
    BY <2>1, <2>2 DEF RowOf
  <2> QED
    BY <2>2, <2>3
<1> QED
  BY <1>1, <1>4, <1>5, <1>6

\* The rows of a rank, one after the other.
LEMMA RowsOfFacts ==
  ASSUME NEW r \in RankSet
  PROVE  /\ RowsOf(r) \in Seq(Samples) /\ Len(RowsOf(r)) = PerRank /\ RowsOf(r) # <<>>
         /\ \A i \in 1..PerRank : RowsOf(r)[i] = RowOf(r, i)
         /\ Lists(RowsOf(r), ToSet(RowsOf(r)))
         /\ ToSet(RowsOf(r)) = {RowOf(r, i) : i \in 1..PerRank}
<1> DEFINE q == RowsOf(r)
<1>1. PerRank \in Nat \ {0} /\ \A i \in 1..PerRank : RowOf(r, i) \in Samples
  BY RowOfFacts
<1>2. q = [i \in 1..PerRank |-> RowOf(r, i)]
  BY DEF RowsOf, RowOf
<1> HIDE DEF q, PerRank
<1>3. q \in [1..PerRank -> Samples]
  BY <1>1, <1>2
<1>4. q \in Seq(Samples) /\ Len(q) = PerRank /\ q # <<>>
  BY <1>1, <1>3
<1>5. DOMAIN q = 1..PerRank /\ \A i \in 1..PerRank : q[i] = RowOf(r, i)
  BY <1>2
<1>6. ToSet(q) = {RowOf(r, i) : i \in 1..PerRank}
  BY <1>5 DEF ToSet
<1>7. Lists(q, ToSet(q))
  <2>1. q \in Seq(ToSet(q))
    <3>1. q \in [1..PerRank -> ToSet(q)]
      BY <1>2, <1>5, <1>6
    <3> QED
      BY <1>1, <3>1
  <2>2. \A i, j \in 1..Len(q) : q[i] = q[j] => i = j
    BY SMTT(30), <1>4, <1>5, RowOfFacts
  <2>3. \A x \in ToSet(q) : \E i \in 1..Len(q) : q[i] = x
    BY <1>4, <1>5, <1>6
  <2> QED
    BY <2>1, <2>2, <2>3 DEF Lists
<1> QED
  BY <1>4, <1>5, <1>6, <1>7 DEF q

RankRows == [r \in RankSet |-> RowsOf(r)]
MiniRows(m) == [r \in RankSet |-> MiniBatch(r, m)]

\* All rows of each rank can be laid out.
LEMMA RankRowsSendable == Sendable(RankRows)
<1>1. \A r \in RankSet : RankRows[r] = RowsOf(r)
  BY DEF RankRows
<1> QED
  BY <1>1, RowsOfFacts DEF Sendable

\* The rows of the mini-batches before the m-th.
Behind(r, m) == {RowOf(r, i) : i \in 1..Cut(m, setting.miniBatch, PerRank)}

\* A mini-batch holds the rows of a rank that follow those of the ones before.
LEMMA MiniBatchFacts ==
  ASSUME setting \in Settings, NEW r \in RankSet, NEW m \in 0..(MiniBatches - 1)
  PROVE  /\ MiniBatch(r, m) \in Seq(Samples) /\ MiniBatch(r, m) # <<>>
         /\ Len(MiniBatch(r, m)) = Cut(m + 1, setting.miniBatch, PerRank)
                                   - m * setting.miniBatch
         /\ Lists(MiniBatch(r, m), ToSet(MiniBatch(r, m)))
         /\ Behind(r, m + 1) = Behind(r, m) \cup ToSet(MiniBatch(r, m))
         /\ Behind(r, m) \cap ToSet(MiniBatch(r, m)) = {}
<1> DEFINE n == setting.miniBatch
           L == PerRank
           rows == RowsOf(r)
           p == MiniBatch(r, m)
           a == m * n
           e == Cut(m + 1, n, L)
<1>1. n \in Nat \ {0}
  BY SettingFacts
<1>2. /\ rows \in Seq(Samples) /\ Len(rows) = L /\ rows # <<>> /\ L \in Nat \ {0}
      /\ \A i \in 1..L : rows[i] = RowOf(r, i)
  BY RowsOfFacts, RowOfFacts
<1>3. /\ MiniBatches = CeilDiv(L, n) /\ CeilDiv(L, n) \in Nat \ {0}
  <2> HIDE DEF n, L
  <2>1. CeilDiv(L, n) \in Nat \ {0}
    BY <1>1, <1>2, CeilFacts
  <2> QED
    BY <2>1 DEF MiniBatches, n, L
<1>4. m + 1 \in 1..CeilDiv(Len(rows), n) /\ (m + 1) - 1 = m
  <2> HIDE DEF n, L, rows
  <2> QED
    BY <1>2, <1>3
<1>5. Piece(p, rows, n, m + 1, Samples)
  <2>1. p = Split(rows, n)[m + 1]
    BY DEF MiniBatch
  <2> HIDE DEF n, L, rows, p
  <2>2. Piece(Split(rows, n)[m + 1], rows, n, m + 1, Samples)
    BY <1>1, <1>2, <1>4, PieceFacts
  <2> QED
    BY <2>1, <2>2
<1> HIDE DEF n, L, rows, p
<1>6. /\ p \in Seq(Samples) /\ a \in Nat /\ a < L
      /\ e \in Nat /\ a < e /\ e <= L /\ Cut(m, n, L) = a
      /\ Len(p) = e - a
      /\ \A i \in 1..Len(p) : p[i] = rows[a + i]
  BY <1>2, <1>4, <1>5 DEF Piece
<1> HIDE DEF a, e
<1>7. \A i \in 1..(e - a) : a + i \in 1..L /\ p[i] = RowOf(r, a + i)
  <2>1. ASSUME NEW i \in 1..(e - a) PROVE a + i \in 1..L
    BY <1>2, <1>6
  <2> QED
    BY <1>2, <1>6, <2>1
<1>8. DOMAIN p = 1..(e - a) /\ e - a \in Nat /\ p # <<>>
  BY <1>6
<1>9. ToSet(p) = {RowOf(r, a + i) : i \in 1..(e - a)}
  BY <1>7, <1>8 DEF ToSet
<1>10. Lists(p, ToSet(p))
  <2>1. p \in Seq(ToSet(p))
    <3>1. \A i \in 1..(e - a) : p[i] \in ToSet(p)
      BY <1>8 DEF ToSet
    <3>2. p \in [1..(e - a) -> ToSet(p)]
      <4>1. p = [i \in 1..(e - a) |-> p[i]]
        BY <1>6, <1>8
      <4> QED
        BY <3>1, <4>1
    <3> QED
      BY <1>8, <3>2
  <2>2. ASSUME NEW i \in 1..(e - a), NEW j \in 1..(e - a), p[i] = p[j] PROVE i = j
    <3>1. a + i = a + j
      BY <1>7, <2>2, RowOfFacts DEF L
    <3> QED
      BY <1>6, <3>1
  <2>3. \A x \in ToSet(p) : \E i \in 1..(e - a) : p[i] = x
    BY <1>8 DEF ToSet
  <2> QED
    BY <1>6, <2>1, <2>2, <2>3 DEF Lists
<1>11. Behind(r, m) = {RowOf(r, i) : i \in 1..a} /\ Behind(r, m + 1) = {RowOf(r, i) : i \in 1..e}
  BY <1>6 DEF Behind, e, n, L
<1>12. Behind(r, m + 1) = Behind(r, m) \cup ToSet(p)
  <2>1. \A i \in 1..a : i \in 1..e
    BY <1>6
  <2>2. \A i \in 1..(e - a) : a + i \in 1..e
    BY <1>6
  <2>3. \A i \in 1..e : i \in 1..a \/ \E j \in 1..(e - a) : i = a + j
    <3>1. ASSUME NEW i \in 1..e, i \notin 1..a PROVE i - a \in 1..(e - a) /\ i = a + (i - a)
      BY <1>6, <3>1
    <3> QED
      BY <3>1
  <2> QED
    BY <1>9, <1>11, <2>1, <2>2, <2>3
<1>13. Behind(r, m) \cap ToSet(p) = {}
  <2> SUFFICES ASSUME NEW i \in 1..a, NEW j \in 1..(e - a), RowOf(r, i) = RowOf(r, a + j)
               PROVE  FALSE
    BY <1>9, <1>11
  <2>1. i \in 1..L /\ a + j \in 1..L /\ i # a + j
    BY <1>2, <1>6
  <2> QED
    BY <2>1, RowOfFacts DEF L
<1> QED
  BY <1>6, <1>8, <1>10, <1>12, <1>13 DEF p, e, a, n, L

\* The rows of a mini-batch can be laid out.
LEMMA MiniRowsSendable ==
  ASSUME setting \in Settings, NEW m \in 0..(MiniBatches - 1)
  PROVE  Sendable(MiniRows(m))
<1>1. \A r \in RankSet : MiniRows(m)[r] = MiniBatch(r, m)
  BY DEF MiniRows
<1> QED
  BY <1>1, MiniBatchFacts DEF Sendable

\* No mini-batch yet, and all of them.
LEMMA BehindEnds ==
  ASSUME setting \in Settings, NEW r \in RankSet
  PROVE  /\ Behind(r, 0) = {} /\ Behind(r, MiniBatches) = ToSet(RowsOf(r))
         /\ MiniBatches \in Nat \ {0}
<1> DEFINE n == setting.miniBatch
           L == PerRank
<1>1. n \in Nat \ {0} /\ L \in Nat \ {0}
  BY SettingFacts, RowOfFacts
<1> HIDE DEF n, L
<1>2. CeilDiv(L, n) \in Nat \ {0} /\ L <= CeilDiv(L, n) * n
  BY <1>1, CeilFacts
<1>3. MiniBatches = CeilDiv(L, n)
  BY DEF MiniBatches, n, L
<1>4. Cut(0, n, L) = 0
  <2>1. 0 * n = 0
    BY <1>1
  <2> QED
    BY <1>1, <2>1 DEF Cut
<1>5. Cut(CeilDiv(L, n), n, L) = L
  <2> DEFINE C == CeilDiv(L, n)
  <2>1. C * n \in Nat /\ L <= C * n
    <3>1. C \in Nat /\ L <= C * n
      BY <1>2
    <3> HIDE DEF C
    <3> QED
      BY <1>1, <3>1
  <2> HIDE DEF C
  <2>2. Cut(C, n, L) = L
    BY <1>1, <2>1 DEF Cut
  <2> QED
    BY <2>2 DEF C
<1>6. Behind(r, 0) = {RowOf(r, i) : i \in 1..0}
  BY <1>4 DEF Behind, n, L
<1>7. Behind(r, MiniBatches) = {RowOf(r, i) : i \in 1..L}
  BY <1>3, <1>5 DEF Behind, n, L
<1>8. ToSet(RowsOf(r)) = {RowOf(r, i) : i \in 1..L}
  BY RowsOfFacts DEF L
<1> QED
  BY <1>2, <1>3, <1>6, <1>7, <1>8

\* What a forward pass by the weights of before the step says of a row.
Before0(i) == [sample |-> batch[i], version |-> 0]
Outputs(s) == [i \in 1..Len(s) |-> Before0(s[i])]

\* The log probabilities of a rank, put back into the order of its rows.
Restored(r) ==
  IF setting.dynamic
  THEN Restore(outs[r],
               [m \in DOMAIN plan[r] |->
                  [i \in DOMAIN plan[r][m] |->
                     plan[r][m][i] - (r - 1) * PerRank]])
  ELSE outs[r]

\* A map over the sequences is one over what they flatten to.
LEMMA FlattenMapped ==
  ASSUME NEW S, NEW ss \in Seq(Seq(S)), NEW g, NEW T,
         \A x \in S : g[x] \in T
  PROVE  FlattenSeq(AllMapped(ss, g)) = Mapped(FlattenSeq(ss), g)
<1> DEFINE ms == AllMapped(ss, g)
<1>1. /\ ms \in Seq(Seq(T)) /\ Len(ms) = Len(ss)
      /\ \A t \in 0..Len(ss) : FlatTo(ms, t) = Mapped(FlatTo(ss, t), g)
  BY FlatMap
<1> HIDE DEF ms
<1>2. Len(ss) \in 0..Len(ss)
  OBVIOUS
<1>3. FlatTo(ss, Len(ss)) = FlattenSeq(ss)
  BY FlatToFacts
<1>4. FlatTo(ms, Len(ms)) = FlattenSeq(ms)
  BY <1>1, FlatToFacts
<1> QED
  BY <1>1, <1>2, <1>3, <1>4 DEF ms

\* They are those of the rank's rows, wherever the micro-batches took them.
LEMMA RestoredFacts ==
  ASSUME BatchInv, Laid(plan, RankRows), NEW r \in RankSet,
         outs[r] = Outputs(FlattenSeq(plan[r]))
  PROVE  /\ Restored(r) \in Seq({Before0(i) : i \in Samples})
         /\ Len(Restored(r)) = PerRank
         /\ \A i \in 1..PerRank : Restored(r)[i] = Before0(RowOf(r, i))
<1> DEFINE q == FlattenSeq(plan[r])
           S == ToSet(RowsOf(r))
           T == {Before0(i) : i \in Samples}
           off == (r - 1) * PerRank
           local == [m \in DOMAIN plan[r] |-> [i \in DOMAIN plan[r][m] |-> plan[r][m][i] - off]]
           N == Len(plan[r])
<1>1. /\ PerRank \in Nat \ {0} /\ off \in Nat
      /\ \A i \in 1..PerRank : RowOf(r, i) \in Samples /\ RowOf(r, i) = off + i
      /\ \A i, j \in 1..PerRank : RowOf(r, i) = RowOf(r, j) => i = j
  <2>1. PerRank \in Nat \ {0} /\ r \in 1..Ranks /\ Ranks \in Nat \ {0}
    BY RowOfFacts
  <2>2. r - 1 \in Nat
    BY <2>1
  <2>3. off \in Nat
    <3> HIDE DEF PerRank
    <3> QED
      BY <2>1, <2>2
  <2> QED
    BY <2>1, <2>3, RowOfFacts DEF RowOf
<1> HIDE DEF PerRank, off
<1>2. /\ Parts(plan[r], S)
      /\ ~setting.dynamic => q = RowsOf(r)
      /\ setting.dynamic \in BOOLEAN
  <2>1. RankRows[r] = RowsOf(r)
    BY DEF RankRows
  <2>2. setting.dynamic \in BOOLEAN
    BY SettingFacts DEF BatchInv
  <2> QED
    BY <2>1, <2>2 DEF Laid
<1>3. /\ Lists(RowsOf(r), S) /\ Len(RowsOf(r)) = PerRank
      /\ S = {RowOf(r, i) : i \in 1..PerRank}
      /\ \A i \in 1..PerRank : RowsOf(r)[i] = RowOf(r, i)
  BY RowsOfFacts
<1> HIDE DEF S
<1>4. Lists(q, S) /\ Len(q) = PerRank /\ q \in Seq(S)
  <2>1. Lists(q, S)
    BY <1>2, PartsListed
  <2> HIDE DEF q
  <2>2. Len(q) = Cardinality(S) /\ Len(RowsOf(r)) = Cardinality(S)
    BY <1>3, <2>1, ListsSize
  <2> QED
    BY <1>3, <2>1, <2>2 DEF Lists
<1> HIDE DEF q
<1>5. \A i \in 1..PerRank : q[i] \in S /\ \E j \in 1..PerRank : q[i] = RowOf(r, j)
  <2>1. \A i \in 1..PerRank : q[i] \in S
    BY <1>1, <1>4
  <2> QED
    BY <1>3, <2>1
<1>6. /\ DOMAIN outs[r] = 1..PerRank
      /\ \A i \in 1..PerRank : outs[r][i] = Before0(q[i])
  <2>1. outs[r] = [i \in 1..Len(q) |-> Before0(q[i])]
    BY DEF Outputs, q
  <2> QED
    BY <1>4, <2>1
<1> DEFINE o == Restored(r)
<1>7. ASSUME ~setting.dynamic
      PROVE  DOMAIN o = 1..PerRank /\ (\A i \in 1..PerRank : o[i] = Before0(RowOf(r, i)))
             /\ o = [i \in 1..PerRank |-> o[i]]
  <2>1. o = outs[r] /\ q = RowsOf(r)
    BY <1>2, <1>7 DEF Restored
  <2>2. outs[r] = [i \in 1..PerRank |-> outs[r][i]]
    BY <1>4, <1>6 DEF Outputs, q
  <2> HIDE DEF o
  <2>3. DOMAIN o = 1..PerRank /\ \A i \in 1..PerRank : o[i] = Before0(RowOf(r, i))
    BY <1>3, <1>6, <2>1, <2>2
  <2>4. o = [i \in 1..PerRank |-> o[i]]
    BY <2>1, <2>2
  <2> QED
    BY <2>3, <2>4
<1>8. ASSUME setting.dynamic
      PROVE  DOMAIN o = 1..PerRank /\ (\A i \in 1..PerRank : o[i] = Before0(RowOf(r, i)))
             /\ o = [i \in 1..PerRank |-> o[i]]
  <2> DEFINE order == FlattenSeq(local)
             back == ReverseIdx(order)
             g == [x \in S |-> x - off]
  <2>1. /\ order = [i \in 1..Len(q) |-> g[q[i]]]
    <3>1. plan[r] \in Seq(Seq(S)) /\ N \in Nat
      BY <1>2 DEF Parts
    <3>2. \A m \in DOMAIN plan[r] : \A i \in DOMAIN plan[r][m] : plan[r][m][i] \in S
      <4>1. \A m \in DOMAIN plan[r] : plan[r][m] \in Seq(S)
        BY <3>1
      <4> QED
        BY <4>1
    <3>3. local = AllMapped(plan[r], g)
      BY <3>2 DEF AllMapped
    <3>4. \A x \in S : g[x] \in Int
      <4>1. \A x \in S : x \in Int
        BY <1>1, <1>3
      <4> QED
        BY <1>1, <4>1
    <3> HIDE DEF g, local, N
    <3>5. FlattenSeq(AllMapped(plan[r], g)) = Mapped(FlattenSeq(plan[r]), g)
      BY ONLY <3>1, <3>4, FlattenMapped
    <3> QED
      BY <3>3, <3>5 DEF Mapped, q
  <2>2. DOMAIN order = 1..PerRank /\ \A i \in 1..PerRank : order[i] = q[i] - off
    <3>1. \A i \in 1..PerRank : g[q[i]] = q[i] - off
      BY <1>5
    <3> HIDE DEF g, order
    <3> QED
      BY <1>4, <2>1, <3>1
  <2> HIDE DEF order
  <2>3. ASSUME NEW i \in 1..PerRank
        PROVE  back[i] \in 1..PerRank /\ q[back[i]] = RowOf(r, i)
    <3>1. RowOf(r, i) \in S
      BY <1>3
    <3>2. PICK j \in 1..PerRank : q[j] = RowOf(r, i)
      BY <1>4, <3>1 DEF Lists
    <3>3. order[j] = i
      BY <1>1, <2>2, <3>2
    <3>4. back[i] = CHOOSE x \in 1..PerRank : order[x] = i
      BY <2>2 DEF ReverseIdx
    <3>5. back[i] \in 1..PerRank /\ order[back[i]] = i
      BY <3>3, <3>4
    <3>6. \A x \in 1..PerRank : order[x] = i => q[x] = RowOf(r, i)
      <4> SUFFICES ASSUME NEW x \in 1..PerRank, order[x] = i PROVE q[x] = RowOf(r, i)
        OBVIOUS
      <4>1. PICK y \in 1..PerRank : q[x] = RowOf(r, y)
        BY <1>5
      <4>2. order[x] = q[x] - off /\ RowOf(r, y) = off + y
        BY <1>1, <2>2
      <4>3. y = i
        BY <1>1, <4>1, <4>2
      <4> QED
        BY <4>1, <4>3
    <3> HIDE DEF back
    <3> QED
      BY <3>5, <3>6
  <2>4. o = [i \in DOMAIN outs[r] |-> outs[r][back[i]]]
    BY <1>8 DEF Restored, Restore, order, local, off
  <2> HIDE DEF back
  <2>5. DOMAIN o = 1..PerRank /\ \A i \in 1..PerRank : o[i] = Before0(RowOf(r, i))
    BY <1>6, <2>3, <2>4
  <2>6. o = [i \in 1..PerRank |-> o[i]]
    BY <1>6, <2>4
  <2> QED
    BY <2>5, <2>6
<1>9. DOMAIN o = 1..PerRank /\ (\A i \in 1..PerRank : o[i] = Before0(RowOf(r, i)))
      /\ o = [i \in 1..PerRank |-> o[i]]
  BY <1>2, <1>7, <1>8
<1> HIDE DEF o
<1>10. o \in [1..PerRank -> T]
  <2>1. \A i \in 1..PerRank : o[i] \in T
    BY <1>1, <1>9
  <2> HIDE DEF T
  <2> QED
    BY <1>9, <2>1
<1>11. o \in Seq(T) /\ Len(o) = PerRank
  <2> HIDE DEF T
  <2> QED
    BY <1>1, <1>10
<1> QED
  BY <1>9, <1>11 DEF o

-----------------------------------------------------------------------------
\* The passes over a batch.

\* How often a sample is in some rows of the batch.
LEMMA HowOften ==
  ASSUME BatchInv, NEW rows \in SUBSET Samples, NEW j \in Samples
  PROVE  Cardinality({i \in rows : batch[i] = batch[j]}) = IF j \in rows THEN 1 ELSE 0
<1>1. \A i, k \in Samples : batch[i] = batch[k] => i = k
  BY BatchFacts
<1>2. CASE j \in rows
  <2>1. {i \in rows : batch[i] = batch[j]} = {j}
    BY <1>1, <1>2
  <2> QED
    BY <1>2, <2>1, FS_Singleton
<1>3. CASE j \notin rows
  <2>1. {i \in rows : batch[i] = batch[j]} = {}
    BY <1>1, <1>3
  <2> QED
    BY <1>3, <2>1, FS_EmptySet
<1> QED
  BY <1>2, <1>3

\* The elements of the first t parts.
Done(p, t) == ToSet(FlatTo(p, t))

\* A pass takes the parts one after the other, none of them twice.
LEMMA PassFacts ==
  ASSUME NEW S, NEW p, Parts(p, S)
  PROVE  /\ Len(p) \in Nat /\ p \in Seq(Seq(S))
         /\ Done(p, 0) = {} /\ Done(p, Len(p)) = S
         /\ \A t \in 0..Len(p) : Done(p, t) \subseteq S
         /\ \A t \in 0..(Len(p) - 1) :
              /\ Done(p, t + 1) = Done(p, t) \cup ToSet(p[t + 1])
              /\ Done(p, t) \cap ToSet(p[t + 1]) = {}
              /\ ToSet(p[t + 1]) \subseteq S
<1> DEFINE N == Len(p)
           From(t) == UNION {ToSet(p[m]) : m \in 1..t}
<1>1. /\ p \in Seq(Seq(S)) /\ N \in Nat /\ \A m \in 1..N : p[m] \in Seq(S)
      /\ \A m, n \in 1..N : \A i \in 1..Len(p[m]), j \in 1..Len(p[n]) :
           p[m][i] = p[n][j] => m = n /\ i = j
      /\ \A x \in S : \E m \in 1..N : \E i \in 1..Len(p[m]) : p[m][i] = x
  <2>1. /\ p \in Seq(Seq(S))
        /\ \A m, n \in 1..N : \A i \in 1..Len(p[m]), j \in 1..Len(p[n]) :
             p[m][i] = p[n][j] => m = n /\ i = j
        /\ \A x \in S : \E m \in 1..N : \E i \in 1..Len(p[m]) : p[m][i] = x
    BY DEF Parts
  <2>2. N \in Nat /\ \A m \in 1..N : p[m] \in Seq(S)
    BY <2>1
  <2> QED
    BY ONLY <2>1, <2>2
<1>2. \A m \in 1..N : DOMAIN p[m] = 1..Len(p[m]) /\ ToSet(p[m]) \subseteq S
  <2> SUFFICES ASSUME NEW m \in 1..N
               PROVE DOMAIN p[m] = 1..Len(p[m]) /\ ToSet(p[m]) \subseteq S
    OBVIOUS
  <2>1. p[m] \in Seq(S)
    BY <1>1
  <2> QED
    BY <2>1 DEF ToSet
<1>3. ASSUME NEW t \in 0..N PROVE Done(p, t) = From(t)
  <2> DEFINE f == FlatTo(p, t)
  <2>1. f \in Seq(S)
    BY <1>1, FlatToFacts
  <2>2. /\ \A i \in 1..Len(f) :
             \E m \in 1..t : \E j \in 1..Len(p[m]) : f[i] = p[m][j]
        /\ \A m \in 1..t : \A j \in 1..Len(p[m]) :
             \E i \in 1..Len(f) : f[i] = p[m][j]
    <3>1. p \in Seq(Seq(S)) /\ t \in 0..Len(p)
      BY <1>1
    <3> QED
      BY ONLY ZenonT(30), <3>1, FlatElements
  <2>3. DOMAIN f = 1..Len(f) /\ \A m \in 1..t : m \in 1..N
    BY <1>1, <2>1
  <2> HIDE DEF f, N
  <2>4. ASSUME NEW x \in ToSet(f) PROVE x \in From(t)
    <3>1. PICK i \in 1..Len(f) : f[i] = x
      BY <2>3 DEF ToSet
    <3>2. PICK m \in 1..t : \E j \in 1..Len(p[m]) : f[i] = p[m][j]
      BY <2>2, <3>1
    <3>3. x \in ToSet(p[m])
      BY <1>2, <2>3, <3>1, <3>2 DEF ToSet
    <3> QED
      BY <3>3
  <2>5. ASSUME NEW m \in 1..t, NEW x \in ToSet(p[m]) PROVE x \in ToSet(f)
    <3>1. PICK j \in 1..Len(p[m]) : p[m][j] = x
      BY <1>2, <2>3 DEF ToSet
    <3>2. PICK i \in 1..Len(f) : f[i] = p[m][j]
      BY <2>2, <3>1
    <3> QED
      BY <2>3, <3>1, <3>2 DEF ToSet
  <2>6. ToSet(f) = From(t)
    BY <2>4, <2>5
  <2> QED
    BY <2>6 DEF Done, f
<1>4. From(0) = {}
  OBVIOUS
<1>5. From(N) = S
  <2>1. \A x \in S : x \in From(N)
    <3> SUFFICES ASSUME NEW x \in S PROVE x \in From(N)
      OBVIOUS
    <3>1. PICK m \in 1..N : \E i \in 1..Len(p[m]) : p[m][i] = x
      BY <1>1
    <3>2. x \in ToSet(p[m])
      BY <1>2, <3>1 DEF ToSet
    <3> QED
      BY <3>2
  <2> QED
    BY <1>2, <2>1
<1>6. ASSUME NEW t \in 0..N PROVE From(t) \subseteq S
  <2>1. N \in Nat
    BY <1>1
  <2> HIDE DEF N
  <2>2. \A m \in 1..t : m \in 1..N
    BY <2>1
  <2> QED
    BY <1>2, <2>2
<1>7. ASSUME NEW t \in 0..(N - 1)
      PROVE  /\ From(t + 1) = From(t) \cup ToSet(p[t + 1])
             /\ From(t) \cap ToSet(p[t + 1]) = {}
             /\ t + 1 \in 1..N /\ t \in 0..N
  <2>0. N \in Nat
    BY <1>1
  <2> HIDE DEF N
  <2>1. 1..(t + 1) = (1..t) \cup {t + 1} /\ t + 1 \in 1..N /\ t \in 0..N
    BY <2>0
  <2>2. ASSUME NEW m \in 1..t, NEW x \in ToSet(p[m]), x \in ToSet(p[t + 1]) PROVE FALSE
    <3>1. m \in 1..N /\ m # t + 1
      BY <2>0
    <3>2. PICK i \in 1..Len(p[m]) : p[m][i] = x
      BY <1>2, <3>1 DEF ToSet
    <3>3. PICK j \in 1..Len(p[t + 1]) : p[t + 1][j] = x
      BY <1>2, <2>1, <2>2 DEF ToSet
    <3> QED
      BY SMTT(30), <1>1, <2>1, <3>1, <3>2, <3>3
  <2> QED
    BY <2>1, <2>2
<1>8. N \in Nat
  BY <1>1
<1> HIDE DEF From, N
<1>9. N \in 0..N /\ 0 \in 0..N /\ \A t \in 0..(N - 1) : t \in 0..N /\ t + 1 \in 0..N
  BY <1>8
<1>10. Done(p, 0) = {} /\ Done(p, N) = S
  BY <1>3, <1>4, <1>5, <1>9
<1>11. \A t \in 0..N : Done(p, t) \subseteq S
  BY <1>3, <1>6
<1>12. \A t \in 0..(N - 1) :
          /\ Done(p, t + 1) = Done(p, t) \cup ToSet(p[t + 1])
          /\ Done(p, t) \cap ToSet(p[t + 1]) = {}
          /\ ToSet(p[t + 1]) \subseteq S
  BY <1>2, <1>3, <1>7, <1>9
<1> QED
  BY <1>1, <1>8, <1>10, <1>11, <1>12 DEF N

\* The rows of the mini-batches are the rank's.
LEMMA BehindWithin ==
  ASSUME setting \in Settings, NEW r \in RankSet, NEW m \in Nat
  PROVE  Behind(r, m) \subseteq ToSet(RowsOf(r))
<1> DEFINE n == setting.miniBatch
           L == PerRank
<1>1. n \in Nat \ {0} /\ L \in Nat
  BY SettingFacts, RowOfFacts
<1> HIDE DEF n, L
<1>2. m * n \in Nat
  BY <1>1
<1>3. Cut(m, n, L) \in Nat /\ Cut(m, n, L) <= L
  BY <1>1, <1>2 DEF Cut
<1>4. \A i \in 1..Cut(m, n, L) : i \in 1..L
  BY <1>1, <1>3
<1>5. ToSet(RowsOf(r)) = {RowOf(r, i) : i \in 1..L}
  BY RowsOfFacts DEF L
<1> QED
  BY <1>4, <1>5 DEF Behind, n, L

\* A row is one rank's.
LEMMA RankOfRow ==
  ASSUME NEW r \in RankSet, NEW q \in RankSet,
         NEW x \in ToSet(RowsOf(r)), x \in ToSet(RowsOf(q))
  PROVE  r = q /\ x \in Samples
<1>1. PICK i \in 1..PerRank : x = RowOf(r, i)
  BY RowsOfFacts
<1>2. PICK j \in 1..PerRank : x = RowOf(q, j)
  BY RowsOfFacts
<1>3. /\ RowOf(r, i) \in Samples
      /\ \A k, l \in 1..PerRank : RowOf(r, k) = RowOf(q, l) => r = q
  BY RowOfFacts
<1> QED
  BY ONLY <1>1, <1>2, <1>3

\* The rows that have been trained on when t micro-batches of the m-th
\* mini-batch have been, and those of the next micro-batch.
OverAt(m, p, t) == UNION {Behind(r, m) \cup Done(p[r], t) : r \in RankSet}
Over == OverAt(mini, plan, turn)
Coming(p, t) == UNION {ToSet(p[r][t + 1]) : r \in RankSet}

\* What is over of an epoch, from one micro-batch to the next.
LEMMA OverFacts ==
  ASSUME setting \in Settings, NEW m \in 0..(MiniBatches - 1), NEW p,
         Laid(p, MiniRows(m)), NEW t \in Nat
  PROVE  /\ OverAt(m, p, 0) = UNION {Behind(r, m) : r \in RankSet}
         /\ (\A r \in RankSet : t = Len(p[r])) =>
              OverAt(m, p, t) = UNION {Behind(r, m + 1) : r \in RankSet}
         /\ (\A r \in RankSet : t < Len(p[r])) =>
              /\ OverAt(m, p, t + 1) = OverAt(m, p, t) \cup Coming(p, t)
              /\ OverAt(m, p, t) \cap Coming(p, t) = {}
              /\ Coming(p, t) \subseteq Samples
<1>1. \A r \in RankSet : Parts(p[r], ToSet(MiniBatch(r, m)))
  BY DEF Laid, MiniRows
<1>2. MiniBatches \in Nat \ {0} /\ m \in Nat /\ m + 1 \in Nat
  <2>1. Ranks \in Nat \ {0} /\ RankSet = 1..Ranks
    BY RowOfFacts
  <2>2. 1 \in RankSet
    BY <2>1
  <2>3. MiniBatches \in Nat \ {0}
    BY <2>2, BehindEnds
  <2> QED
    BY <2>3
<1>3. ASSUME NEW r \in RankSet
      PROVE  /\ Behind(r, m + 1) = Behind(r, m) \cup ToSet(MiniBatch(r, m))
             /\ Behind(r, m) \cap ToSet(MiniBatch(r, m)) = {}
             /\ Behind(r, m) \subseteq ToSet(RowsOf(r))
             /\ ToSet(MiniBatch(r, m)) \subseteq ToSet(RowsOf(r))
             /\ ToSet(RowsOf(r)) \subseteq Samples
  <2>1. /\ Behind(r, m + 1) = Behind(r, m) \cup ToSet(MiniBatch(r, m))
        /\ Behind(r, m) \cap ToSet(MiniBatch(r, m)) = {}
    BY MiniBatchFacts
  <2>2. Behind(r, m) \subseteq ToSet(RowsOf(r)) /\ Behind(r, m + 1) \subseteq ToSet(RowsOf(r))
    BY <1>2, BehindWithin
  <2>3. ToSet(RowsOf(r)) \subseteq Samples
    BY RankOfRow
  <2> QED
    BY <2>1, <2>2, <2>3
<1>4. ASSUME NEW r \in RankSet
      PROVE  /\ Len(p[r]) \in Nat
             /\ Done(p[r], 0) = {} /\ Done(p[r], Len(p[r])) = ToSet(MiniBatch(r, m))
             /\ t < Len(p[r]) =>
                  /\ Done(p[r], t + 1) = Done(p[r], t) \cup ToSet(p[r][t + 1])
                  /\ Done(p[r], t) \cap ToSet(p[r][t + 1]) = {}
                  /\ Done(p[r], t) \subseteq ToSet(MiniBatch(r, m))
                  /\ ToSet(p[r][t + 1]) \subseteq ToSet(MiniBatch(r, m))
  <2> DEFINE S == ToSet(MiniBatch(r, m))
             q == p[r]
  <2> HIDE DEF S, q
  <2>1. /\ Len(q) \in Nat
        /\ Done(q, 0) = {} /\ Done(q, Len(q)) = S
        /\ \A u \in 0..Len(q) : Done(q, u) \subseteq S
        /\ \A u \in 0..(Len(q) - 1) :
              /\ Done(q, u + 1) = Done(q, u) \cup ToSet(q[u + 1])
              /\ Done(q, u) \cap ToSet(q[u + 1]) = {}
              /\ ToSet(q[u + 1]) \subseteq S
    <3>1. Parts(q, S)
      BY <1>1 DEF q, S
    <3> QED
      BY ONLY <3>1, PassFacts
  <2>2. t < Len(q) => t \in 0..Len(q) /\ t \in 0..(Len(q) - 1)
    BY <2>1
  <2> QED
    BY <2>1, <2>2 DEF q, S
<1>5. OverAt(m, p, 0) = UNION {Behind(r, m) : r \in RankSet}
  BY <1>4 DEF OverAt
<1>6. ASSUME \A r \in RankSet : t = Len(p[r])
      PROVE  OverAt(m, p, t) = UNION {Behind(r, m + 1) : r \in RankSet}
  <2>1. \A r \in RankSet : Behind(r, m) \cup Done(p[r], t) = Behind(r, m + 1)
    BY <1>3, <1>4, <1>6
  <2> QED
    BY <2>1 DEF OverAt
<1>7. ASSUME \A r \in RankSet : t < Len(p[r])
      PROVE  /\ OverAt(m, p, t + 1) = OverAt(m, p, t) \cup Coming(p, t)
             /\ OverAt(m, p, t) \cap Coming(p, t) = {}
             /\ Coming(p, t) \subseteq Samples
  <2>1. OverAt(m, p, t + 1) = OverAt(m, p, t) \cup Coming(p, t)
    <3>1. \A r \in RankSet : Done(p[r], t + 1) = Done(p[r], t) \cup ToSet(p[r][t + 1])
      BY <1>4, <1>7
    <3>2. \A x \in OverAt(m, p, t + 1) : x \in OverAt(m, p, t) \cup Coming(p, t)
      <4> SUFFICES ASSUME NEW x \in OverAt(m, p, t + 1)
                   PROVE  x \in OverAt(m, p, t) \cup Coming(p, t)
        OBVIOUS
      <4>1. PICK r \in RankSet : x \in Behind(r, m) \cup Done(p[r], t + 1)
        BY DEF OverAt
      <4>2. x \in (Behind(r, m) \cup Done(p[r], t)) \cup ToSet(p[r][t + 1])
        BY <3>1, <4>1
      <4> QED
        BY <4>2 DEF OverAt, Coming
    <3>3. \A x \in OverAt(m, p, t) \cup Coming(p, t) : x \in OverAt(m, p, t + 1)
      <4>1. \A r \in RankSet : /\ Behind(r, m) \cup Done(p[r], t) \subseteq OverAt(m, p, t + 1)
                               /\ ToSet(p[r][t + 1]) \subseteq OverAt(m, p, t + 1)
        BY <3>1 DEF OverAt
      <4> QED
        BY <4>1 DEF OverAt, Coming
    <3> QED
      BY <3>2, <3>3
  <2>2. ASSUME NEW x \in OverAt(m, p, t), x \in Coming(p, t) PROVE FALSE
    <3>1. PICK r \in RankSet : x \in Behind(r, m) \cup Done(p[r], t)
      BY DEF OverAt
    <3>2. PICK q \in RankSet : x \in ToSet(p[q][t + 1])
      BY <2>2 DEF Coming
    <3>3. x \in ToSet(RowsOf(r)) /\ x \in ToSet(RowsOf(q))
      BY <1>3, <1>4, <1>7, <3>1, <3>2
    <3>4. r = q
      BY <3>3, RankOfRow
    <3> QED
      BY <1>3, <1>4, <1>7, <3>1, <3>2, <3>4
  <2>3. Coming(p, t) \subseteq Samples
    BY <1>3, <1>4, <1>7 DEF Coming
  <2> QED
    BY <2>1, <2>2, <2>3
<1> QED
  BY <1>5, <1>6, <1>7

\* All rows are some rank's.
LEMMA AllRows ==
  ASSUME setting \in Settings
  PROVE  /\ UNION {Behind(r, 0) : r \in RankSet} = {}
         /\ UNION {Behind(r, MiniBatches) : r \in RankSet} = Samples
<1>1. \A r \in RankSet : Behind(r, 0) = {} /\ Behind(r, MiniBatches) = ToSet(RowsOf(r))
  BY BehindEnds
<1>2. \A r \in RankSet : ToSet(RowsOf(r)) \subseteq Samples
  BY RankOfRow
<1>3. \A s \in Samples : \E r \in RankSet : s \in ToSet(RowsOf(r))
  <2> SUFFICES ASSUME NEW s \in Samples PROVE \E r \in RankSet : s \in ToSet(RowsOf(r))
    OBVIOUS
  <2>1. PICK r \in RankSet, i \in 1..PerRank : s = RowOf(r, i)
    BY RowOfFacts
  <2>2. s \in ToSet(RowsOf(r))
    BY <2>1, RowsOfFacts
  <2> QED
    BY <2>2
<1> QED
  BY <1>1, <1>2, <1>3

\* One more micro-batch of the log-prob pass.
LEMMA OutputsGrow ==
  ASSUME BatchInv, NEW p \in Seq(Seq(Samples)), NEW t \in 0..(Len(p) - 1)
  PROVE  /\ Outputs(FlatTo(p, 0)) = <<>>
         /\ Outputs(FlatTo(p, t + 1))
              = Outputs(FlatTo(p, t)) \o [i \in DOMAIN p[t + 1] |-> Before0(p[t + 1][i])]
<1> DEFINE g == [x \in Samples |-> Before0(x)]
           T == {Before0(x) : x \in Samples}
           N == Len(p)
           a == AllMapped(p, g)
<1>1. N \in Nat /\ t + 1 \in 0..N /\ t \in 0..N /\ t + 1 \in 1..N /\ p[t + 1] \in Seq(Samples)
  OBVIOUS
<1>2. /\ FlatTo(p, 0) = <<>>
      /\ \A u \in 0..N : FlatTo(p, u) \in Seq(Samples)
  BY FlatToFacts
<1>3. \A x \in Samples : g[x] \in T /\ g[x] = Before0(x)
  OBVIOUS
<1> HIDE DEF g, T
<1>4. /\ a \in Seq(Seq(T)) /\ Len(a) = N
      /\ \A u \in 0..N : FlatTo(a, u) = Mapped(FlatTo(p, u), g)
  <2>1. \A x \in Samples : g[x] \in T
    BY <1>3
  <2> QED
    BY ONLY <2>1, p \in Seq(Seq(Samples)), FlatMap
<1>5. a[t + 1] = [i \in DOMAIN p[t + 1] |-> g[p[t + 1][i]]]
  <2>1. DOMAIN p = 1..N /\ t + 1 \in DOMAIN p
    BY <1>1
  <2> QED
    BY <2>1 DEF AllMapped
<1> HIDE DEF a, N
<1>6. FlatTo(a, t + 1) = FlatTo(a, t) \o a[t + 1]
  <2>1. t \in 0..(Len(a) - 1)
    BY <1>4 DEF N
  <2> QED
    BY <1>4, <2>1, FlatToFacts
<1>7. \A s \in Seq(Samples) : Mapped(s, g) = Outputs(s)
  <2> SUFFICES ASSUME NEW s \in Seq(Samples) PROVE Mapped(s, g) = Outputs(s)
    OBVIOUS
  <2>1. \A i \in 1..Len(s) : g[s[i]] = Before0(s[i])
    BY <1>3
  <2> QED
    BY <2>1 DEF Mapped, Outputs
<1>8. a[t + 1] = [i \in DOMAIN p[t + 1] |-> Before0(p[t + 1][i])]
  <2>1. \A i \in DOMAIN p[t + 1] : g[p[t + 1][i]] = Before0(p[t + 1][i])
    BY <1>1, <1>3
  <2> QED
    BY <1>5, <2>1
<1>9. Outputs(FlatTo(p, 0)) = <<>>
  BY <1>2 DEF Outputs
<1>10. Outputs(FlatTo(p, t + 1)) = FlatTo(a, t + 1) /\ Outputs(FlatTo(p, t)) = FlatTo(a, t)
  BY <1>1, <1>2, <1>4, <1>7
<1> QED
  BY <1>6, <1>8, <1>9, <1>10

\* How often the samples have been trained on.
UsedAs(e, over) ==
  \A i \in Samples : uses[batch[i]] = e + (IF i \in over THEN 1 ELSE 0)

\* Its own old log probabilities, and a teacher of before the step, unless it
\* is the trust-region teacher after the first mini-batch.
LateTeacher == setting.regularization = "trust-region" /\ (mini > 0 \/ epoch > 0)
Anchored(x) ==
  x.old = [sample |-> x.sample, version |-> 0] /\ (x.teacher = {0} \/ LateTeacher)

\* What is true of the passes over the batch: how far they are, what they have
\* computed, and how often each sample has been trained on.
PassInv ==
  /\ turn \in Nat /\ \A r \in RankSet : turn <= Len(plan[r])
  /\ phase \in {"balance", "context", "done"} => turn = 0 /\ plan = Idle
  /\ phase \in {"balance", "logprob", "context"} =>
       /\ version = 0 /\ epoch = 0 /\ mini = 0 /\ teacher = 0 /\ loss = {}
       /\ uses = [s \in Samples |-> 0]
  /\ phase = "balance" => outs = Idle
  /\ phase = "logprob" =>
       /\ Laid(plan, RankRows)
       /\ \A r \in RankSet : outs[r] = Outputs(FlatTo(plan[r], turn))
  /\ phase \in {"context", "update"} =>
       \A i \in Samples : oldLogp[i] = Before0(i)
  /\ phase = "update" =>
       /\ mini \in 0..(MiniBatches - 1) /\ Laid(plan, MiniRows(mini))
       /\ epoch \in 0..(setting.epochs - 1)
       /\ epoch = 0 /\ mini = 0 => version = 0
       /\ teacher = 0 /\ \A x \in loss : Anchored(x)
       /\ uses \in [Samples -> Nat] /\ UsedAs(epoch, Over)
  /\ phase = "done" =>
       loss = {} /\ \A s \in Samples : uses[s] = setting.epochs

\* No pass has begun.
LEMMA PassStarts == StepInit => PassInv
<1> SUFFICES ASSUME StepInit PROVE PassInv
  OBVIOUS
<1>1. /\ phase = "balance" /\ turn = 0 /\ plan = Idle /\ outs = Idle
      /\ version = 0 /\ epoch = 0 /\ mini = 0 /\ teacher = 0 /\ loss = {}
      /\ uses = [s \in Samples |-> 0]
  BY DEF StepInit
<1>2. \A r \in RankSet : turn <= Len(plan[r])
  BY <1>1 DEF Idle
<1> QED
  BY <1>1, <1>2 DEF PassInv

\* The first micro-batches of a pass.
LEMMA NothingDone ==
  ASSUME NEW rows, NEW p, Laid(p, rows), NEW r \in RankSet
  PROVE  /\ Len(p[r]) \in Nat /\ 0 <= Len(p[r])
         /\ FlatTo(p[r], 0) = <<>>
<1>1. Parts(p[r], ToSet(rows[r]))
  BY DEF Laid
<1>2. p[r] \in Seq(Seq(ToSet(rows[r]))) /\ Len(p[r]) \in Nat
  BY <1>1, PassFacts
<1>3. FlatTo(p[r], 0) = <<>>
  BY <1>2, FlatToFacts
<1> QED
  BY <1>2, <1>3

\* The log-prob pass is laid out.
LEMMA PassBalance == BatchInv /\ BatchInv' /\ PassInv /\ Balance => PassInv'
<1> SUFFICES ASSUME BatchInv, BatchInv', PassInv, Balance PROVE PassInv'
  OBVIOUS
<1>1. /\ phase = "balance" /\ phase' = "logprob"
      /\ plan' = Plan(batch', RankRows)
      /\ UNCHANGED <<setting, input, turn, outs, oldLogp, epoch, mini, loss,
                     version, teacher, uses>>
  BY DEF Balance, RankRows
<1>2. Laid(plan', RankRows)
  <2>1. batch' \in [Samples -> Samples]
    <3>1. (batch \in [Samples -> Samples])'
      BY BatchFacts, PTL
    <3> QED
      BY <3>1
  <2>2. setting \in Settings /\ input.len \in [Samples -> Nat \ {0}]
    BY BatchFacts DEF BatchInv
  <2> QED
    BY <1>1, <2>1, <2>2, PlanFacts, RankRowsSendable
<1>3. /\ turn = 0 /\ outs = Idle
      /\ version = 0 /\ epoch = 0 /\ mini = 0 /\ teacher = 0 /\ loss = {}
      /\ uses = [s \in Samples |-> 0]
  BY <1>1 DEF PassInv
<1>4. \A r \in RankSet : turn' <= Len(plan'[r]) /\ outs'[r] = <<>> /\ FlatTo(plan'[r], turn') = <<>>
  <2> SUFFICES ASSUME NEW r \in RankSet
               PROVE  turn' <= Len(plan'[r]) /\ outs'[r] = <<>> /\ FlatTo(plan'[r], turn') = <<>>
    OBVIOUS
  <2>1. 0 <= Len(plan'[r])
    BY <1>2, NothingDone
  <2>2. FlatTo(plan'[r], 0) = <<>>
    BY <1>2, NothingDone
  <2>3. outs[r] = <<>>
    BY <1>3 DEF Idle
  <2> QED
    BY <1>1, <1>3, <2>1, <2>2, <2>3
<1>5. (Laid(plan, RankRows))'
  BY <1>1, <1>2 DEF Laid, RankRows
<1>6. (\A r \in RankSet : outs[r] = Outputs(FlatTo(plan[r], turn)))'
  BY <1>4 DEF Outputs
<1> QED
  BY <1>1, <1>3, <1>4, <1>5, <1>6 DEF PassInv

\* A micro-batch of the log-prob pass.
LEMMA PassForward == BatchInv /\ PassInv /\ Forward => PassInv'
<1> SUFFICES ASSUME BatchInv, PassInv, Forward PROVE PassInv'
  OBVIOUS
<1>1. /\ phase = "logprob" /\ phase' = "logprob" /\ turn' = turn + 1
      /\ \A r \in RankSet : turn < Len(plan[r])
      /\ UNCHANGED <<setting, input, batch, plan, epoch, mini, loss, version,
                     teacher, uses>>
  BY DEF Forward, MoreOnAll
<1>2. /\ turn \in Nat /\ Laid(plan, RankRows)
      /\ \A r \in RankSet : outs[r] = Outputs(FlatTo(plan[r], turn))
      /\ version = 0 /\ epoch = 0 /\ mini = 0 /\ teacher = 0 /\ loss = {}
      /\ uses = [s \in Samples |-> 0]
  BY <1>1 DEF PassInv
<1>3. ASSUME NEW r \in RankSet
      PROVE  turn + 1 <= Len(plan[r]) /\ outs'[r] = Outputs(FlatTo(plan[r], turn + 1))
  <2> DEFINE p == plan[r]
             more == [i \in DOMAIN p[turn + 1] |-> Before0(p[turn + 1][i])]
  <2>1. p \in Seq(Seq(Samples)) /\ Len(p) \in Nat
    <3>1. Parts(p, ToSet(RowsOf(r)))
      BY <1>2 DEF Laid, RankRows
    <3>2. p \in Seq(Seq(ToSet(RowsOf(r)))) /\ Len(p) \in Nat
      BY <3>1, PassFacts
    <3>3. ToSet(RowsOf(r)) \subseteq Samples
      BY RankOfRow
    <3> HIDE DEF p
    <3>4. \A m \in 1..Len(p) : p[m] \in Seq(Samples)
      <4> SUFFICES ASSUME NEW m \in 1..Len(p) PROVE p[m] \in Seq(Samples)
        OBVIOUS
      <4>1. p[m] \in Seq(ToSet(RowsOf(r)))
        BY <3>2
      <4> QED
        BY <3>3, <4>1
    <3> QED
      BY <3>2, <3>4
  <2>2. turn + 1 <= Len(p) /\ turn \in 0..(Len(p) - 1)
    BY <1>1, <1>2, <2>1
  <2>3. outs'[r] = outs[r] \o more
    BY <1>2 DEF Forward, Before0
  <2> HIDE DEF more, p
  <2>4. Outputs(FlatTo(p, turn + 1)) = Outputs(FlatTo(p, turn)) \o more
    BY <2>1, <2>2, OutputsGrow DEF more
  <2> QED
    BY <1>2, <2>2, <2>3, <2>4 DEF p
<1>4. (Laid(plan, RankRows))'
  BY <1>1, <1>2 DEF Laid, RankRows
<1>5. (\A r \in RankSet : outs[r] = Outputs(FlatTo(plan[r], turn)))'
  BY <1>1, <1>3 DEF Outputs, Before0
<1> QED
  BY <1>1, <1>2, <1>3, <1>4, <1>5 DEF PassInv

\* The log probabilities of all rows, in their order.
LEMMA Collected ==
  ASSUME BatchInv, Laid(plan, RankRows),
         \A r \in RankSet : outs[r] = Outputs(FlattenSeq(plan[r]))
  PROVE  \A i \in Samples : FlattenSeq([r \in RankSet |-> Restored(r)])[i] = Before0(i)
<1> DEFINE ss == [r \in RankSet |-> Restored(r)]
           T == {Before0(i) : i \in Samples}
<1>1. PerRank \in Nat \ {0} /\ RankSet = 1..Ranks /\ Ranks \in Nat \ {0}
  BY RowOfFacts
<1> HIDE DEF PerRank, T
<1>2. \A r \in RankSet : /\ ss[r] \in Seq(T) /\ Len(ss[r]) = PerRank
                         /\ \A i \in 1..PerRank : ss[r][i] = Before0(RowOf(r, i))
  BY RestoredFacts DEF T
<1>3. ss \in Seq(Seq(T)) /\ Len(ss) = Ranks
  <2>1. ss \in [1..Ranks -> Seq(T)]
    BY <1>1, <1>2
  <2> HIDE DEF ss
  <2> QED
    BY <1>1, <2>1
<1> HIDE DEF ss
<1>4. \A m \in 1..Ranks : \A i \in 1..PerRank :
        FlattenSeq(ss)[(m - 1) * PerRank + i] = ss[m][i]
  <2>1. \A m \in 1..Len(ss) : Len(ss[m]) = PerRank
    BY <1>1, <1>2, <1>3
  <2>2. PerRank \in Nat
    BY <1>1
  <2>3. \A m \in 1..Len(ss) : \A i \in 1..PerRank :
          FlattenSeq(ss)[(m - 1) * PerRank + i] = ss[m][i]
    BY ONLY <1>3, <2>1, <2>2, FlatBlocks
  <2> QED
    BY <1>3, <2>3
<1>5. \A r \in RankSet : \A i \in 1..PerRank : FlattenSeq(ss)[RowOf(r, i)] = Before0(RowOf(r, i))
  BY <1>1, <1>2, <1>4 DEF RowOf
<1>6. \A i \in Samples : FlattenSeq(ss)[i] = Before0(i)
  <2> SUFFICES ASSUME NEW i \in Samples PROVE FlattenSeq(ss)[i] = Before0(i)
    OBVIOUS
  <2>1. PICK r \in RankSet, j \in 1..PerRank : i = RowOf(r, j)
    BY RowOfFacts
  <2> QED
    BY <1>5, <2>1
<1> QED
  BY <1>6 DEF ss

\* The outputs are put back where their rows are.
LEMMA PassCollect == BatchInv /\ PassInv /\ Collect => PassInv'
<1> SUFFICES ASSUME BatchInv, PassInv, Collect PROVE PassInv'
  OBVIOUS
<1>1. /\ phase = "logprob" /\ phase' = "context" /\ turn' = 0 /\ outs' = Idle
      /\ plan' = Idle /\ \A r \in RankSet : turn = Len(plan[r])
      /\ oldLogp' = FlattenSeq([r \in RankSet |-> Restored(r)])
      /\ UNCHANGED <<setting, input, batch, epoch, mini, loss, version,
                     teacher, uses>>
  BY DEF Collect, DoneOnAll, Restored
<1>2. /\ Laid(plan, RankRows)
      /\ \A r \in RankSet : outs[r] = Outputs(FlatTo(plan[r], turn))
      /\ version = 0 /\ epoch = 0 /\ mini = 0 /\ teacher = 0 /\ loss = {}
      /\ uses = [s \in Samples |-> 0]
  BY <1>1 DEF PassInv
<1>3. \A r \in RankSet : outs[r] = Outputs(FlattenSeq(plan[r]))
  <2> SUFFICES ASSUME NEW r \in RankSet PROVE outs[r] = Outputs(FlattenSeq(plan[r]))
    OBVIOUS
  <2>1. Parts(plan[r], ToSet(RankRows[r]))
    BY <1>2 DEF Laid
  <2>2. plan[r] \in Seq(Seq(ToSet(RankRows[r])))
    BY <2>1, PassFacts
  <2>3. FlatTo(plan[r], Len(plan[r])) = FlattenSeq(plan[r])
    BY <2>2, FlatToFacts
  <2> QED
    BY <1>1, <1>2, <2>3
<1>4. \A i \in Samples : oldLogp'[i] = Before0(i)
  BY <1>1, <1>2, <1>3, Collected
<1>5. (\A i \in Samples : oldLogp[i] = Before0(i))'
  BY <1>1, <1>4 DEF Before0
<1>6. \A r \in RankSet : turn' <= Len(plan'[r])
  BY <1>1 DEF Idle
<1> QED
  BY <1>1, <1>2, <1>5, <1>6 DEF PassInv

\* The plan of a mini-batch is laid out.
LEMMA MiniPlanLaid ==
  ASSUME BatchInv, NEW m \in 0..(MiniBatches - 1)
  PROVE  /\ Laid(MiniPlan(m), MiniRows(m))
         /\ \A r \in RankSet : 0 <= Len(MiniPlan(m)[r])
<1>1. /\ batch \in [Samples -> Samples] /\ setting \in Settings
      /\ input.len \in [Samples -> Nat \ {0}]
  BY BatchFacts DEF BatchInv
<1>2. MiniPlan(m) = Plan(batch, MiniRows(m)) /\ Sendable(MiniRows(m))
  BY <1>1, MiniRowsSendable DEF MiniPlan, MiniRows
<1>3. Laid(MiniPlan(m), MiniRows(m))
  BY <1>1, <1>2, PlanFacts
<1> QED
  BY <1>3, NothingDone

\* There is a mini-batch.
LEMMA HasMiniBatches ==
  ASSUME setting \in Settings
  PROVE  MiniBatches \in Nat \ {0} /\ setting.epochs \in Nat \ {0}
<1>1. Ranks \in Nat \ {0} /\ RankSet = 1..Ranks
  BY RowOfFacts
<1>2. 1 \in RankSet
  BY <1>1
<1> QED
  BY <1>2, BehindEnds, SettingFacts

\* A mini-batch has just been laid out for the pass that is ahead.
LEMMA PassOfMini ==
  ASSUME BatchInv, NEW m \in 0..(MiniBatches - 1),
         UNCHANGED <<setting, batch, oldLogp, uses>>,
         phase' = "update", turn' = 0, mini' = m, plan' = MiniPlan(m), loss' = {},
         teacher' = 0, \A i \in Samples : oldLogp[i] = Before0(i),
         epoch' \in 0..(setting.epochs - 1), epoch' = 0 /\ m = 0 => version' = 0,
         uses \in [Samples -> Nat],
         \A i \in Samples : uses[batch[i]] = epoch' + (IF i \in UNION {Behind(r, m) : r \in RankSet}
                                                       THEN 1 ELSE 0)
  PROVE  PassInv'
<1>1. Laid(plan', MiniRows(m)) /\ \A r \in RankSet : turn' <= Len(plan'[r])
  BY MiniPlanLaid
<1>2. (Laid(plan, MiniRows(mini)))' /\ mini' \in 0..(MiniBatches' - 1)
  BY <1>1 DEF Laid, MiniRows, MiniBatch, MiniBatches
<1>3. OverAt(m, plan', 0) = UNION {Behind(r, m) : r \in RankSet}
  <2>1. setting \in Settings /\ 0 \in Nat
    BY DEF BatchInv
  <2> QED
    BY <1>1, <2>1, OverFacts
<1>4. Over' = UNION {Behind(r, m) : r \in RankSet}
  <2>1. setting' = setting /\ mini' = m /\ turn' = 0
    OBVIOUS
  <2>2. Over' = OverAt(m, plan', 0)
    BY ONLY <2>1 DEF Over, OverAt, Behind
  <2> QED
    BY <1>3, <2>2
<1>5. (UsedAs(epoch, Over))'
  BY <1>4 DEF UsedAs
<1>6. (\A i \in Samples : oldLogp[i] = Before0(i))'
  BY DEF Before0
<1> QED
  BY <1>1, <1>2, <1>5, <1>6 DEF PassInv

\* The first mini-batch is laid out.
LEMMA PassUpdate == BatchInv /\ PassInv /\ Update => PassInv'
<1> SUFFICES ASSUME BatchInv, PassInv, Update PROVE PassInv'
  OBVIOUS
<1>1. /\ phase = "context" /\ phase' = "update" /\ plan' = MiniPlan(0)
      /\ UNCHANGED <<setting, batch, turn, oldLogp, epoch, mini, loss, version,
                     teacher, uses>>
  BY DEF Update
<1>2. /\ turn = 0 /\ version = 0 /\ epoch = 0 /\ mini = 0 /\ teacher = 0
      /\ loss = {} /\ uses = [s \in Samples |-> 0]
      /\ \A i \in Samples : oldLogp[i] = Before0(i)
  BY <1>1 DEF PassInv
<1>3. MiniBatches \in Nat \ {0} /\ setting.epochs \in Nat \ {0}
      /\ UNION {Behind(r, 0) : r \in RankSet} = {}
  BY HasMiniBatches, AllRows DEF BatchInv
<1>4. 0 \in 0..(MiniBatches - 1) /\ 0 \in 0..(setting.epochs - 1)
  BY <1>3
<1>5. \A i \in Samples : uses[batch[i]] = epoch' + (IF i \in UNION {Behind(r, 0) : r \in RankSet}
                                                    THEN 1 ELSE 0)
  BY <1>1, <1>2, <1>3, BatchFacts
<1>6. uses \in [Samples -> Nat]
  BY <1>2
<1> QED
  BY <1>1, <1>2, <1>4, <1>5, <1>6, PassOfMini

\* The contexts leave the passes alone.
LEMMA PassContext == PassInv /\ Context => PassInv'
<1> SUFFICES ASSUME PassInv, Context PROVE PassInv'
  OBVIOUS
<1>1. /\ phase = "context" /\ phase' = "context"
      /\ UNCHANGED <<setting, batch, plan, turn, oldLogp, epoch, mini, loss,
                     version, teacher, uses>>
  BY DEF Context
<1> QED
  BY <1>1 DEF PassInv, Before0

\* A micro-batch of the update trains its rows once more.
LEMMA PassTrain == BatchInv /\ PassInv /\ TrainMicroBatch => PassInv'
<1> SUFFICES ASSUME BatchInv, PassInv, TrainMicroBatch PROVE PassInv'
  OBVIOUS
<1> DEFINE rows == Coming(plan, turn)
<1>1. /\ phase = "update" /\ phase' = "update" /\ turn' = turn + 1
      /\ \A r \in RankSet : turn < Len(plan[r])
      /\ loss' = {[sample  |-> batch[i],
                   old     |-> IF OnPolicy
                               THEN [sample |-> batch[i], version |-> version]
                               ELSE oldLogp[i],
                   teacher |-> TeacherVersions] : i \in rows}
      /\ uses' = [s \in Samples |-> uses[s] + Cardinality({i \in rows : batch[i] = s})]
      /\ UNCHANGED <<setting, batch, plan, oldLogp, epoch, mini, version, teacher>>
  BY DEF TrainMicroBatch, MoreOnAll, Coming
<1>2. /\ turn \in Nat /\ mini \in 0..(MiniBatches - 1) /\ Laid(plan, MiniRows(mini))
      /\ epoch \in 0..(setting.epochs - 1)
      /\ epoch = 0 /\ mini = 0 => version = 0
      /\ teacher = 0 /\ uses \in [Samples -> Nat] /\ UsedAs(epoch, Over)
      /\ \A i \in Samples : oldLogp[i] = Before0(i)
  BY <1>1 DEF PassInv
<1>3. setting \in Settings /\ batch \in [Samples -> Samples]
      /\ \A s \in Samples : \E i \in Samples : batch[i] = s
  BY BatchFacts DEF BatchInv
<1>4. /\ OverAt(mini, plan, turn + 1) = Over \cup rows
      /\ Over \cap rows = {} /\ rows \subseteq Samples
  BY <1>1, <1>2, <1>3, OverFacts DEF Over
<1> HIDE DEF rows
<1>5. Over' = Over \cup rows
  <2>1. Over' = OverAt(mini, plan, turn + 1)
    BY <1>1 DEF Over, OverAt, Behind
  <2> QED
    BY <1>4, <2>1
<1>6. ASSUME NEW i \in Samples
      PROVE  uses'[batch[i]] = epoch + (IF i \in Over' THEN 1 ELSE 0)
  <2>1. Cardinality({j \in rows : batch[j] = batch[i]}) = IF i \in rows THEN 1 ELSE 0
    BY <1>4, HowOften
  <2>2. uses'[batch[i]] = uses[batch[i]] + (IF i \in rows THEN 1 ELSE 0)
    BY <1>1, <1>3, <2>1
  <2>3. uses[batch[i]] = epoch + (IF i \in Over THEN 1 ELSE 0) /\ epoch \in Nat
    BY <1>2 DEF UsedAs
  <2>4. ~(i \in Over /\ i \in rows)
    BY <1>4
  <2> QED
    BY <1>5, <2>2, <2>3, <2>4
<1>7. (UsedAs(epoch, Over))'
  BY <1>1, <1>6 DEF UsedAs
<1>8. uses' \in [Samples -> Nat]
  <2>1. ASSUME NEW s \in Samples PROVE uses'[s] \in Nat
    <3>1. PICK i \in Samples : batch[i] = s
      BY <1>3
    <3>2. epoch \in Nat
      BY <1>2
    <3> QED
      BY <1>6, <3>1, <3>2
  <2>2. uses' = [s \in Samples |-> uses'[s]]
    BY <1>1
  <2> QED
    BY <2>1, <2>2
<1>9. OnPolicy => version = 0
  <2> SUFFICES ASSUME OnPolicy PROVE version = 0
    OBVIOUS
  <2>1. MiniBatches = 1 /\ setting.epochs = 1
    BY DEF OnPolicy
  <2>2. mini = 0 /\ epoch = 0
    BY <1>2, <2>1
  <2> QED
    BY <1>2, <2>2
<1>10. \A x \in loss' : Anchored(x)
  <2>1. \A i \in rows : oldLogp[i] = [sample |-> batch[i], version |-> 0]
    BY <1>2, <1>4 DEF Before0
  <2>2. \A x \in loss' : /\ x.old = [sample |-> x.sample, version |-> 0]
                        /\ x.teacher = TeacherVersions
    BY <1>1, <1>9, <2>1
  <2>3. TeacherVersions = {0} \/ LateTeacher
    <3>1. CASE setting.regularization = "trust-region"
      <4>1. mini \in Nat /\ epoch \in Nat
        BY <1>2
      <4>2. mini = 0 /\ epoch = 0 => TeacherVersions = {0}
        BY <1>2, <3>1 DEF TeacherVersions
      <4> QED
        BY <3>1, <4>1, <4>2 DEF LateTeacher
    <3>2. CASE setting.regularization # "trust-region"
      BY <1>2, <3>2 DEF TeacherVersions
    <3> QED
      BY <3>1, <3>2
  <2> SUFFICES ASSUME NEW x \in loss' PROVE Anchored(x)
    OBVIOUS
  <2>4. x.old = [sample |-> x.sample, version |-> 0] /\ x.teacher = TeacherVersions
    BY <2>2
  <2> QED
    BY ONLY <2>3, <2>4 DEF Anchored
<1>11. \A r \in RankSet : turn' <= Len(plan'[r])
  <2> SUFFICES ASSUME NEW r \in RankSet PROVE turn + 1 <= Len(plan[r])
    BY <1>1
  <2>1. Len(plan[r]) \in Nat
    BY <1>2, NothingDone
  <2> QED
    BY <1>1, <1>2, <2>1
<1>12. (Laid(plan, MiniRows(mini)))' /\ MiniBatches' = MiniBatches
  BY <1>1, <1>2 DEF Laid, MiniRows, MiniBatch, MiniBatches
<1>13. (\A i \in Samples : oldLogp[i] = Before0(i))'
  BY <1>1, <1>2 DEF Before0
<1>14. (\A x \in loss : Anchored(x))'
  <2>1. LateTeacher' = LateTeacher
    BY <1>1 DEF LateTeacher
  <2>2. \A x : Anchored(x)' = Anchored(x)
    BY ONLY <2>1 DEF Anchored
  <2> QED
    BY ONLY <1>10, <2>2
<1> QED
  BY <1>1, <1>2, <1>7, <1>8, <1>11, <1>12, <1>13, <1>14 DEF PassInv

\* A mini-batch is over on all ranks.
LEMMA MiniBatchOver ==
  ASSUME BatchInv, PassInv, phase = "update", DoneOnAll
  PROVE  /\ mini \in 0..(MiniBatches - 1) /\ MiniBatches \in Nat \ {0}
         /\ epoch \in 0..(setting.epochs - 1) /\ setting.epochs \in Nat \ {0}
         /\ teacher = 0 /\ uses \in [Samples -> Nat]
         /\ \A i \in Samples : oldLogp[i] = Before0(i)
         /\ UsedAs(epoch, UNION {Behind(r, mini + 1) : r \in RankSet})
<1>1. /\ turn \in Nat /\ mini \in 0..(MiniBatches - 1) /\ Laid(plan, MiniRows(mini))
      /\ epoch \in 0..(setting.epochs - 1)
      /\ teacher = 0 /\ uses \in [Samples -> Nat] /\ UsedAs(epoch, Over)
      /\ \A i \in Samples : oldLogp[i] = Before0(i)
      /\ \A r \in RankSet : turn = Len(plan[r])
  BY DEF PassInv, DoneOnAll
<1>2. setting \in Settings
  BY DEF BatchInv
<1>3. Over = UNION {Behind(r, mini + 1) : r \in RankSet}
  BY <1>1, <1>2, OverFacts DEF Over
<1> QED
  BY <1>1, <1>2, <1>3, HasMiniBatches

\* The mini-batch that follows.
LEMMA PassNextMiniBatch == BatchInv /\ PassInv /\ NextMiniBatch => PassInv'
<1> SUFFICES ASSUME BatchInv, PassInv, NextMiniBatch PROVE PassInv'
  OBVIOUS
<1> DEFINE m == mini + 1
<1>1. /\ phase = "update" /\ DoneOnAll /\ m < MiniBatches
      /\ turn' = 0 /\ loss' = {} /\ mini' = m /\ plan' = MiniPlan(m)
      /\ UNCHANGED <<setting, batch, oldLogp, uses, phase, epoch, teacher>>
  BY DEF NextMiniBatch, Optimize
<1>2. /\ mini \in 0..(MiniBatches - 1) /\ MiniBatches \in Nat \ {0}
      /\ epoch \in 0..(setting.epochs - 1)
      /\ teacher = 0 /\ uses \in [Samples -> Nat]
      /\ \A i \in Samples : oldLogp[i] = Before0(i)
      /\ UsedAs(epoch, UNION {Behind(r, m) : r \in RankSet})
  BY <1>1, MiniBatchOver
<1>3. m \in 0..(MiniBatches - 1) /\ m # 0
  BY <1>1, <1>2
<1> HIDE DEF m
<1> QED
  BY <1>1, <1>2, <1>3, PassOfMini DEF UsedAs

\* The epoch that follows, or the end.
LEMMA PassNextEpoch == BatchInv /\ PassInv /\ NextEpoch => PassInv'
<1> SUFFICES ASSUME BatchInv, PassInv, NextEpoch PROVE PassInv'
  OBVIOUS
<1>1. /\ phase = "update" /\ DoneOnAll /\ mini + 1 = MiniBatches
      /\ turn' = 0 /\ loss' = {} /\ mini' = 0 /\ epoch' = epoch + 1
      /\ UNCHANGED <<setting, batch, outs, oldLogp, uses>>
  BY DEF NextEpoch, Optimize
<1>2. /\ MiniBatches \in Nat \ {0} /\ epoch \in 0..(setting.epochs - 1)
      /\ setting.epochs \in Nat \ {0}
      /\ teacher = 0 /\ uses \in [Samples -> Nat]
      /\ \A i \in Samples : oldLogp[i] = Before0(i)
      /\ UsedAs(epoch, UNION {Behind(r, MiniBatches) : r \in RankSet})
  BY <1>1, MiniBatchOver
<1>3. /\ UNION {Behind(r, 0) : r \in RankSet} = {}
      /\ UNION {Behind(r, MiniBatches) : r \in RankSet} = Samples
  BY AllRows DEF BatchInv
<1>4. \A i \in Samples : uses[batch[i]] = epoch + 1
  BY <1>2, <1>3 DEF UsedAs
<1>5. CASE epoch + 1 < setting.epochs
  <2>1. plan' = MiniPlan(0) /\ phase' = "update" /\ teacher' = 0
    BY <1>1, <1>2, <1>5 DEF NextEpoch
  <2>2. epoch' \in 0..(setting.epochs - 1) /\ epoch' # 0 /\ 0 \in 0..(MiniBatches - 1)
    BY <1>1, <1>2, <1>5
  <2>3. \A i \in Samples : uses[batch[i]] = epoch' + (IF i \in UNION {Behind(r, 0) : r \in RankSet}
                                                      THEN 1 ELSE 0)
    BY <1>1, <1>2, <1>3, <1>4
  <2> QED
    BY <1>1, <1>2, <2>1, <2>2, <2>3, PassOfMini
<1>6. CASE ~(epoch + 1 < setting.epochs)
  <2>1. plan' = Idle /\ phase' = "done"
    BY <1>1, <1>6 DEF NextEpoch
  <2>2. epoch + 1 = setting.epochs
    BY <1>2, <1>6
  <2>3. \A s \in Samples : uses[s] = setting.epochs
    BY <1>4, <2>2, BatchFacts
  <2>4. \A r \in RankSet : turn' <= Len(plan'[r])
    BY <1>1, <2>1 DEF Idle
  <2> QED
    BY <1>1, <2>1, <2>3, <2>4 DEF PassInv
<1> QED
  BY <1>5, <1>6

\* Every step keeps PassInv.
LEMMA PassStays == BatchInv /\ PassInv /\ [StepNext]_stepVars => PassInv'
<1> SUFFICES ASSUME BatchInv, PassInv, [StepNext]_stepVars PROVE PassInv'
  OBVIOUS
<1>1. CASE Balance
  BY <1>1, PassBalance, BatchStays
<1>2. CASE UNCHANGED stepVars
  <2>1. UNCHANGED <<setting, phase, batch, plan, turn, outs, oldLogp, epoch,
                    mini, loss, version, teacher, uses>>
    BY <1>2 DEF stepVars
  <2>2. (Laid(plan, RankRows))' = Laid(plan, RankRows)
    BY <2>1 DEF Laid, RankRows
  <2>3. (Laid(plan, MiniRows(mini)))' = Laid(plan, MiniRows(mini))
        /\ MiniBatches' = MiniBatches /\ Over' = Over
    BY <2>1 DEF Laid, MiniRows, MiniBatch, MiniBatches, Over, OverAt, Behind
  <2>4. /\ (\A i \in Samples : oldLogp[i] = Before0(i))'
             = (\A i \in Samples : oldLogp[i] = Before0(i))
        /\ (\A r \in RankSet : outs[r] = Outputs(FlatTo(plan[r], turn)))'
             = (\A r \in RankSet : outs[r] = Outputs(FlatTo(plan[r], turn)))
    BY <2>1 DEF Outputs, Before0
  <2>5. (UsedAs(epoch, Over))' = UsedAs(epoch, Over)
    BY <2>1, <2>3 DEF UsedAs
  <2> QED
    BY <2>1, <2>2, <2>3, <2>4, <2>5 DEF PassInv, Anchored, LateTeacher
<1> QED
  BY <1>1, <1>2, PassForward, PassCollect, PassContext, PassUpdate, PassTrain,
     PassNextMiniBatch, PassNextEpoch
  DEF StepNext, Step, Finished

\* A row is trained against its own log probabilities of before the step and,
\* but for the trust-region teacher after the first mini-batch, a teacher of
\* before the step, and a sample once an epoch, whatever the order of the rows,
\* the micro-batches of each pass and the optimizer steps between them.
THEOREM StepIsAnchored == StepSpec => []StepAnchored
<1>1. StepInit => BatchInv /\ PassInv
  BY BatchStarts, PassStarts
<1>2. BatchInv /\ PassInv /\ [StepNext]_stepVars => BatchInv' /\ PassInv'
  BY BatchStays, PassStays
<1>3. BatchInv /\ PassInv => StepAnchored
  BY DEF BatchInv, PassInv, StepAnchored, Anchored, LateTeacher
<1> QED
  BY <1>1, <1>2, <1>3, PTL DEF StepSpec

\* The ranks run as many micro-batches as each other.
LEMMA PassesAreSame == BatchInv /\ PassInv => SamePasses
<1> SUFFICES ASSUME BatchInv, PassInv PROVE SamePasses
  OBVIOUS
<1>1. CASE phase \in {"balance", "context", "done"}
  BY <1>1 DEF PassInv, SamePasses, Idle
<1>2. CASE phase \in {"logprob", "update"}
  BY <1>2 DEF PassInv, SamePasses, Laid
<1> QED
  BY <1>1, <1>2 DEF BatchInv

-----------------------------------------------------------------------------
\* How much a micro-batch holds.

\* Products of numbers.
LEMMA Distribute ==
  ASSUME NEW a \in Nat, NEW x \in Nat, NEW y \in Nat
  PROVE  /\ a * (x + y) = a * x + a * y
         /\ a * x \in Nat /\ a * y \in Nat
<1>1. a * (x + y) = a * x + a * y
  OBVIOUS
<1>2. a * x \in Nat
  OBVIOUS
<1>3. a * y \in Nat
  OBVIOUS
<1> QED
  BY <1>1, <1>2, <1>3

\* Inequalities add up.
LEMMA AddSides ==
  ASSUME NEW p \in Nat, NEW q \in Nat, NEW r \in Nat, NEW u \in Nat, NEW v \in Nat,
         NEW w \in Nat, NEW c \in Nat, p <= q + r, u <= v + c
  PROVE  /\ p + u <= q + v + (r + c)
         /\ p <= q + (r + c)
  OBVIOUS

\* What compares row by row compares in sum.
LEMMA TotalCompare ==
  ASSUME NEW s \in Seq(Nat), NEW t \in Seq(Nat), Len(s) = Len(t),
         NEW a \in Nat, NEW b \in Nat, NEW c \in Nat, NEW A,
         \A i \in 1..Len(s) : a * s[i] <= b * t[i] + c
  PROVE  a * Total(s, A) <= b * Total(t, A) + c * Len(s)
<1> DEFINE x == Sums(s, A)
           y == Sums(t, A)
           N == Len(s)
           P == {n \in 0..N : a * x[n] <= b * y[n] + c * n}
<1>1. N \in Nat /\ \A n \in 1..N : s[n] \in Nat /\ t[n] \in Nat
  OBVIOUS
<1>2. /\ x[0] = 0 /\ y[0] = 0
      /\ \A n \in 0..N : x[n] \in Nat /\ y[n] \in Nat
  BY SumsFacts
<1>3. \A n \in 1..N :
        /\ x[n] = x[n - 1] + (IF n \in A THEN s[n] ELSE 0)
        /\ y[n] = y[n - 1] + (IF n \in A THEN t[n] ELSE 0)
  BY SumsFacts
<1>4. Total(s, A) = x[N] /\ Total(t, A) = y[N]
  BY SumsFacts
<1>5. \A n \in 1..N : a * s[n] <= b * t[n] + c
  OBVIOUS
<1> HIDE DEF x, y, N
<1>6. 0 \in P
  <2>1. a * 0 = 0 /\ b * 0 = 0 /\ c * 0 = 0 /\ 0 \in 0..N /\ 0 <= 0 + 0
    BY <1>1
  <2> QED
    BY <1>2, <2>1
<1>7. ASSUME NEW n \in 0..(N - 1), n \in P PROVE n + 1 \in P
  <2>1. n + 1 \in 1..N /\ n + 1 \in 0..N /\ (n + 1) - 1 = n /\ n \in 0..N /\ n \in Nat
    BY <1>1
  <2>2. /\ x[n] \in Nat /\ y[n] \in Nat /\ s[n + 1] \in Nat /\ t[n + 1] \in Nat
        /\ a * x[n] <= b * y[n] + c * n
        /\ a * s[n + 1] <= b * t[n + 1] + c
    BY <1>1, <1>2, <1>5, <1>7, <2>1
  <2>3. /\ x[n + 1] = x[n] + (IF n + 1 \in A THEN s[n + 1] ELSE 0)
        /\ y[n + 1] = y[n] + (IF n + 1 \in A THEN t[n + 1] ELSE 0)
    BY <1>3, <2>1
  <2>4. c * (n + 1) = c * n + c /\ c * n \in Nat
    BY <2>1
  <2>5. a * x[n + 1] <= b * y[n + 1] + c * (n + 1)
    <3> DEFINE ax == a * x[n]
               as == a * s[n + 1]
               by == b * y[n]
               bt == b * t[n + 1]
               cn == c * n
    <3>1. /\ a * (x[n] + s[n + 1]) = ax + as /\ ax \in Nat /\ as \in Nat
          /\ b * (y[n] + t[n + 1]) = by + bt /\ by \in Nat /\ bt \in Nat
      BY <2>2, Distribute
    <3>2. ax <= by + cn /\ as <= bt + c /\ cn \in Nat /\ c * (n + 1) = cn + c
      BY <2>2, <2>4
    <3>3. CASE n + 1 \in A
      <4>1. x[n + 1] = x[n] + s[n + 1] /\ y[n + 1] = y[n] + t[n + 1]
        BY <2>3, <3>3
      <4> HIDE DEF ax, as, by, bt, cn
      <4>2. ax + as <= by + bt + (cn + c)
        BY ONLY <3>1, <3>2, c \in Nat, AddSides
      <4> QED
        BY <3>1, <3>2, <4>1, <4>2
    <3>4. CASE n + 1 \notin A
      <4>1. x[n + 1] = x[n] + 0 /\ y[n + 1] = y[n] + 0
        BY <2>3, <3>4
      <4>2. x[n + 1] = x[n] /\ y[n + 1] = y[n]
        <5>1. x[n] \in Nat /\ y[n] \in Nat
          BY <2>2
        <5>2. x[n] + 0 = x[n] /\ y[n] + 0 = y[n]
          BY ONLY <5>1
        <5> QED
          BY ONLY <4>1, <5>2
      <4> HIDE DEF as, bt, cn
      <4>3. a * x[n + 1] = ax /\ b * y[n + 1] = by
        BY <4>2
      <4> HIDE DEF ax, by
      <4>4. ax <= by + (cn + c)
        BY ONLY <3>1, <3>2, c \in Nat, AddSides
      <4> QED
        BY <3>2, <4>3, <4>4
    <3> QED
      BY <3>3, <3>4
  <2> QED
    BY <2>1, <2>5
<1>8. \A n \in 0..N : n \in P
  <2> HIDE DEF P
  <2> QED
    BY <1>1, <1>6, <1>7, UpTo
<1>9. a * x[N] <= b * y[N] + c * N
  BY <1>1, <1>8
<1> QED
  BY <1>4, <1>9 DEF N

\* Sets that hold all the rows and at least c each make n times c.
LEMMA PartsTotal ==
  ASSUME NEW s \in Seq(Nat), NEW n \in Nat \ {0}, NEW parts,
         Partition(parts, n, Len(s)), NEW c \in Nat,
         \A p \in 1..n : c <= Total(s, parts[p])
  PROVE  n * c <= Total(s, 1..Len(s))
<1> DEFINE U(k) == UNION {parts[p] : p \in 1..k}
           P == {k \in 0..n : k * c <= Total(s, U(k))}
<1>1. \A k \in 0..n : Total(s, U(k)) \in Nat
  BY TotalType
<1>2. 0 \in P
  <2>1. U(0) = {} /\ 0 * c = 0
    OBVIOUS
  <2>2. Total(s, {}) = 0
    BY TotalFew
  <2>3. 0 \in 0..n /\ 0 <= 0
    OBVIOUS
  <2> HIDE DEF U
  <2> QED
    BY <2>1, <2>2, <2>3
<1>3. ASSUME NEW k \in 0..(n - 1), k \in P PROVE k + 1 \in P
  <2>1. k + 1 \in 1..n /\ k + 1 \in 0..n /\ k \in Nat /\ k \in 0..n
    OBVIOUS
  <2>2. U(k + 1) = U(k) \cup parts[k + 1]
    <3>1. 1..(k + 1) = (1..k) \cup {k + 1}
      BY <2>1
    <3> QED
      BY <3>1
  <2>3. U(k) \cap parts[k + 1] = {}
    <3>1. ASSUME NEW p \in 1..k PROVE parts[p] \cap parts[k + 1] = {}
      <4>1. p \in 1..n /\ p # k + 1
        BY <2>1
      <4> QED
        BY <2>1, <4>1 DEF Partition
    <3> QED
      BY <3>1
  <2>4. Total(s, parts[k + 1]) \in Nat /\ c <= Total(s, parts[k + 1])
    BY <2>1, TotalType
  <2>5. Total(s, U(k)) \in Nat /\ k * c <= Total(s, U(k))
    BY <1>1, <1>3, <2>1
  <2> HIDE DEF U
  <2>6. Total(s, U(k + 1)) = Total(s, U(k)) + Total(s, parts[k + 1])
    BY <2>2, <2>3, TotalUnion
  <2>7. (k + 1) * c = k * c + c /\ k * c \in Nat
    BY <2>1
  <2>8. (k + 1) * c <= Total(s, U(k + 1))
    BY <2>4, <2>5, <2>6, <2>7
  <2> QED
    BY <2>1, <2>8
<1>4. \A k \in 0..n : k \in P
  <2> HIDE DEF P
  <2>1. n \in Nat
    OBVIOUS
  <2> QED
    BY <1>2, <1>3, <2>1, UpTo
<1>5. U(n) = 1..Len(s)
  <2>1. \A p \in 1..n : parts[p] \in SUBSET (1..Len(s))
    BY DEF Partition
  <2>2. \A i \in 1..Len(s) : \E p \in 1..n : i \in parts[p]
    BY DEF Partition
  <2> QED
    BY <2>1, <2>2
<1> QED
  BY SMTT(30), <1>4, <1>5

\* No more rows than limit tokens each need.
Covers(n, lens, limit) ==
  Total(lens, 1..Len(lens)) <= n * limit

\* No more tokens than the limit and a row i together, but for what makes a
\* token of that row dearer than one alone.
Fits(tokens, len, limit) == 24576 * tokens <= (24576 + len) * (limit + len)

\* l tokens at the price of one in a row of L.
Priced(l, L) == (24576 + L) * l

\* Attention over l tokens: no less than for the tokens alone, and no more than
\* at the price of a longer row.
LEMMA WorkloadFacts ==
  ASSUME NEW l \in Nat
  PROVE  /\ Workload(l) = (24576 + l) * l
         /\ Workload(l) \in Nat
         /\ 24576 * l <= Workload(l)
         /\ \A m \in Nat : l <= m => /\ Workload(l) <= Priced(l, m)
                                     /\ Workload(l) <= Workload(m)
<1>1. Workload(l) = (24576 + l) * l /\ Workload(l) = 24576 * l + l * l
  BY DEF Workload
<1>2. l * l \in Nat /\ 24576 * l \in Nat
  OBVIOUS
<1>3. Workload(l) \in Nat /\ 24576 * l <= Workload(l)
  BY <1>1, <1>2
<1>4. ASSUME NEW L \in Nat, l <= L
      PROVE  /\ Workload(l) <= Priced(l, L)
             /\ Workload(l) <= Workload(L)
  <2>1. l * l <= L * l /\ L * l <= L * L
    <3>1. CASE l = L
      BY <3>1
    <3>2. CASE l < L
      <4>1. l * l + l <= L * l /\ L * l \in Nat
        BY <3>2, TimesMono
      <4>2. l * L + L <= L * L /\ L * L \in Nat /\ l * L \in Nat
        BY <3>2, TimesMono
      <4>3. l * L = L * l
        OBVIOUS
      <4> QED
        BY <1>2, <4>1, <4>2, <4>3
    <3> QED
      BY <1>4, <3>1, <3>2
  <2>2. L * l \in Nat /\ L * L \in Nat
    OBVIOUS
  <2>3. (24576 + L) * l = 24576 * l + L * l
    OBVIOUS
  <2>4. Workload(L) = 24576 * L + L * L /\ 24576 * l <= 24576 * L
    BY <1>4 DEF Workload
  <2> DEFINE ll == l * l
             Ll == L * l
             LL == L * L
  <2>5. /\ Workload(l) = 24576 * l + ll /\ (24576 + L) * l = 24576 * l + Ll
        /\ Workload(L) = 24576 * L + LL /\ ll <= Ll /\ Ll <= LL
        /\ ll \in Nat /\ Ll \in Nat /\ LL \in Nat
    BY <1>1, <1>2, <2>1, <2>2, <2>3, <2>4
  <2> HIDE DEF ll, Ll, LL
  <2>6. Workload(l) <= (24576 + L) * l
    BY <2>5
  <2>7. Workload(l) <= Workload(L)
    BY <1>4, <2>5
  <2> QED
    BY <2>6, <2>7 DEF Priced
<1> QED
  BY <1>1, <1>3, <1>4

\* A workload is a number.
LEMMA WorkloadType == \A x \in Nat : Workload(x) \in Nat
BY WorkloadFacts

\* Some row is the longest.
LEMMA LongestExists ==
  ASSUME NEW lens \in Seq(Nat \ {0}), Len(lens) > 0
  PROVE  \E i \in 1..Len(lens) : \A j \in 1..Len(lens) : lens[j] <= lens[i]
<1> DEFINE S == {lens[i] : i \in 1..Len(lens)}
<1>1. Len(lens) \in Nat /\ 1 \in 1..Len(lens) /\ DOMAIN lens = 1..Len(lens)
      /\ \A i \in 1..Len(lens) : lens[i] \in Nat
  OBVIOUS
<1>2. IsFiniteSet(S)
  <2>1. IsFiniteSet(1..Len(lens))
    BY <1>1, FS_Interval
  <2> QED
    BY <1>1, <2>1, ImageFinite
<1>3. S \in SUBSET Nat /\ S # {}
  BY <1>1
<1>4. PICK m \in S : \A x \in S : x <= m
  <2> HIDE DEF S
  <2> QED
    BY <1>2, <1>3, GreatestExists
<1> QED
  BY <1>4

\* A factor can be left out of an inequality.
LEMMA CancelLess ==
  ASSUME NEW a \in Nat, NEW b \in Nat, NEW k \in Nat \ {0}, k * a <= k * b
  PROVE  a <= b
<1>1. ~(b < a)
  <2>1. ASSUME b < a PROVE FALSE
    <3>1. b * k + k <= a * k
      BY <2>1, TimesMono
    <3>2. b * k = k * b /\ a * k = k * a /\ k * a \in Nat /\ k * b \in Nat
      OBVIOUS
    <3> DEFINE x == k * a
               y == k * b
    <3>3. y + k <= x /\ x <= y /\ x \in Nat /\ y \in Nat
      BY <3>1, <3>2
    <3> HIDE DEF x, y
    <3> QED
      BY <3>3
  <2> QED
    BY <2>1
<1> QED
  BY <1>1

\* If sets that hold all rows differ in work by no more than that of the
\* longest row, and n times the limit is enough for all, each of them fits.
LEMMA SetFits ==
  ASSUME NEW lens \in Seq(Nat \ {0}), NEW n \in Nat \ {0}, NEW limit \in Nat,
         Covers(n, lens, limit), NEW parts, Partition(parts, n, Len(lens)),
         NEW L \in Nat, \A i \in 1..Len(lens) : lens[i] <= L,
         NEW p \in 1..n,
         \A q \in 1..n : Total(LoadsFor(lens), parts[p])
                           <= Total(LoadsFor(lens), parts[q]) + Workload(L)
  PROVE  Fits(Total(lens, parts[p]), L, limit)
<1> DEFINE loads == LoadsFor(lens)
           N == Len(lens)
           a == 24576 + L
           w == Workload(L)
           cost == Total(loads, parts[p])
           tokens == Total(lens, parts[p])
           all == Total(lens, 1..N)
           work == Total(loads, 1..N)
<1>1. /\ loads \in Seq(Nat) /\ Len(loads) = N /\ N \in Nat /\ lens \in Seq(Nat)
      /\ \A i \in 1..N : loads[i] = Workload(lens[i]) /\ lens[i] \in Nat
  <2>1. lens \in Seq(Nat) /\ N \in Nat /\ \A i \in 1..N : lens[i] \in Nat
    OBVIOUS
  <2> QED
    BY <2>1, LoadsFacts
<1>2. a \in Nat /\ w \in Nat /\ w = a * L
  BY WorkloadFacts
<1>3. cost \in Nat /\ tokens \in Nat /\ all \in Nat /\ work \in Nat
  BY <1>1, TotalType
<1>4. \A i \in 1..N : 24576 * lens[i] <= loads[i] /\ loads[i] <= a * lens[i]
  <2> SUFFICES ASSUME NEW i \in 1..N
               PROVE  24576 * lens[i] <= loads[i] /\ loads[i] <= a * lens[i]
    OBVIOUS
  <2>1. loads[i] = Workload(lens[i]) /\ lens[i] \in Nat /\ lens[i] <= L
    BY <1>1
  <2> DEFINE l == lens[i]
  <2>2. l \in Nat /\ l <= L
    BY <2>1
  <2> HIDE DEF l
  <2>3. 24576 * l <= Workload(l) /\ Workload(l) <= Priced(l, L)
    <3>1. l \in Nat /\ L \in Nat /\ l <= L
      BY <2>2
    <3>2. 24576 * l <= Workload(l)
      BY ONLY <3>1, WorkloadFacts
    <3>3. Workload(l) <= Priced(l, L)
      BY ONLY <3>1, WorkloadFacts
    <3> QED
      BY ONLY <3>2, <3>3
  <2>4. loads[i] = Workload(l)
    BY <2>1 DEF l
  <2> HIDE DEF loads
  <2> QED
    BY <2>3, <2>4 DEF l, Priced
<1> HIDE DEF loads, a, w
<1>5. 24576 * tokens <= cost
  <2>1. \A i \in 1..Len(lens) : 24576 * lens[i] <= 1 * loads[i] + 0
    <3>1. \A i \in 1..N : loads[i] \in Nat
      BY <1>1
    <3> QED
      BY <1>4, <3>1
  <2>2. 24576 * tokens <= 1 * cost + 0 * Len(lens)
    <3> DEFINE c == 24576
               one == 1
               none == 0
    <3>1. c \in Nat /\ one \in Nat /\ none \in Nat /\ Len(lens) = Len(loads)
          /\ lens \in Seq(Nat) /\ loads \in Seq(Nat)
      BY <1>1
    <3>2. \A i \in 1..Len(lens) : c * lens[i] <= one * loads[i] + none
      BY <2>1
    <3> HIDE DEF c, one, none
    <3>3. c * Total(lens, parts[p]) <= one * Total(loads, parts[p]) + none * Len(lens)
      BY ONLY <3>1, <3>2, TotalCompare
    <3> QED
      BY <3>3 DEF c, one, none
  <2>3. 1 * cost + 0 * N = cost
    BY <1>1, <1>3
  <2> QED
    BY <2>2, <2>3
<1>6. work <= a * all
  <2>1. \A i \in 1..Len(loads) : 1 * loads[i] <= a * lens[i] + 0
    <3> SUFFICES ASSUME NEW i \in 1..N PROVE 1 * loads[i] <= a * lens[i] + 0
      BY <1>1
    <3>1. loads[i] \in Nat /\ lens[i] \in Nat /\ loads[i] <= a * lens[i]
      BY <1>1, <1>4
    <3>2. a * lens[i] \in Nat
      BY <1>2, <3>1, Distribute
    <3> DEFINE ai == a * lens[i]
    <3>3. ai \in Nat /\ loads[i] <= ai
      BY <3>1, <3>2
    <3> HIDE DEF ai
    <3>4. 1 * loads[i] <= ai + 0
      BY <3>1, <3>3
    <3> QED
      BY <3>4 DEF ai
  <2>2. 1 * work <= a * all + 0 * Len(loads)
    BY <1>1, <1>2, <2>1, TotalCompare
  <2> DEFINE aa == a * all
  <2>3. aa \in Nat
    BY <1>2, <1>3, Distribute
  <2>4. 1 * work <= aa + 0 * N
    BY <1>1, <2>2
  <2>5. work <= aa
    <3> HIDE DEF aa, N, work
    <3> QED
      BY <1>1, <1>3, <2>3, <2>4
  <2> QED
    BY <2>5
<1>7. all <= n * limit
  BY DEF Covers
<1>8. ASSUME NEW c \in Nat, cost = c + w PROVE c <= a * limit
  <2>1. \A q \in 1..n : c <= Total(loads, parts[q])
    <3> SUFFICES ASSUME NEW q \in 1..n PROVE c <= Total(loads, parts[q])
      OBVIOUS
    <3>1. cost <= Total(loads, parts[q]) + w
      BY DEF loads, w
    <3>2. Total(loads, parts[q]) \in Nat
      BY <1>1, TotalType
    <3> HIDE DEF cost
    <3> QED
      BY <1>2, <1>8, <3>1, <3>2
  <2>2. n * c <= work
    <3>1. Partition(parts, n, Len(loads))
      BY <1>1
    <3>2. n * c <= Total(loads, 1..Len(loads))
      BY <1>1, <2>1, <3>1, PartsTotal
    <3> QED
      BY <1>1, <3>2
  <2>3. a * all <= a * (n * limit)
    <3>1. n * limit \in Nat
      BY Distribute
    <3> DEFINE m == n * limit
    <3>2. m \in Nat /\ all <= m
      BY <1>7, <3>1
    <3> HIDE DEF m, all
    <3>3. a * all <= a * m
      <4>1. CASE all = m
        <5>1. a * m \in Nat
          BY <1>2, <3>2, Distribute
        <5> QED
          BY <4>1, <5>1
      <4>2. CASE all < m
        <5>1. all * a + a <= m * a /\ all * a \in Nat /\ m * a \in Nat
          BY <1>2, <1>3, <3>2, <4>2, TimesMono
        <5>2. all * a = a * all /\ m * a = a * m
          BY <1>2, <1>3, <3>2
        <5> DEFINE x == all * a
                   y == m * a
        <5>3. x + a <= y /\ x \in Nat /\ y \in Nat
          BY <5>1
        <5> HIDE DEF x, y
        <5>4. x <= y
          BY <1>2, <5>3
        <5> QED
          BY <5>2, <5>4 DEF x, y
      <4> QED
        BY <1>3, <3>2, <4>1, <4>2
    <3> QED
      BY <3>3 DEF m
  <2>4. a * (n * limit) = n * (a * limit)
    BY <1>2
  <2>5. n * c <= n * (a * limit)
    <3> DEFINE x == n * c
               y == a * all
               z == n * (a * limit)
    <3>1. x \in Nat /\ y \in Nat /\ z \in Nat
      <4>1. a * limit \in Nat
        BY <1>2, Distribute
      <4> QED
        BY <1>2, <1>3, <4>1, Distribute
    <3>2. x <= work /\ work <= y /\ y <= z
      BY <1>6, <2>2, <2>3, <2>4
    <3> HIDE DEF x, y, z, work
    <3>3. x <= z
      BY <1>3, <3>1, <3>2
    <3> QED
      BY <3>3 DEF x, z
  <2>6. a * limit \in Nat
    BY <1>2, Distribute
  <2> QED
    BY <2>5, <2>6, CancelLess
<1>9. /\ a * (limit + L) = a * limit + w
      /\ a * limit \in Nat
  BY <1>2, Distribute
<1>10. cost <= a * (limit + L)
  <2> DEFINE al == a * limit
             total == a * (limit + L)
  <2>1. total = al + w /\ al \in Nat
    BY <1>9
  <2>2. CASE cost <= w
    <3> HIDE DEF al, total, cost
    <3>1. cost <= total
      BY <1>2, <1>3, <2>1, <2>2
    <3> QED
      BY <3>1 DEF total, cost
  <2>3. CASE cost > w
    <3>1. cost - w \in Nat /\ cost = (cost - w) + w
      <4> HIDE DEF cost
      <4> QED
        BY <1>2, <1>3, <2>3
    <3>2. cost - w <= al
      BY <1>8, <3>1
    <3> HIDE DEF al, total, cost
    <3>3. cost <= total
      BY <1>2, <1>3, <2>1, <3>1, <3>2
    <3> QED
      BY <3>3 DEF total, cost
  <2> QED
    BY <1>2, <1>3, <2>2, <2>3
<1>11. 24576 * tokens <= (24576 + L) * (limit + L)
  <2> DEFINE t == 24576 * tokens
             total == a * (limit + L)
  <2>1. t \in Nat /\ total \in Nat
    <3>1. 24576 \in Nat /\ limit + L \in Nat
      OBVIOUS
    <3> QED
      BY <1>2, <1>3, <3>1, Distribute
  <2>2. t <= cost /\ cost <= total
    BY <1>5, <1>10
  <2> HIDE DEF t, total, cost
  <2>3. t <= total
    BY <1>3, <2>1, <2>2
  <2> QED
    BY <2>3 DEF t, total, a
<1> QED
  BY <1>11 DEF Fits

\* Every list is of a set of rows that fits.
Fitting(ms, lens, limit) ==
  \A m \in 1..Len(ms) : \E A \in SUBSET (1..Len(lens)) :
    /\ Lists(ms[m], A) /\ A # {}
    /\ \E i \in 1..Len(lens) : Fits(Total(lens, A), lens[i], limit)

\* Of n micro-batches that have room for all tokens, each fits.
LEMMA MicroBatchesFitting ==
  ASSUME NEW lens \in Seq(Nat \ {0}), Len(lens) > 0, NEW n \in Nat \ {0},
         n <= Len(lens), NEW limit \in Nat, Covers(n, lens, limit)
  PROVE  Fitting(MicroBatches(lens, n), lens, limit)
<1> DEFINE loads == LoadsFor(lens)
           parts == BalancedPartitions(loads, n, FALSE)
           ms == MicroBatches(lens, n)
           N == Len(lens)
<1>1. /\ loads \in Seq(Nat) /\ Len(loads) = N /\ N > 0
      /\ \A i \in 1..N : loads[i] = Workload(lens[i]) /\ lens[i] \in Nat
  <2>1. \A i \in 1..N : lens[i] \in Nat
    OBVIOUS
  <2> QED
    BY <2>1, LoadsFacts
<1>2. Len(ms) = n /\ FromParts(ms, parts, n)
  BY MicroBatchesFacts
<1> HIDE DEF ms
<1>3. /\ Partition(parts, n, N)
      /\ \E r \in 1..N : \A i, j \in 1..n :
           Total(loads, parts[i]) <= Total(loads, parts[j]) + loads[r]
      /\ \A i \in 1..n : parts[i] # {}
  <2> HIDE DEF loads
  <2> QED
    BY <1>1, UnequalPartition
<1> HIDE DEF parts
<1>4. PICK l \in 1..N : \A j \in 1..N : lens[j] <= lens[l]
  BY <1>1, LongestExists
<1> DEFINE L == lens[l]
<1>5. L \in Nat /\ \A i \in 1..N : lens[i] <= L
  BY <1>1, <1>4
<1> HIDE DEF L
<1>6. ASSUME NEW p \in 1..n, NEW q \in 1..n
      PROVE  Total(loads, parts[p]) <= Total(loads, parts[q]) + Workload(L)
  <2>1. PICK r \in 1..N : \A i, j \in 1..n :
          Total(loads, parts[i]) <= Total(loads, parts[j]) + loads[r]
    BY <1>3
  <2>2. Total(loads, parts[p]) <= Total(loads, parts[q]) + loads[r]
    BY <2>1
  <2> DEFINE x == lens[r]
             tp == Total(loads, parts[p])
             tq == Total(loads, parts[q])
  <2>3. x \in Nat /\ x <= L /\ loads[r] = Workload(x)
    BY <1>1, <1>5
  <2> HIDE DEF x
  <2>4. Workload(x) <= Workload(L)
    BY ONLY <1>5, <2>3, WorkloadFacts
  <2>5. Workload(x) \in Nat /\ Workload(L) \in Nat
    <3>1. Workload(x) \in Nat
      BY ONLY <2>3, WorkloadFacts
    <3>2. Workload(L) \in Nat
      <4>1. L \in Nat
        BY <1>5
      <4> QED
        BY ONLY <4>1, WorkloadType
    <3> QED
      BY ONLY <3>1, <3>2
  <2>6. tp \in Nat /\ tq \in Nat /\ tp <= tq + Workload(x)
    BY <1>1, <2>2, <2>3, TotalType
  <2> HIDE DEF tp, tq
  <2>7. tp <= tq + Workload(L)
    BY ONLY <2>4, <2>5, <2>6
  <2> QED
    BY <2>7 DEF tp, tq
<1>7. ASSUME NEW p \in 1..n PROVE Fits(Total(lens, parts[p]), L, limit)
  <2>1. \A q \in 1..n : Total(loads, parts[p]) <= Total(loads, parts[q]) + Workload(L)
    BY <1>6
  <2> QED
    BY <1>3, <1>5, <2>1, SetFits DEF loads
<1>8. ASSUME NEW m \in 1..Len(ms)
      PROVE  \E A \in SUBSET (1..N) :
               /\ Lists(ms[m], A) /\ A # {}
               /\ \E i \in 1..N : Fits(Total(lens, A), lens[i], limit)
  <2>1. PICK p \in 1..n : Lists(ms[m], parts[p])
    BY <1>2, <1>8 DEF FromParts
  <2>2. parts[p] \in SUBSET (1..N) /\ parts[p] # {}
    BY <1>3 DEF Partition
  <2>3. Fits(Total(lens, parts[p]), lens[l], limit)
    BY <1>7 DEF L
  <2> QED
    BY <2>1, <2>2, <2>3
<1> QED
  BY <1>8 DEF Fitting, ms

\* As many micro-batches as a rank wants, or more, are enough for its tokens.
LEMMA WantedCovers ==
  ASSUME NEW lens \in Seq(Nat \ {0}), Len(lens) > 0, NEW limit \in Nat \ {0},
         \A i \in 1..Len(lens) : lens[i] <= limit,
         NEW n \in Nat, MicroBatchesWanted(lens, limit) <= n
  PROVE  Covers(n, lens, limit)
<1> DEFINE N == Len(lens)
           all == Total(lens, 1..N)
           c == CeilDiv(all, limit)
<1>1. /\ N \in Nat \ {0} /\ DOMAIN lens = 1..N /\ lens \in Seq(Nat)
      /\ \A i \in 1..N : lens[i] \in Nat
  OBVIOUS
<1>2. all \in Nat
  BY <1>1, TotalType
<1>3. c \in Nat /\ all <= c * limit /\ c * limit \in Nat
  <2>3. all > 0
    <3>1. 1..N # {}
      BY <1>1
    <3>2. DOMAIN lens \in SUBSET DOMAIN lens /\ DOMAIN lens # {} /\ DOMAIN lens = 1..N
      BY <1>1, <3>1
    <3>3. Total(lens, DOMAIN lens) > 0
      BY <3>2, TotalPositive
    <3> QED
      BY <3>2, <3>3
  <2>4. all \in Nat \ {0}
    BY <1>2, <2>3
  <2> HIDE DEF all
  <2>1. c \in Nat /\ all <= c * limit
    BY <2>4, CeilFacts
  <2> HIDE DEF c
  <2>2. c * limit \in Nat
    BY <2>1, Distribute
  <2> QED
    BY <2>1, <2>2
<1>4. MicroBatchesWanted(lens, limit) = IF c < N THEN c ELSE N
  BY <1>1 DEF MicroBatchesWanted
<1>5. all <= N * limit
  <2> DEFINE one == 1
             none == 0
  <2>1. \A i \in 1..N : one * lens[i] <= none * lens[i] + limit
    BY <1>1
  <2>2. one \in Nat /\ none \in Nat /\ limit \in Nat
    OBVIOUS
  <2> HIDE DEF one, none
  <2>3. one * Total(lens, 1..N) <= none * Total(lens, 1..N) + limit * N
    BY <1>1, <2>1, <2>2, TotalCompare
  <2> HIDE DEF N
  <2>4. limit * N = N * limit /\ N * limit \in Nat
    <3>1. limit * N = N * limit
      BY <1>1
    <3>2. N * limit \in Nat
      BY <1>1, Distribute
    <3> QED
      BY <3>1, <3>2
  <2> DEFINE nl == N * limit
  <2>5. one * all = all /\ none * all = 0
    BY <1>2 DEF one, none
  <2>6. all <= 0 + nl /\ nl \in Nat
    BY <2>3, <2>4, <2>5
  <2> HIDE DEF all, nl
  <2>7. all <= nl
    BY <1>2, <2>6
  <2> QED
    BY <2>7 DEF nl, all
<1> HIDE DEF N, all, c
<1>6. ASSUME NEW k \in Nat, all <= k * limit, k <= n PROVE all <= n * limit
  <2>1. CASE k = n
    BY <1>6, <2>1
  <2>2. CASE k < n
    <3> DEFINE x == k * limit
               y == n * limit
    <3>1. x + limit <= y /\ x \in Nat /\ y \in Nat
      BY <2>2, TimesMono
    <3>2. all <= x
      BY <1>6
    <3> HIDE DEF x, y
    <3>3. all <= y
      BY <1>2, <3>1, <3>2
    <3> QED
      BY <3>3 DEF y
  <2> QED
    BY <1>6, <2>1, <2>2
<1>7. all <= n * limit
  <2>1. CASE c < N
    <3>1. c <= n
      BY <1>4, <2>1
    <3> QED
      BY <1>3, <1>6, <3>1
  <2>2. CASE ~(c < N)
    <3>1. N <= n /\ N \in Nat
      BY <1>1, <1>4, <2>2
    <3> QED
      BY <1>5, <1>6, <3>1
  <2> QED
    BY <2>1, <2>2
<1> QED
  BY <1>7 DEF Covers, all, N

\* Where a map takes the rows of a set from.
TakenFrom(f, A) == {f[i] : i \in A}

\* Rows weigh the same where they are and where they are taken from.
LEMMA TotalMoved ==
  ASSUME NEW t \in Seq(Nat), NEW s \in Seq(Nat), NEW f \in [1..Len(t) -> 1..Len(s)],
         \A i, j \in 1..Len(t) : f[i] = f[j] => i = j,
         \A i \in 1..Len(t) : t[i] = s[f[i]],
         NEW A \in SUBSET (1..Len(t))
  PROVE  Total(t, A) = Total(s, TakenFrom(f, A))
<1> DEFINE N == Len(t)
           B(n) == {i \in A : i <= n}
           F(n) == {f[i] : i \in B(n)}
           P == {n \in 0..N : Total(t, B(n)) = Total(s, F(n))}
           D == 1..Len(s)
<1>1. N \in Nat /\ A \in SUBSET (1..N)
  OBVIOUS
<1>9. \A i \in 1..N : f[i] \in D
  OBVIOUS
<1>10. \A i \in 1..N : t[i] = s[f[i]]
  OBVIOUS
<1>11. \A i, j \in 1..N : f[i] = f[j] => i = j
  OBVIOUS
<1>12. t \in Seq(Nat) /\ s \in Seq(Nat) /\ N = Len(t) /\ D = 1..Len(s)
  OBVIOUS
<1> HIDE DEF N, D
<1>2. Total(t, {}) = 0 /\ Total(s, {}) = 0
  BY TotalFew
<1>3. 0 \in P
  <2>1. B(0) = {} /\ 0 \in 0..N
    <3>1. \A i \in A : i \in Nat /\ i > 0
      BY ONLY <1>1
    <3>2. ASSUME NEW i \in B(0) PROVE FALSE
      BY <3>1
    <3>3. 0 \in 0..N
      BY ONLY <1>1
    <3> QED
      BY <3>2, <3>3
  <2>2. F(0) = {}
    BY <2>1
  <2> HIDE DEF B, F
  <2> QED
    BY <1>2, <2>1, <2>2
<1>4. ASSUME NEW n \in 0..(N - 1), n \in P PROVE n + 1 \in P
  <2>1. n + 1 \in 1..N /\ n + 1 \in 0..N /\ n \in Nat
    BY <1>1
  <2>2. Total(t, B(n)) = Total(s, F(n))
    BY <1>4
  <2>3. CASE n + 1 \in A
    <3>1. B(n + 1) = B(n) \cup {n + 1} /\ B(n) \cap {n + 1} = {}
      <4>1. \A i \in A : i \in Nat
        BY ONLY <1>1
      <4>2. \A i \in A : i <= n + 1 <=> i <= n \/ i = n + 1
        BY ONLY <4>1, <2>1
      <4>3. ~(n + 1 <= n)
        BY ONLY <2>1
      <4>4. B(n + 1) = B(n) \cup {n + 1}
        BY ONLY <4>2, <2>3, <4>3, <2>1 DEF B
      <4>5. n + 1 \notin B(n)
        BY <4>3
      <4> HIDE DEF B
      <4> QED
        BY <4>4, <4>5
    <3>2. F(n + 1) = F(n) \cup {f[n + 1]}
      BY <3>1
    <3>3. F(n) \cap {f[n + 1]} = {}
      <4>1. ASSUME NEW i \in B(n) PROVE f[i] # f[n + 1]
        <5>1. i \in 1..N /\ i # n + 1
          BY ONLY <1>1, <2>1, <4>1
        <5> QED
          BY ONLY <1>11, <2>1, <5>1
      <4> QED
        BY <4>1
    <3> HIDE DEF B, F
    <3>4. Total(t, B(n + 1)) = Total(t, B(n)) + Total(t, {n + 1})
      <4> DEFINE X == B(n)
                 Y == {n + 1}
                 Z == B(n + 1)
      <4>1. Z = X \cup Y /\ X \cap Y = {}
        BY <3>1
      <4>2. t \in Seq(Nat)
        BY <1>12
      <4> HIDE DEF X, Y, Z
      <4>3. Total(t, X \cup Y) = Total(t, X) + Total(t, Y)
        BY ONLY <4>1, <4>2, TotalUnion
      <4>4. Total(t, Z) = Total(t, X) + Total(t, Y)
        BY ONLY <4>1, <4>3
      <4> QED
        BY <4>4 DEF X, Y, Z
    <3>5. Total(s, F(n + 1)) = Total(s, F(n)) + Total(s, {f[n + 1]})
      BY ONLY ZenonT(30), <1>12, <3>2, <3>3, TotalUnion
    <3>6. Total(t, {n + 1}) = t[n + 1] /\ Total(s, {f[n + 1]}) = s[f[n + 1]]
      <4>1. f[n + 1] \in 1..Len(s) /\ n + 1 \in 1..Len(t)
        BY ONLY <1>9, <1>12, <2>1
      <4> QED
        BY ONLY <1>12, <4>1, TotalFew
    <3>7. t[n + 1] = s[f[n + 1]]
      BY ONLY <1>10, <2>1
    <3> QED
      BY <2>1, <2>2, <3>4, <3>5, <3>6, <3>7
  <2>4. CASE n + 1 \notin A
    <3>1. B(n + 1) = B(n)
      <4>1. \A i \in A : i \in Nat
        BY ONLY <1>1
      <4>2. \A i \in A : i <= n + 1 <=> i <= n
        BY ONLY <4>1, <2>1, <2>4
      <4> QED
        BY ONLY <4>2
    <3>2. F(n + 1) = F(n)
      BY <3>1
    <3> HIDE DEF B, F
    <3> QED
      BY <2>1, <2>2, <3>1, <3>2
  <2> QED
    BY <2>3, <2>4
<1>5. \A n \in 0..N : n \in P
  <2> HIDE DEF P, N
  <2> QED
    BY <1>1, <1>3, <1>4, UpTo
<1>6. B(N) = A
  <2>1. \A i \in A : i <= N
    BY ONLY <1>1
  <2> QED
    BY <2>1
<1>7. F(N) = {f[i] : i \in A}
  BY <1>6
<1>8. Total(t, B(N)) = Total(s, F(N))
  <2>1. N \in P
    <3>1. N \in 0..N
      BY ONLY <1>1
    <3> HIDE DEF P
    <3> QED
      BY ONLY <1>5, <3>1
  <2> HIDE DEF B, F
  <2> QED
    BY ONLY <2>1
<1> HIDE DEF B, F
<1> QED
  BY <1>6, <1>7, <1>8 DEF N, TakenFrom

\* Each micro-batch of a rank is of some of its rows, not of none, and fits.
RowsFit(p, order, rows) ==
  \A m \in DOMAIN p :
    /\ p[m] # <<>>
    /\ \E i \in 1..Len(rows) :
         Fits(Total(input.len, {order[x] : x \in ToSet(p[m])}),
              input.len[order[rows[i]]], setting.maxTokens)

\* The micro-batches of one rank.
LEMMA RankFits ==
  ASSUME setting \in Settings, setting.dynamic, input \in Inputs,
         NEW order \in [Samples -> Samples],
         \A i, j \in Samples : order[i] = order[j] => i = j,
         NEW rows, Sendable(rows), NEW n \in Nat \ {0}, Agreed(n, order, rows),
         NEW r \in RankSet
  PROVE  RowsFit(RowsAt(rows[r], MicroBatches(LengthsOf(order, rows[r]), n)),
                 order, rows[r])
<1> DEFINE q == rows[r]
           lens == LengthsOf(order, q)
           ms == MicroBatches(lens, n)
           p == RowsAt(q, ms)
           L == Len(q)
           limit == setting.maxTokens
           f == [i \in 1..L |-> order[q[i]]]
<1>1. setting.maxTokens \in Nat \ {0}
  BY SettingFacts
<1>2. /\ input.len \in [Samples -> Nat \ {0}]
      /\ \A s \in Samples : input.len[s] \in Nat /\ input.len[s] <= limit
  <2>1. input.len \in [Samples -> Nat \ {0}]
    BY InputsAssumption
  <2>2. \A s \in Samples : input.len[s] <= setting.maxTokens
    BY LimitAssumption
  <2> QED
    BY <2>1, <2>2
<1>3. /\ L \in Nat \ {0} /\ DOMAIN q = 1..L
      /\ \A i \in 1..L : q[i] \in Samples
      /\ \A i, j \in 1..L : q[i] = q[j] => i = j
  <2>1. rows[r] \in Seq(Samples) /\ rows[r] # <<>> /\ Lists(rows[r], ToSet(rows[r]))
    BY DEF Sendable
  <2> QED
    BY <2>1 DEF Lists
<1>4. /\ lens \in Seq(Nat \ {0}) /\ Len(lens) = L /\ Len(lens) > 0
      /\ \A i \in 1..L : lens[i] = input.len[f[i]]
  <2>1. /\ lens \in Seq(Nat \ {0}) /\ Len(lens) = L /\ Len(lens) > 0
        /\ \A i \in 1..L : lens[i] = input.len[order[q[i]]]
    BY <1>2, LengthsFacts
  <2> QED
    BY <2>1
<1>5. n <= L /\ MicroBatchesWanted(lens, limit) <= n
  BY DEF Agreed
<1>6. /\ f \in [1..L -> Samples]
      /\ \A i \in 1..L : f[i] = order[q[i]]
      /\ \A i, j \in 1..L : f[i] = f[j] => i = j
  <2>1. f \in [1..L -> Samples] /\ \A i \in 1..L : f[i] = order[q[i]]
    BY <1>3
  <2>2. ASSUME NEW i \in 1..L, NEW j \in 1..L, f[i] = f[j] PROVE i = j
    <3>1. order[q[i]] = order[q[j]]
      BY <2>1, <2>2
    <3>2. q[i] = q[j]
      BY <1>3, <3>1
    <3> QED
      BY <1>3, <3>2
  <2> HIDE DEF f
  <2> QED
    BY <2>1, <2>2
<1> HIDE DEF f, lens, limit
<1>7. Covers(n, lens, limit)
  <2>1. \A i \in 1..Len(lens) : lens[i] <= limit
    BY <1>2, <1>4, <1>6
  <2>2. limit \in Nat \ {0} /\ n \in Nat
    BY <1>1 DEF limit
  <2> QED
    BY ONLY <1>4, <1>5, <2>1, <2>2, WantedCovers
<1>8. Fitting(ms, lens, limit)
  <2>1. limit \in Nat /\ n <= Len(lens)
    BY <1>1, <1>4, <1>5 DEF limit
  <2> QED
    BY <1>4, <1>7, <2>1, MicroBatchesFitting
<1>9. ms \in Seq(Seq(1..L))
  <2>1. Parts(ms, 1..Len(lens))
    BY <1>4, MicroBatchesFacts
  <2> QED
    BY <1>4, <2>1 DEF Parts
<1> HIDE DEF ms, L
<1>10. ASSUME NEW m \in DOMAIN p
       PROVE  /\ p[m] # <<>>
              /\ \E i \in 1..L :
                   Fits(Total(input.len, {order[x] : x \in ToSet(p[m])}),
                        input.len[order[q[i]]], limit)
  <2>1. m \in 1..Len(ms) /\ m \in DOMAIN ms /\ ms[m] \in Seq(1..L)
        /\ p[m] = [i \in DOMAIN ms[m] |-> q[ms[m][i]]]
    BY <1>9, <1>10 DEF RowsAt
  <2> HIDE DEF p
  <2>2. PICK A \in SUBSET (1..Len(lens)) :
          /\ Lists(ms[m], A) /\ A # {}
          /\ \E i \in 1..Len(lens) : Fits(Total(lens, A), lens[i], limit)
    BY <1>8, <2>1 DEF Fitting
  <2>3. PICK i \in 1..L : Fits(Total(lens, A), lens[i], limit)
    BY <1>4, <2>2
  <2> DEFINE w == ms[m]
             K == Len(w)
  <2>11. w \in Seq(1..L)
    BY <2>1
  <2> HIDE DEF w
  <2>4. DOMAIN w = 1..K /\ K \in Nat /\ \A k \in 1..K : w[k] \in 1..L
    <3> DEFINE S == 1..L
    <3>1. w \in Seq(S)
      BY <2>11
    <3> HIDE DEF S
    <3>2. DOMAIN w = 1..Len(w) /\ Len(w) \in Nat /\ \A k \in 1..Len(w) : w[k] \in S
      BY ONLY <3>1
    <3> QED
      BY <3>2 DEF K, S
  <2>5. /\ \A x \in A : \E k \in 1..K : w[k] = x
        /\ \A k \in 1..K : w[k] \in A
    <3>1. w \in Seq(A) /\ \A x \in A : \E k \in 1..K : w[k] = x
      BY <2>2 DEF Lists, w, K
    <3> QED
      BY <3>1
  <2> HIDE DEF K
  <2>6. p[m] = [k \in 1..K |-> q[w[k]]]
    BY <2>1, <2>4 DEF w
  <2>7. p[m] # <<>>
    <3>1. 1..K # {}
      BY <2>2, <2>5
    <3>2. DOMAIN p[m] = 1..K
      BY <2>6
    <3>3. DOMAIN <<>> = {}
      OBVIOUS
    <3> QED
      BY <3>1, <3>2, <3>3
  <2>8. {order[x] : x \in ToSet(p[m])} = {f[j] : j \in A}
    <3>1. ToSet(p[m]) = {q[w[k]] : k \in 1..K}
      BY <2>6 DEF ToSet
    <3>2. \A k \in 1..K : order[q[w[k]]] = f[w[k]]
      BY <1>6, <2>4
    <3>3. {order[x] : x \in ToSet(p[m])} = {f[w[k]] : k \in 1..K}
      BY <3>1, <3>2
    <3>4. {f[w[k]] : k \in 1..K} = {f[j] : j \in A}
      <4>1. ASSUME NEW k \in 1..K PROVE f[w[k]] \in {f[j] : j \in A}
        BY <2>5
      <4>2. ASSUME NEW j \in A PROVE f[j] \in {f[w[k]] : k \in 1..K}
        <5>1. PICK k \in 1..K : w[k] = j
          BY <2>5
        <5> QED
          BY <5>1
      <4>3. {f[w[k]] : k \in 1..K} \subseteq {f[j] : j \in A}
        BY <4>1
      <4>4. {f[j] : j \in A} \subseteq {f[w[k]] : k \in 1..K}
        BY <4>2
      <4> QED
        BY ONLY <4>3, <4>4
    <3> QED
      BY <3>3, <3>4
  <2>9. Total(lens, A) = Total(input.len, {f[j] : j \in A})
    <3> DEFINE s == input.len
    <3>1. /\ s \in Seq(Nat) /\ Samples = 1..Len(s)
      <4> DEFINE N == Prompts * Rollouts
      <4>1. N \in Nat /\ Samples = 1..N
        BY SizesFacts DEF Samples
      <4> HIDE DEF N
      <4>2. s \in [1..N -> Nat]
        BY <1>2, <4>1
      <4>3. s \in Seq(Nat) /\ Len(s) = N
        BY <4>1, <4>2
      <4> QED
        BY <4>1, <4>3
    <3>2. lens \in Seq(Nat) /\ Len(lens) = L
      BY <1>4
    <3>3. \A k \in 1..Len(lens) : lens[k] = s[f[k]]
      BY <1>4
    <3> HIDE DEF s
    <3>4. f \in [1..Len(lens) -> 1..Len(s)]
      BY <1>6, <3>1, <3>2
    <3>6. \A k, j \in 1..Len(lens) : f[k] = f[j] => k = j
      BY <1>6, <3>2
    <3>7. A \in SUBSET (1..Len(lens))
      OBVIOUS
    <3>8. lens \in Seq(Nat) /\ s \in Seq(Nat)
      BY <3>1, <3>2
    <3>5. Total(lens, A) = Total(s, TakenFrom(f, A))
      BY ONLY <3>3, <3>4, <3>6, <3>7, <3>8, TotalMoved
    <3> QED
      BY <3>5 DEF s, TakenFrom
  <2>10. lens[i] = input.len[order[q[i]]]
    BY <1>4, <1>6
  <2> QED
    BY <2>3, <2>7, <2>8, <2>9, <2>10
<1> QED
  BY <1>10 DEF RowsFit, p, ms, lens, L, limit

\* What WithinLimit says of the plan, of any plan of a batch in any order.
WithinAt(order, p) ==
  \A r \in RankSet : \A m \in DOMAIN p[r] :
    /\ p[r][m] # <<>>
    /\ \E s \in {order[i] : i \in ToSet(RowsOf(r))} :
         Fits(Total(input.len, {order[i] : i \in ToSet(p[r][m])}),
              input.len[s], setting.maxTokens)

\* WithinLimit of the plan under way; a rank that waits has none.
LEMMA WithinAtFacts ==
  /\ WithinLimit <=> WithinAt(batch, plan)
  /\ plan = Idle => WithinLimit
<1>1. WithinLimit <=> WithinAt(batch, plan)
  BY DEF WithinLimit, WithinAt, SamplesOf, Fits
<1>2. ASSUME plan = Idle PROVE WithinLimit
  <2>1. \A r \in RankSet : DOMAIN plan[r] = {}
    <3>1. DOMAIN <<>> = {}
      OBVIOUS
    <3> QED
      BY <1>2, <3>1 DEF Idle
  <2> QED
    BY <2>1 DEF WithinLimit
<1> QED
  BY <1>1, <1>2

\* Rows that are sent to the ranks that have them.
AtHome(rows) == \A r \in RankSet : ToSet(rows[r]) \subseteq ToSet(RowsOf(r))

\* Whatever the rows, a plan by tokens is within the limit.
LEMMA PlanWithin ==
  ASSUME setting \in Settings, setting.dynamic, input \in Inputs,
         NEW order \in [Samples -> Samples],
         \A i, j \in Samples : order[i] = order[j] => i = j,
         NEW rows, Sendable(rows), AtHome(rows)
  PROVE  WithinAt(order, Plan(order, rows))
<1> DEFINE p == Plan(order, rows)
<1>1. input.len \in [Samples -> Nat \ {0}]
  BY InputsAssumption
<1>2. PICK n \in Nat \ {0} : Agreed(n, order, rows) /\ p = PlanOf(n, order, rows)
  BY <1>1, PlanAgreed
<1> HIDE DEF p
<1>3. ASSUME NEW r \in RankSet PROVE RowsFit(p[r], order, rows[r])
  <2>1. p[r] = RowsAt(rows[r], MicroBatches(LengthsOf(order, rows[r]), n))
    BY <1>2 DEF PlanOf
  <2>2. RowsFit(RowsAt(rows[r], MicroBatches(LengthsOf(order, rows[r]), n)), order, rows[r])
    BY <1>2, RankFits
  <2> QED
    BY <2>1, <2>2
<1>4. ASSUME NEW r \in RankSet, NEW m \in DOMAIN p[r]
      PROVE  /\ p[r][m] # <<>>
             /\ \E s \in {order[i] : i \in ToSet(RowsOf(r))} :
                  Fits(Total(input.len, {order[i] : i \in ToSet(p[r][m])}),
                       input.len[s], setting.maxTokens)
  <2>1. /\ p[r][m] # <<>>
        /\ \E i \in 1..Len(rows[r]) :
             Fits(Total(input.len, {order[x] : x \in ToSet(p[r][m])}),
                  input.len[order[rows[r][i]]], setting.maxTokens)
    BY <1>3, <1>4 DEF RowsFit
  <2>2. PICK i \in 1..Len(rows[r]) :
             Fits(Total(input.len, {order[x] : x \in ToSet(p[r][m])}),
                  input.len[order[rows[r][i]]], setting.maxTokens)
    BY <2>1
  <2>3. rows[r][i] \in ToSet(RowsOf(r))
    <3>1. rows[r] \in Seq(Samples)
      BY DEF Sendable
    <3>2. rows[r][i] \in ToSet(rows[r])
      BY <3>1 DEF ToSet
    <3> QED
      BY <3>2 DEF AtHome
  <2>4. order[rows[r][i]] \in {order[x] : x \in ToSet(RowsOf(r))}
    BY <2>3
  <2> QED
    BY <2>1, <2>2, <2>4
<1> QED
  BY <1>4 DEF WithinAt, p

\* The passes send each rank its own rows.
LEMMA RowsAtHome ==
  /\ AtHome(RankRows)
  /\ setting \in Settings => \A m \in 0..(MiniBatches - 1) : AtHome(MiniRows(m))
<1>1. AtHome(RankRows)
  BY DEF AtHome, RankRows
<1>2. ASSUME setting \in Settings, NEW m \in 0..(MiniBatches - 1)
      PROVE  AtHome(MiniRows(m))
  <2> SUFFICES ASSUME NEW r \in RankSet
               PROVE  ToSet(MiniRows(m)[r]) \subseteq ToSet(RowsOf(r))
    BY DEF AtHome
  <2>1. MiniRows(m)[r] = MiniBatch(r, m)
    BY DEF MiniRows
  <2>2. ToSet(MiniBatch(r, m)) \subseteq Behind(r, m + 1)
    BY <1>2, MiniBatchFacts
  <2>3. m + 1 \in Nat
    OBVIOUS
  <2>4. Behind(r, m + 1) \subseteq ToSet(RowsOf(r))
    BY <1>2, <2>3, BehindWithin
  <2> QED
    BY <2>1, <2>2, <2>4
<1> QED
  BY <1>1, <1>2

\* The micro-batches of the pass under way, when they are made by tokens.
LimitInv == setting.dynamic => WithinLimit

\* A mini-batch is laid out within the limit.
LEMMA LimitOfMini ==
  ASSUME BatchInv, NEW m \in 0..(MiniBatches - 1),
         UNCHANGED <<setting, input, batch>>, plan' = MiniPlan(m)
  PROVE  LimitInv'
<1>1. /\ batch \in [Samples -> Samples] /\ setting \in Settings /\ input \in Inputs
      /\ \A i, j \in Samples : batch[i] = batch[j] => i = j
  BY BatchFacts DEF BatchInv
<1>2. MiniPlan(m) = Plan(batch, MiniRows(m)) /\ Sendable(MiniRows(m)) /\ AtHome(MiniRows(m))
  BY <1>1, MiniRowsSendable, RowsAtHome DEF MiniPlan, MiniRows
<1>3. ASSUME setting.dynamic PROVE WithinAt(batch, plan')
  BY <1>1, <1>2, <1>3, PlanWithin
<1>4. WithinAt(batch, plan)' <=> WithinAt(batch, plan')
  BY DEF WithinAt, RowsOf
<1>5. WithinLimit' <=> WithinAt(batch, plan)'
  BY WithinAtFacts, PTL
<1> QED
  BY <1>3, <1>4, <1>5 DEF LimitInv

\* The log-prob pass is laid out within the limit.
LEMMA LimitBalance == BatchInv /\ BatchInv' /\ Balance => LimitInv'
<1> SUFFICES ASSUME BatchInv, BatchInv', Balance PROVE LimitInv'
  OBVIOUS
<1>1. plan' = Plan(batch', RankRows) /\ UNCHANGED <<setting, input>>
  BY DEF Balance, RankRows
<1>2. /\ batch' \in [Samples -> Samples]
      /\ \A i, j \in Samples : batch'[i] = batch'[j] => i = j
  <2>1. (/\ batch \in [Samples -> Samples]
         /\ \A i, j \in Samples : batch[i] = batch[j] => i = j)'
    BY BatchFacts, PTL
  <2> QED
    BY <2>1
<1>3. setting \in Settings /\ input \in Inputs
  BY DEF BatchInv
<1>4. ASSUME setting.dynamic PROVE WithinAt(batch', plan')
  BY <1>1, <1>2, <1>3, <1>4, PlanWithin, RankRowsSendable, RowsAtHome
<1>5. WithinAt(batch, plan)' <=> WithinAt(batch', plan')
  BY <1>1 DEF WithinAt, RowsOf
<1>6. WithinLimit' <=> WithinAt(batch, plan)'
  BY WithinAtFacts, PTL
<1> QED
  BY <1>1, <1>4, <1>5, <1>6 DEF LimitInv

\* Every step keeps the plan within the limit.
LEMMA LimitStays ==
  BatchInv /\ PassInv /\ LimitInv /\ [StepNext]_stepVars => LimitInv'
<1> SUFFICES ASSUME BatchInv, PassInv, LimitInv, [StepNext]_stepVars PROVE LimitInv'
  OBVIOUS
<1>1. CASE Balance
  BY <1>1, LimitBalance, BatchStays
<1>2. ASSUME UNCHANGED <<setting, input, batch, plan>> PROVE LimitInv'
  <2>1. batch' = batch /\ plan' = plan /\ input' = input /\ setting' = setting
    BY <1>2
  <2>2. WithinAt(batch, plan)' <=> WithinAt(batch', plan')
    BY <2>1 DEF WithinAt, RowsOf
  <2>3. WithinAt(batch', plan') <=> WithinAt(batch, plan)
    BY ONLY <2>1
  <2>4. WithinLimit' <=> WithinAt(batch, plan)'
    BY WithinAtFacts, PTL
  <2>5. WithinLimit <=> WithinAt(batch, plan)
    BY WithinAtFacts
  <2> QED
    BY <2>1, <2>2, <2>3, <2>4, <2>5 DEF LimitInv
<1>3. CASE Forward \/ Context \/ TrainMicroBatch \/ UNCHANGED stepVars
  <2>1. UNCHANGED <<setting, input, batch, plan>>
    BY <1>3 DEF Forward, Context, TrainMicroBatch, stepVars
  <2> QED
    BY <1>2, <2>1
<1>4. ASSUME plan' = Idle PROVE LimitInv'
  <2>1. (plan = Idle => WithinLimit)'
    BY WithinAtFacts, PTL
  <2>2. Idle' = Idle
    BY DEF Idle
  <2> QED
    BY <1>4, <2>1, <2>2 DEF LimitInv
<1>5. CASE Collect
  BY <1>4, <1>5 DEF Collect
<1>6. MiniBatches \in Nat \ {0} /\ 0 \in 0..(MiniBatches - 1)
  <2>1. MiniBatches \in Nat \ {0}
    BY HasMiniBatches DEF BatchInv
  <2> QED
    BY <2>1
<1>7. CASE Update
  <2>1. plan' = MiniPlan(0) /\ UNCHANGED <<setting, input, batch>>
    BY <1>7 DEF Update
  <2> QED
    BY <1>6, <2>1, LimitOfMini
<1>8. CASE NextMiniBatch
  <2>1. /\ phase = "update" /\ mini + 1 < MiniBatches
        /\ plan' = MiniPlan(mini + 1) /\ UNCHANGED <<setting, input, batch>>
    BY <1>8 DEF NextMiniBatch, Optimize
  <2>2. mini \in 0..(MiniBatches - 1)
    BY <2>1 DEF PassInv
  <2>3. mini + 1 \in 0..(MiniBatches - 1)
    BY <1>6, <2>1, <2>2
  <2> QED
    BY <2>1, <2>3, LimitOfMini
<1>9. CASE NextEpoch
  <2>1. UNCHANGED <<setting, input, batch>>
    BY <1>9 DEF NextEpoch, Optimize
  <2>2. plan' = MiniPlan(0) \/ plan' = Idle
    BY <1>9 DEF NextEpoch
  <2>3. CASE plan' = MiniPlan(0)
    BY <1>6, <2>1, <2>3, LimitOfMini
  <2>4. CASE plan' = Idle
    BY <1>4, <2>4
  <2> QED
    BY <2>2, <2>3, <2>4
<1> QED
  BY <1>1, <1>3, <1>5, <1>7, <1>8, <1>9 DEF StepNext, Step, Finished

\* The ranks run as many micro-batches as each other in every pass, of any
\* batch and under any token limit: no rank waits for a forward pass that
\* another does not run. Made by tokens, none is empty, and each is as near the
\* limit as the balancing of the work allows.
THEOREM MicroBatchesAreFit == StepSpec => []MicroBatchesFit
<1>1. StepInit => BatchInv /\ PassInv /\ LimitInv
  <2>1. ASSUME StepInit PROVE LimitInv
    <3>1. plan = Idle
      BY <2>1 DEF StepInit
    <3> QED
      BY <3>1, WithinAtFacts DEF LimitInv
  <2> QED
    BY <2>1, BatchStarts, PassStarts
<1>2. BatchInv /\ PassInv /\ LimitInv /\ [StepNext]_stepVars
        => BatchInv' /\ PassInv' /\ LimitInv'
  BY BatchStays, PassStays, LimitStays
<1>3. BatchInv /\ PassInv /\ LimitInv => MicroBatchesFit
  BY PassesAreSame DEF MicroBatchesFit, LimitInv
<1> QED
  BY <1>1, <1>2, <1>3, PTL DEF StepSpec
===============================================================================
