-------------------------- MODULE RewardLoopProofs --------------------------
(* Proofs about RewardLoop: the rate limiter keeps its rate, for every       *)
(* number of rows, capacity and request size, and the router serves every    *)
(* row while one server lives, for every number of rows and servers.         *)
EXTENDS RewardLoop, FiniteSetTheorems, SequenceTheorems,
        WellFoundedInduction, TLAPS

Pcs == {"acquire", "debt", "queue", "running", "post", "sent", "done"}

TypeOK ==
  /\ pc \in [Tasks -> Pcs]
  /\ limiter \in [Tasks -> Nat]
  /\ sleep \in [Tasks -> Nat]
  /\ tokens \in [Buckets -> Int]
  /\ elapsed \in [Buckets -> Nat]
  /\ meter \in [Buckets -> Int]
  /\ \A t \in Tasks: pc[t] \in {"acquire", "debt"} => limiter[t] \in Buckets

\* What the bucket would hold if it were refilled now.
Held(l) == tokens[l] + elapsed[l]

\* Row t made bucket l go into debt and has not gone on since; it sleeps the
\* debt off.
InDebt(t, l) == pc[t] = "debt" /\ limiter[t] = l
Owes(t, l) == InDebt(t, l) /\ sleep[t] > 0

\* What meter would be if the overdue rows of the bucket had gone on at once.
Level(l) == meter[l] - cost(l) * Cardinality(Overdue(l))

\* The rows whose sleep ends with the next tick.
Due(l) == {t \in Tasks: Owes(t, l) /\ sleep[t] = 1}

\* A bucket whose requests fit in it is the ideal limiter.
SmallInv(l) ==
  cost(l) <= cap(l) =>
    /\ tokens[l] >= 0
    /\ Level(l) = Held(l)
    /\ \A t \in Tasks: ~ InDebt(t, l)

\* In a bucket whose requests are larger, a sleeping row wakes no earlier
\* than the debt is paid, and the sleeps of two rows end a whole request apart.
LargeInv(l) ==
  cost(l) > cap(l) =>
    /\ Level(l) >= 0
    /\ Level(l) <= cost(l)
    /\ Level(l) >= Held(l)
    /\ \A t \in Tasks: Owes(t, l) =>
         /\ Held(l) <= - sleep[t]
         /\ Level(l) + sleep[t] >= cost(l)
    /\ \A t, u \in Tasks: t # u /\ Owes(t, l) /\ Owes(u, l) =>
         \/ sleep[t] - sleep[u] >= cost(l)
         \/ sleep[u] - sleep[t] >= cost(l)

BucketInv(l) == Held(l) <= cap(l) /\ SmallInv(l) /\ LargeInv(l)

IInv == TypeOK /\ \A l \in Buckets: BucketInv(l)

-----------------------------------------------------------------------------
LEMMA BucketNumbers ==
  /\ Buckets = 1 .. Len(Limits) /\ Len(Limits) \in Nat /\ 1 \in Buckets
BY LimitsAssumption DEF Buckets

\* Capacities and costs are positive.
LEMMA Positive ==
  \A l \in Buckets: cap(l) \in Nat \ {0} /\ cost(l) \in Nat \ {0}
<1> SUFFICES ASSUME NEW l \in Buckets
             PROVE  cap(l) \in Nat \ {0} /\ cost(l) \in Nat \ {0}
  OBVIOUS
<1> DEFINE R == [cap: Nat \ {0}, cost: Nat \ {0}]
<1>1. Limits[l] \in R
  <2>1. Limits \in Seq(R)
    BY LimitsAssumption
  <2> HIDE DEF R
  <2> QED BY <2>1, BucketNumbers, ElementOfSeq
<1> QED BY <1>1 DEF cap, cost

\* What the overdue rows may still take is a finite amount, and nothing when
\* there are none.
LEMMA OverdueFinite ==
  ASSUME NEW l \in Buckets
  PROVE  /\ IsFiniteSet(Overdue(l)) /\ Cardinality(Overdue(l)) \in Nat
         /\ cost(l) * Cardinality(Overdue(l)) \in Nat
         /\ meter[l] \in Int => Level(l) \in Int /\ Level(l) <= meter[l]
         /\ Overdue(l) = {} => cost(l) * Cardinality(Overdue(l)) = 0
<1>1. Overdue(l) \subseteq Tasks
  BY DEF Overdue
<1>2. IsFiniteSet(Overdue(l)) /\ Cardinality(Overdue(l)) \in Nat
  BY <1>1, TasksAssumption, FS_Subset, FS_CardinalityType
<1>3. PICK n \in Nat: n = Cardinality(Overdue(l))
  BY <1>2
<1>4. cost(l) \in Nat /\ cost(l) * n \in Nat
  BY Positive
<1>5. Overdue(l) = {} => n = 0
  BY <1>3, FS_EmptySet
<1>6. n = 0 => cost(l) * n = 0
  BY <1>4
<1>7. meter[l] \in Int => meter[l] - cost(l) * n \in Int /\ meter[l] - cost(l) * n <= meter[l]
  BY <1>4
<1> QED BY <1>2, <1>3, <1>4, <1>5, <1>6, <1>7 DEF Level

\* One row more or less is one request more or less.
LEMMA OneMore ==
  ASSUME NEW l \in Buckets, NEW S, IsFiniteSet(S), NEW t, t \notin S
  PROVE  /\ cost(l) * Cardinality(S \cup {t}) = cost(l) * Cardinality(S) + cost(l)
         /\ cost(l) * Cardinality(S) \in Nat
<1>1. PICK n \in Nat: n = Cardinality(S) /\ Cardinality(S \cup {t}) = n + 1
  BY FS_AddElement, FS_CardinalityType
<1>2. PICK c \in Nat: c = cost(l)
  BY Positive
<1>3. c * (n + 1) = c * n + c /\ c * n \in Nat
  OBVIOUS
<1> QED BY <1>1, <1>2, <1>3

\* A row that has its tokens goes on to a bucket, or has passed them all.
LEMMA GrantedTypes ==
  ASSUME TypeOK, NEW t \in Tasks, Granted(t, limiter[t]), limiter[t] \in Buckets
  PROVE  /\ pc' \in [Tasks -> Pcs] /\ limiter' \in [Tasks -> Nat]
         /\ \A u \in Tasks: pc'[u] \in {"acquire", "debt"} => limiter'[u] \in Buckets
         /\ \A u \in Tasks, l \in Buckets:
              pc'[u] = "debt" => pc[u] = "debt" /\ limiter'[u] = limiter[u]
<1>1. pc' \in [Tasks -> Pcs] /\ limiter' \in [Tasks -> Nat]
  BY DEF TypeOK, Granted, Pcs
<1>2. ASSUME NEW u \in Tasks, pc'[u] \in {"acquire", "debt"}
      PROVE  limiter'[u] \in Buckets
  <2>1. CASE u = t
    <3>1. limiter[t] # Len(Limits) /\ limiter'[t] = limiter[t] + 1
      BY <1>2, <2>1 DEF TypeOK, Granted, Pcs
    <3> QED BY <3>1, <2>1, BucketNumbers
  <2>2. CASE u # t
    BY <1>2, <2>2 DEF TypeOK, Granted, Pcs
  <2> QED BY <2>1, <2>2
<1>3. ASSUME NEW u \in Tasks, pc'[u] = "debt"
      PROVE  pc[u] = "debt" /\ limiter'[u] = limiter[u]
  BY <1>3 DEF TypeOK, Granted, Pcs
<1> QED BY <1>1, <1>2, <1>3

\* A step that leaves the bucket, its level and the sleeps alone and adds no
\* debtor.
LEMMA BucketAlone ==
  ASSUME NEW l \in Buckets, BucketInv(l),
         tokens'[l] = tokens[l], elapsed'[l] = elapsed[l],
         Level(l)' = Level(l),
         \A t \in Tasks: InDebt(t, l)' => InDebt(t, l) /\ sleep'[t] = sleep[t]
  PROVE  BucketInv(l)'
<1>1. Held(l)' = Held(l)
  BY DEF Held
<1>2. SmallInv(l)'
  BY <1>1 DEF BucketInv, SmallInv
<1>3. \A t \in Tasks: Owes(t, l)' => Owes(t, l) /\ sleep'[t] = sleep[t]
  BY DEF Owes
<1>4. LargeInv(l)'
  BY <1>1, <1>3 DEF BucketInv, LargeInv
<1> QED BY <1>1, <1>2, <1>4 DEF BucketInv

\* The level follows meter as long as the same rows are overdue.
LEMMA SameOverdue ==
  ASSUME TypeOK, NEW l \in Buckets, NEW d \in Int, meter'[l] = meter[l] + d,
         Overdue(l)' = Overdue(l)
  PROVE  Level(l)' = Level(l) + d
<1>1. PICK n \in Nat: n = cost(l) * Cardinality(Overdue(l))
  BY OverdueFinite
<1>2. meter[l] \in Int
  BY DEF TypeOK
<1>3. Level(l)' = meter'[l] - n /\ Level(l) = meter[l] - n
  BY <1>1 DEF Level
<1> QED BY <1>2, <1>3

\* A request that fits: the row takes its tokens or sleeps.
LEMMA AcquireKeeps ==
  ASSUME IInv, NEW t \in Tasks, Acquire(t)
  PROVE  IInv'
<1>0. PICK l \in Buckets: l = limiter[t]
  BY DEF IInv, TypeOK, Acquire
<1> DEFINE have == Refilled(l)
<1>1. /\ TypeOK /\ l \in Buckets /\ l = limiter[t] /\ BucketInv(l) /\ pc[t] = "acquire"
      /\ cost(l) <= cap(l)
  BY <1>0 DEF IInv, Acquire
<1>2. /\ cap(l) \in Nat /\ cost(l) \in Nat /\ cost(l) > 0
      /\ tokens[l] \in Int /\ elapsed[l] \in Nat /\ meter[l] \in Int
  BY <1>1, Positive DEF TypeOK
<1>3. have = Held(l) /\ have \in Int /\ have <= cap(l) /\ Level(l) = have /\ have >= 0
  BY <1>1, <1>2 DEF Refilled, Least, Held, BucketInv, SmallInv
<1>4. CASE have >= cost(l)
  <2>1. /\ tokens' = [tokens EXCEPT ![l] = have - cost(l)]
        /\ elapsed' = [elapsed EXCEPT ![l] = 0]
        /\ meter' = [meter EXCEPT ![l] = @ - cost(l)]
        /\ Granted(t, l) /\ sleep' = sleep
    BY <1>0, <1>4 DEF Acquire
  <2>2. /\ pc' \in [Tasks -> Pcs] /\ limiter' \in [Tasks -> Nat]
        /\ \A u \in Tasks: pc'[u] \in {"acquire", "debt"} => limiter'[u] \in Buckets
        /\ \A u \in Tasks, k \in Buckets:
             pc'[u] = "debt" => pc[u] = "debt" /\ limiter'[u] = limiter[u]
    BY <1>1, <2>1, GrantedTypes
  <2>3. TypeOK'
    BY <1>1, <1>2, <1>3, <2>1, <2>2 DEF TypeOK
  <2>4. \A u \in Tasks, k \in Buckets: InDebt(u, k)' => InDebt(u, k) /\ sleep'[u] = sleep[u]
    BY <2>1, <2>2 DEF InDebt
  <2>6. \A k \in Buckets: Overdue(k)' = Overdue(k)
    BY <1>1, <2>1 DEF Overdue, Granted, TypeOK
  <2>5. ASSUME NEW k \in Buckets PROVE BucketInv(k)'
    <3>1. CASE k = l
      <4>0. meter'[l] = meter[l] + (- cost(l)) /\ - cost(l) \in Int
        BY <1>1, <1>2, <2>1 DEF TypeOK
      <4>1. tokens'[l] = have - cost(l) /\ elapsed'[l] = 0 /\ Level(l)' = have - cost(l)
        <5>1. Level(l)' = Level(l) + (- cost(l))
          BY ONLY <1>1, <2>6, <4>0, SameOverdue
        <5> QED BY <5>1, <1>1, <1>2, <1>3, <2>1 DEF TypeOK
      <4>2. Held(l)' = have - cost(l)
        BY <4>1, <1>2, <1>3 DEF Held
      <4> HIDE DEF have
      <4>3. SmallInv(l)'
        BY <1>1, <1>2, <1>3, <1>4, <2>4, <4>1, <4>2 DEF BucketInv, SmallInv
      <4>4. LargeInv(l)'
        BY <1>1, <1>2 DEF LargeInv
      <4> QED BY <3>1, <4>2, <4>3, <4>4, <1>2, <1>3 DEF BucketInv
    <3>2. CASE k # l
      <4>1. BucketInv(k) /\ tokens'[k] = tokens[k] /\ elapsed'[k] = elapsed[k] /\ meter'[k] = meter[k]
        BY <1>1, <2>1, <3>2 DEF IInv, TypeOK
      <4>2. Level(k)' = Level(k)
        BY <4>1, <2>6 DEF Level
      <4> QED BY <4>1, <4>2, <2>1, <2>4, BucketAlone
    <3> QED BY <3>1, <3>2
  <2> QED BY <2>3, <2>5 DEF IInv
<1>5. CASE ~ (have >= cost(l))
  <2>1. /\ tokens' = [tokens EXCEPT ![l] = have]
        /\ elapsed' = [elapsed EXCEPT ![l] = 0]
        /\ sleep' = [sleep EXCEPT ![t] = cost(l) - have]
        /\ pc' = pc /\ limiter' = limiter /\ meter' = meter
    BY <1>0, <1>5 DEF Acquire
  <2>2. cost(l) - have \in Nat
    BY <1>2, <1>3, <1>5
  <2>3. TypeOK'
    BY <1>1, <1>2, <1>3, <2>1, <2>2 DEF TypeOK
  <2>4. \A u \in Tasks, k \in Buckets: InDebt(u, k)' => InDebt(u, k) /\ sleep'[u] = sleep[u]
    BY <1>1, <2>1 DEF InDebt, TypeOK
  <2>6. \A k \in Buckets: Level(k)' = Level(k)
    <3>1. \A k \in Buckets: Overdue(k)' = Overdue(k)
      BY <1>1, <2>1 DEF Overdue, TypeOK
    <3> QED BY <2>1, <3>1 DEF Level
  <2>5. ASSUME NEW k \in Buckets PROVE BucketInv(k)'
    <3>1. CASE k = l
      <4>1. tokens'[l] = have /\ elapsed'[l] = 0 /\ Level(l)' = have
        BY <1>1, <1>3, <2>1, <2>6 DEF TypeOK
      <4>2. Held(l)' = have
        BY <4>1, <1>2, <1>3 DEF Held
      <4> HIDE DEF have
      <4>3. SmallInv(l)'
        BY <1>1, <1>2, <1>3, <2>4, <4>1, <4>2 DEF BucketInv, SmallInv
      <4>4. LargeInv(l)'
        BY <1>1, <1>2 DEF LargeInv
      <4> QED BY <3>1, <4>2, <4>3, <4>4, <1>2, <1>3 DEF BucketInv
    <3>2. CASE k # l
      <4>1. BucketInv(k) /\ tokens'[k] = tokens[k] /\ elapsed'[k] = elapsed[k]
        BY <1>1, <2>1, <3>2 DEF IInv, TypeOK
      <4> QED BY <4>1, <2>4, <2>6, BucketAlone
    <3> QED BY <3>1, <3>2
  <2> QED BY <2>3, <2>5 DEF IInv
<1> QED BY <1>4, <1>5

\* A larger request: the row is the deepest debtor, a request above the rest.
LEMMA AcquireLargeKeeps ==
  ASSUME IInv, NEW t \in Tasks, AcquireLarge(t)
  PROVE  IInv'
<1>0. PICK l \in Buckets: l = limiter[t]
  BY DEF IInv, TypeOK, AcquireLarge
<1> DEFINE have == Refilled(l)
<1>1. /\ TypeOK /\ l \in Buckets /\ l = limiter[t] /\ BucketInv(l) /\ pc[t] = "acquire"
      /\ cost(l) > cap(l)
  BY <1>0 DEF IInv, AcquireLarge
<1>2. /\ cap(l) \in Nat /\ cost(l) \in Nat /\ cost(l) > 0
      /\ tokens[l] \in Int /\ elapsed[l] \in Nat /\ meter[l] \in Int
  BY <1>1, Positive DEF TypeOK
<1>3. /\ have = Held(l) /\ have \in Int /\ have <= cap(l)
      /\ Level(l) >= have /\ Level(l) \in Int
  BY <1>1, <1>2, OverdueFinite DEF Refilled, Least, Held, BucketInv, LargeInv
<1>4. /\ tokens' = [tokens EXCEPT ![l] = have - cost(l)]
      /\ elapsed' = [elapsed EXCEPT ![l] = 0]
      /\ sleep' = [sleep EXCEPT ![t] = cost(l) - have]
      /\ pc' = [pc EXCEPT ![t] = "debt"]
      /\ limiter' = limiter /\ meter' = meter
  BY <1>0 DEF AcquireLarge
<1>5. cost(l) - have \in Nat /\ cost(l) - have > 0
  BY <1>1, <1>2, <1>3
<1>6. TypeOK'
  BY <1>1, <1>2, <1>3, <1>4, <1>5 DEF TypeOK, Pcs
<1>7. \A u \in Tasks, k \in Buckets:
        InDebt(u, k)' => \/ u = t /\ k = l
                         \/ u # t /\ InDebt(u, k) /\ sleep'[u] = sleep[u]
  BY <1>1, <1>4 DEF InDebt, TypeOK
<1>9. \A k \in Buckets: Level(k)' = Level(k)
  <2>1. \A k \in Buckets: Overdue(k)' = Overdue(k)
    <3>1. pc[t] # "debt" /\ sleep'[t] # 0
      BY <1>1, <1>4, <1>5 DEF TypeOK
    <3>2. \A u \in Tasks: u # t => pc'[u] = pc[u] /\ sleep'[u] = sleep[u]
      BY <1>4 DEF TypeOK
    <3> QED BY <1>4, <3>1, <3>2 DEF Overdue
  <2> QED BY <1>4, <2>1 DEF Level
<1>8. ASSUME NEW k \in Buckets PROVE BucketInv(k)'
  <2>1. CASE k = l
    <3>1. /\ tokens'[l] = have - cost(l) /\ elapsed'[l] = 0 /\ Level(l)' = Level(l)
          /\ sleep'[t] = cost(l) - have
      BY <1>1, <1>4, <1>9 DEF TypeOK
    <3>2. Held(l)' = have - cost(l)
      BY <3>1, <1>2, <1>3 DEF Held
    <3>3. \A u \in Tasks: sleep[u] \in Nat
      BY <1>1 DEF TypeOK
    <3> HIDE DEF have
    <3>4. LargeInv(l)
      BY <1>1 DEF BucketInv
    <3>11. \A u \in Tasks: Owes(u, l)' /\ u # t => Owes(u, l) /\ sleep'[u] = sleep[u]
      BY <1>1, <1>7 DEF Owes
    <3>5. ASSUME NEW u \in Tasks, Owes(u, l)'
          PROVE  Held(l)' <= - sleep'[u] /\ Level(l)' + sleep'[u] >= cost(l)
      <4>1. CASE u = t
        BY <4>1, <1>2, <1>3, <3>1, <3>2
      <4>2. CASE u # t
        <5>1. Owes(u, l) /\ sleep'[u] = sleep[u]
          BY <4>2, <3>5, <3>11
        <5>2. Held(l) <= - sleep[u] /\ Level(l) + sleep[u] >= cost(l)
          BY <5>1, <3>4, <1>1 DEF LargeInv
        <5> QED BY <5>1, <5>2, <1>2, <1>3, <3>1, <3>2, <3>3
      <4> QED BY <4>1, <4>2
    <3>6. ASSUME NEW u \in Tasks, u # t, Owes(u, l)'
          PROVE  sleep'[t] - sleep'[u] >= cost(l)
      <4>1. Owes(u, l) /\ sleep'[u] = sleep[u]
        BY <3>6, <3>11
      <4>2. Held(l) <= - sleep[u]
        BY <4>1, <3>4, <1>1 DEF LargeInv
      <4> QED BY <4>1, <4>2, <1>2, <1>3, <3>1, <3>3
    <3>7. ASSUME NEW u \in Tasks, NEW v \in Tasks, u # v, Owes(u, l)', Owes(v, l)'
          PROVE  \/ sleep'[u] - sleep'[v] >= cost(l)
                 \/ sleep'[v] - sleep'[u] >= cost(l)
      <4>1. CASE u = t \/ v = t
        BY <4>1, <3>6, <3>7
      <4>2. CASE u # t /\ v # t
        <5>1. Owes(u, l) /\ sleep'[u] = sleep[u] /\ Owes(v, l) /\ sleep'[v] = sleep[v]
          BY <4>2, <3>7, <3>11
        <5> QED BY <5>1, <3>4, <3>7, <1>1 DEF LargeInv
      <4> QED BY <4>1, <4>2
    <3>8. Level(l)' >= 0 /\ Level(l)' <= cost(l) /\ Level(l)' >= Held(l)'
      <4>1. Level(l) >= 0 /\ Level(l) <= cost(l)
        BY <3>4, <1>1 DEF LargeInv
      <4> QED BY <4>1, <3>1, <3>2, <1>2, <1>3
    <3>9. LargeInv(l)'
      BY <3>5, <3>7, <3>8 DEF LargeInv
    <3>10. SmallInv(l)'
      BY <1>1, <1>2 DEF SmallInv
    <3> QED BY <2>1, <3>2, <3>9, <3>10, <1>2, <1>3 DEF BucketInv
  <2>2. CASE k # l
    <3>1. BucketInv(k) /\ tokens'[k] = tokens[k] /\ elapsed'[k] = elapsed[k]
      BY <1>1, <1>4, <2>2 DEF IInv, TypeOK
    <3> QED BY <3>1, <1>7, <1>9, <2>2, BucketAlone
  <2> QED BY <2>1, <2>2
<1> QED BY <1>6, <1>8 DEF IInv

\* With a tick the sleep of at most one row of a bucket ends, and the ideal
\* limiter can afford it.
LEMMA TickKeepsBucket ==
  ASSUME TypeOK, Tick, NEW l \in Buckets, BucketInv(l)
  PROVE  BucketInv(l)' /\ elapsed'[l] \in Nat /\ meter'[l] \in Int
<1>1. /\ cap(l) \in Nat /\ cost(l) \in Nat /\ cost(l) > 0
      /\ tokens[l] \in Int /\ elapsed[l] \in Nat /\ meter[l] \in Int
      /\ \A t \in Tasks: sleep[t] \in Nat
  BY Positive DEF TypeOK
<1>2. /\ pc' = pc /\ limiter' = limiter /\ tokens' = tokens
      /\ \A t \in Tasks: sleep'[t] = IF sleep[t] > 0 THEN sleep[t] - 1 ELSE 0
      /\ elapsed'[l] = Least(elapsed[l] + 1, cap(l) - tokens[l])
      /\ meter'[l] = Least(meter[l] + 1, Burst(l) + cost(l) * Cardinality(Overdue(l)))
  BY DEF Tick
<1>3. Held(l) <= cap(l) /\ SmallInv(l) /\ LargeInv(l)
  BY DEF BucketInv
<1>4. /\ elapsed'[l] \in Nat
      /\ Held(l)' = Least(Held(l) + 1, cap(l))
  BY <1>1, <1>2, <1>3 DEF Held, Least
<1>5. \A t \in Tasks: Owes(t, l)' =>
        Owes(t, l) /\ sleep[t] > 1 /\ sleep'[t] = sleep[t] - 1
  BY <1>1, <1>2 DEF Owes, InDebt
<1>6. Overdue(l)' = Overdue(l) \cup Due(l) /\ Overdue(l) \cap Due(l) = {}
  BY <1>1, <1>2 DEF Overdue, Due, Owes, InDebt
<1>7. Due(l) \subseteq Tasks
  BY DEF Due
<1>8. Held(l) \in Int /\ Level(l) \in Int /\ IsFiniteSet(Overdue(l))
  BY <1>1, OverdueFinite DEF Held
<1>11. PICK n \in Nat: n = cost(l) * Cardinality(Overdue(l))
  BY OverdueFinite
<1>12. Burst(l) \in Nat
  BY <1>1 DEF Burst
<1>13. /\ meter'[l] \in Int /\ Level(l) = meter[l] - n
       /\ meter'[l] - n = Least(Level(l) + 1, Burst(l))
  BY <1>1, <1>2, <1>11, <1>12 DEF Level, Least
<1>14. Level(l)' = meter'[l] - cost(l) * Cardinality(Overdue(l)')
  BY DEF Level
<1>15. Due(l) = {} => Level(l)' = Least(Level(l) + 1, Burst(l))
  BY <1>6, <1>11, <1>13, <1>14
<1>9. CASE cost(l) <= cap(l)
  <2>1. tokens[l] >= 0 /\ Level(l) = Held(l) /\ \A t \in Tasks: ~ InDebt(t, l)
    BY <1>3, <1>9 DEF SmallInv
  <2>2. Due(l) = {}
    BY <2>1 DEF Due, Owes
  <2>4. Burst(l) = cap(l)
    BY <1>9, <1>1 DEF Burst
  <2>5. Level(l)' = Held(l)' /\ Held(l)' <= cap(l)
    BY <2>1, <2>2, <2>4, <1>1, <1>4, <1>8, <1>15 DEF Least
  <2>6. SmallInv(l)'
    BY <2>1, <2>5, <1>2 DEF SmallInv, InDebt
  <2>7. LargeInv(l)'
    BY <1>9, <1>1 DEF LargeInv
  <2> QED BY <2>5, <2>6, <2>7, <1>4, <1>13 DEF BucketInv
<1>10. CASE cost(l) > cap(l)
  <2>1. /\ Level(l) >= 0 /\ Level(l) <= cost(l) /\ Level(l) >= Held(l)
        /\ \A t \in Tasks: Owes(t, l) =>
             Held(l) <= - sleep[t] /\ Level(l) + sleep[t] >= cost(l)
        /\ \A t, u \in Tasks: t # u /\ Owes(t, l) /\ Owes(u, l) =>
             sleep[t] - sleep[u] >= cost(l) \/ sleep[u] - sleep[t] >= cost(l)
    BY <1>3, <1>10 DEF LargeInv
  <2>2. Burst(l) = cost(l)
    BY <1>10 DEF Burst
  <2>3. Held(l)' \in Int /\ Held(l)' <= cap(l) /\ Held(l)' <= Held(l) + 1
    BY <1>1, <1>4, <1>8 DEF Least
  <2>4. \A t \in Tasks: Owes(t, l)' => Held(l)' <= - sleep'[t]
    BY <2>1, <2>3, <1>1, <1>5, <1>8
  <2>5. \A t, u \in Tasks: t # u /\ Owes(t, l)' /\ Owes(u, l)' =>
          sleep'[t] - sleep'[u] >= cost(l) \/ sleep'[u] - sleep'[t] >= cost(l)
    BY <2>1, <1>1, <1>5
  <2>6. /\ Level(l)' >= 0 /\ Level(l)' <= cost(l)
        /\ Level(l)' >= Held(l)'
        /\ \A t \in Tasks: Owes(t, l)' => Level(l)' + sleep'[t] >= cost(l)
    <3>1. CASE Due(l) = {}
      <4>2. Level(l)' = Least(Level(l) + 1, cost(l))
        BY <3>1, <2>2, <1>15
      <4> QED BY <4>2, <2>1, <2>3, <1>1, <1>4, <1>5, <1>8, <1>10 DEF Least
    <3>2. CASE Due(l) # {}
      <4>1. PICK u \in Tasks: Owes(u, l) /\ sleep[u] = 1
        BY <3>2, <1>7 DEF Due
      <4>2. ASSUME NEW t \in Tasks, Owes(t, l), t # u
            PROVE  sleep[t] >= cost(l) + 1
        <5>1. sleep[t] - sleep[u] >= cost(l) \/ sleep[u] - sleep[t] >= cost(l)
          BY <4>1, <4>2, <2>1
        <5>2. sleep[t] > 0
          BY <4>2 DEF Owes
        <5> QED BY <5>1, <5>2, <4>1, <1>1
      <4>3. Due(l) = {u}
        <5>1. \A t \in Due(l): t = u
          BY <4>2, <1>1 DEF Due
        <5>2. u \in Due(l)
          BY <4>1 DEF Due
        <5> QED BY <5>1, <5>2
      <4>4. cost(l) * Cardinality(Overdue(l)') = n + cost(l)
        <5>1. Overdue(l)' = Overdue(l) \cup {u} /\ u \notin Overdue(l)
          BY <4>3, <1>6
        <5> QED BY <5>1, <1>8, <1>11, OneMore
      <4>5. Level(l)' = 0
        <5>1. Least(Level(l) + 1, Burst(l)) = cost(l)
          BY <4>1, <2>1, <2>2, <1>1, <1>8 DEF Least
        <5> QED BY <5>1, <4>4, <1>1, <1>11, <1>13, <1>14
      <4>6. Held(l)' <= 0
        BY <4>1, <2>1, <2>3, <1>8
      <4> QED BY <4>1, <4>2, <4>5, <4>6, <1>1, <1>5
    <3> QED BY <3>1, <3>2
  <2>7. LargeInv(l)'
    BY <2>4, <2>5, <2>6 DEF LargeInv
  <2>8. SmallInv(l)'
    BY <1>10, <1>1 DEF SmallInv
  <2> QED BY <2>3, <2>6, <2>7, <2>8, <1>4, <1>13 DEF BucketInv
<1> QED BY <1>1, <1>9, <1>10

LEMMA TickKeeps ==
  ASSUME IInv, Tick
  PROVE  IInv'
<1>1. \A l \in Buckets: BucketInv(l)' /\ elapsed'[l] \in Nat /\ meter'[l] \in Int
  BY TickKeepsBucket DEF IInv
<1>2. TypeOK
  BY DEF IInv
<1>3. elapsed' \in [Buckets -> Nat] /\ meter' \in [Buckets -> Int]
  BY <1>1 DEF Tick
<1>4. sleep' \in [Tasks -> Nat]
  BY <1>2 DEF Tick, TypeOK
<1>5. TypeOK'
  BY <1>2, <1>3, <1>4 DEF Tick, TypeOK
<1> QED BY <1>1, <1>5 DEF IInv

\* The steps that leave the buckets alone.
LEMMA OthersKeep ==
  ASSUME IInv, UNCHANGED <<sleep, tokens, elapsed>>, TypeOK',
         \A l \in Buckets: Level(l)' = Level(l),
         \A t \in Tasks, l \in Buckets: InDebt(t, l)' => InDebt(t, l)
  PROVE  IInv'
BY BucketAlone DEF IInv

\* An overdue row that goes on takes from meter what its level had given up.
LEMMA DebtPaidKeeps ==
  ASSUME IInv, NEW t \in Tasks, DebtPaid(t)
  PROVE  IInv'
<1>0. PICK l \in Buckets: l = limiter[t]
  BY DEF IInv, TypeOK, DebtPaid
<1>1. /\ TypeOK /\ Granted(t, l) /\ pc[t] = "debt" /\ sleep[t] = 0
      /\ meter' = [meter EXCEPT ![l] = @ - cost(l)]
      /\ UNCHANGED <<sleep, tokens, elapsed>>
  BY <1>0 DEF IInv, DebtPaid
<1>2. /\ pc' \in [Tasks -> Pcs] /\ limiter' \in [Tasks -> Nat]
      /\ \A u \in Tasks: pc'[u] \in {"acquire", "debt"} => limiter'[u] \in Buckets
      /\ \A u \in Tasks, k \in Buckets:
           pc'[u] = "debt" => pc[u] = "debt" /\ limiter'[u] = limiter[u]
  BY <1>0, <1>1, GrantedTypes
<1>3. TypeOK'
  <2>1. cost(l) \in Nat /\ meter[l] \in Int
    BY <1>1, Positive DEF TypeOK
  <2> QED BY <1>1, <1>2, <2>1 DEF TypeOK
<1>4. \A u \in Tasks, k \in Buckets: InDebt(u, k)' => InDebt(u, k)
  BY <1>1, <1>2 DEF InDebt
<1>5. ASSUME NEW k \in Buckets PROVE Level(k)' = Level(k)
  <2>1. /\ pc'[t] # "debt"
        /\ \A u \in Tasks: u # t => pc'[u] = pc[u] /\ limiter'[u] = limiter[u]
    BY <1>1 DEF TypeOK, Granted
  <2>2. CASE k = l
    <3>1. Overdue(l) = Overdue(l)' \cup {t} /\ t \notin Overdue(l)'
      BY <1>0, <1>1, <2>1 DEF Overdue
    <3>2. IsFiniteSet(Overdue(l)')
      BY <3>1, OverdueFinite, FS_Subset
    <3>3. PICK n \in Nat: /\ n = cost(l) * Cardinality(Overdue(l)')
                          /\ cost(l) * Cardinality(Overdue(l)) = n + cost(l)
      BY <3>1, <3>2, OneMore
    <3>4. meter'[l] = meter[l] - cost(l) /\ meter[l] \in Int /\ cost(l) \in Nat
      BY <1>1, Positive DEF TypeOK
    <3>5. Level(l)' = meter'[l] - n /\ Level(l) = meter[l] - (n + cost(l))
      BY <3>3 DEF Level
    <3> QED BY <2>2, <3>3, <3>4, <3>5
  <2>3. CASE k # l
    <3>1. Overdue(k)' = Overdue(k)
      BY <1>0, <1>1, <2>1, <2>3 DEF Overdue
    <3>2. meter'[k] = meter[k]
      BY <1>1, <2>3 DEF TypeOK
    <3> QED BY <3>1, <3>2 DEF Level
  <2> QED BY <2>2, <2>3
<1> QED BY <1>1, <1>3, <1>4, <1>5, OthersKeep

\* A row past the buckets, or on the way to the router, only moves its pc.
LEMMA MovesKeep ==
  ASSUME IInv, UNCHANGED limited, NEW t \in Tasks, pc[t] # "debt",
         NEW where \in Pcs \ {"acquire", "debt"},
         pc' = pc \/ pc' = [pc EXCEPT ![t] = where]
  PROVE  IInv'
<1>1. TypeOK /\ TypeOK'
  BY DEF IInv, TypeOK, limited
<1>2. \A u \in Tasks: pc'[u] = "debt" <=> pc[u] = "debt"
  BY <1>1 DEF TypeOK
<1>3. \A u \in Tasks, l \in Buckets: InDebt(u, l)' => InDebt(u, l)
  BY <1>2 DEF limited, InDebt
<1>4. \A l \in Buckets: Level(l)' = Level(l)
  <2>1. \A l \in Buckets: Overdue(l)' = Overdue(l)
    BY <1>2 DEF limited, Overdue
  <2> QED BY <2>1 DEF limited, Level
<1> QED BY <1>1, <1>3, <1>4, OthersKeep DEF limited

LEMMA InitHolds ==
  ASSUME Init
  PROVE  IInv
<1>1. TypeOK
  BY Positive, BucketNumbers DEF Init, TypeOK, Pcs, Burst
<1>2. ASSUME NEW l \in Buckets PROVE BucketInv(l)
  <2>1. /\ tokens[l] = cap(l) /\ elapsed[l] = 0 /\ meter[l] = Burst(l)
        /\ \A t \in Tasks: ~ InDebt(t, l) /\ ~ Owes(t, l)
    BY DEF Init, Owes, InDebt
  <2>2. cap(l) \in Nat /\ cost(l) \in Nat /\ Burst(l) \in Nat
    BY Positive DEF Burst
  <2>4. Level(l) = Burst(l)
    <3>1. Overdue(l) = {}
      BY <2>1 DEF Overdue, InDebt
    <3>2. cost(l) * Cardinality(Overdue(l)) = 0
      BY <3>1, OverdueFinite
    <3> QED BY <2>1, <2>2, <3>2 DEF Level
  <2>3. Held(l) = cap(l)
    BY <2>1, <2>2 DEF Held
  <2> QED BY <2>1, <2>2, <2>3, <2>4 DEF BucketInv, SmallInv, LargeInv, Burst
<1> QED BY <1>1, <1>2 DEF IInv

LEMMA StepHolds ==
  ASSUME IInv, [Next]_vars
  PROVE  IInv'
<1>1. CASE UNCHANGED vars
  <2>1. UNCHANGED <<pc, limiter, sleep, tokens, elapsed, meter>>
    BY <1>1 DEF vars, limited
  <2>2. TypeOK'
    BY <2>1 DEF IInv, TypeOK
  <2>3. \A l \in Buckets: Level(l)' = Level(l)
    BY <2>1 DEF Level, Overdue
  <2> QED BY <2>1, <2>2, <2>3, OthersKeep DEF InDebt
<1>2. ASSUME NEW t \in Tasks, Row(t) PROVE IInv'
  <2>1. CASE Acquire(t)      BY <2>1, AcquireKeeps
  <2>2. CASE AcquireLarge(t) BY <2>2, AcquireLargeKeeps
  <2>3. CASE DebtPaid(t)     BY <2>3, DebtPaidKeeps
  <2>4. CASE Enter(t)
    BY <2>4, MovesKeep DEF Enter, Pcs
  <2>5. CASE TimedOut(t)
    BY <2>5, MovesKeep DEF TimedOut, Done, Pcs
  <2>6. CASE Post(t)
    BY <2>6, MovesKeep DEF Post, Pcs
  <2>7. CASE Answered(t)
    BY <2>7, MovesKeep DEF Answered, Done, Pcs
  <2>8. CASE Reconnect(t)
    BY <2>8, MovesKeep DEF Reconnect, Pcs
  <2>9. CASE GivenUp(t)
    BY <2>9, MovesKeep DEF GivenUp, Done, Pcs
  <2> QED BY <1>2, <2>1, <2>2, <2>3, <2>4, <2>5, <2>6, <2>7, <2>8, <2>9 DEF Row
<1>3. ASSUME NEW t \in Tasks, Computed(t) PROVE IInv'
  BY <1>3, MovesKeep DEF Computed, Done, Pcs
<1>4. CASE Tick
  BY <1>4, TickKeeps
<1> QED BY <1>1, <1>2, <1>3, <1>4 DEF Next, Finished

\* The rate limit: in any stretch of n ticks a token bucket of limited.py lets
\* through no more than its burst, n, and the requests of the rows that were
\* overdue when the stretch began (none, where requests fit in the bucket), for
\* every number of rows and every order and delay in which they wake.
THEOREM RateKept == Spec => []RateBound
<1>1. Init => IInv
  BY InitHolds
<1>2. IInv /\ [Next]_vars => IInv'
  BY StepHolds
<1>3. IInv => RateBound
  <2> SUFFICES ASSUME IInv, NEW l \in Buckets PROVE meter[l] >= 0
    BY DEF RateBound
  <2>1. /\ cap(l) \in Nat /\ cost(l) \in Nat /\ tokens[l] \in Int
        /\ elapsed[l] \in Nat /\ meter[l] \in Int /\ BucketInv(l)
    BY Positive DEF IInv, TypeOK
  <2>2. Level(l) \in Int /\ Level(l) <= meter[l]
    BY <2>1, OverdueFinite
  <2>3. Level(l) >= 0
    BY <2>1, <2>2 DEF BucketInv, SmallInv, LargeInv, Held
  <2> QED BY <2>1, <2>2, <2>3
<1> QED BY <1>1, <1>2, <1>3, PTL DEF Spec

-----------------------------------------------------------------------------
(* The router: no row runs out of retries while one server lives.           *)

Up == DOMAIN Servers \ Broken
Rows == Cardinality(Tasks)

\* The requests a server is working on.
At(u) == {t \in Tasks: pc[t] = "sent" /\ url[t] = u}

\* How often row t has been sent to a broken server.
Wasted(t) == tries[t] + (IF pc[t] = "sent" /\ url[t] \in Broken THEN 1 ELSE 0)

\* The places that failed requests have taken in the counts of the broken
\* servers, which never give them back.
Taken == {x \in Broken \X (1..Rows): x[2] <= counts[x[1]]}

RouterTypes ==
  /\ counts \in [DOMAIN Servers -> Nat]
  /\ url \in [Tasks -> Nat]
  /\ tries \in [Tasks -> Nat]
  /\ result \in [Tasks -> {"none", "score", "error", "timeout", "failed"}]

\* The count of a live server is what it works on, so that of a broken one
\* stays within the number of rows, and every request that failed takes a
\* place in one of those.
RouterInv ==
  /\ RouterTypes
  /\ \A t \in Tasks: pc[t] = "sent" => url[t] \in DOMAIN Servers
  /\ \A u \in Up: counts[u] = Cardinality(At(u))
  /\ \A u \in Broken: counts[u] <= Rows
  /\ \A t \in Tasks: Wasted(t) <= Cardinality(Taken)
  /\ \A t \in Tasks: result[t] = "failed" => tries[t] >= MaxRetries

\* A set of naturals has a least element.
LEMMA Smallest ==
  ASSUME NEW S \in SUBSET Nat, S # {}
  PROVE  Min(S) \in S /\ \A y \in S: Min(S) <= y
<1> DEFINE R == OpToRel(<, Nat)
<1>1. IsWellFoundedOn(R, Nat)
  BY NatLessThanWellFounded
<1>2. \A x, y \in Nat: x < y => <<x, y>> \in R
  BY DEF OpToRel
<1> HIDE DEF R
<1>3. \E x \in S: \A y \in S: ~ (<<y, x>> \in R)
  BY <1>1, WFMin
<1>4. \E x \in S: \A y \in S: x <= y
  <2>1. PICK x \in S: \A y \in S: ~ (<<y, x>> \in R)
    BY <1>3
  <2>2. ASSUME NEW y \in S PROVE x <= y
    <3>1. x \in Nat /\ y \in Nat /\ ~ (y < x)
      BY <1>2, <2>1
    <3> QED BY ONLY <3>1
  <2> QED BY <2>2
<1> QED BY <1>4 DEF Min

\* _select_worker chooses a server that no other has fewer requests than.
LEMMA LeastLoadedServer ==
  ASSUME RouterTypes, DOMAIN Servers # {}
  PROVE  /\ LeastLoaded \in DOMAIN Servers
         /\ \A v \in DOMAIN Servers: counts[LeastLoaded] <= counts[v]
<1> DEFINE C == {counts[u]: u \in DOMAIN Servers}
           L == {u \in DOMAIN Servers: \A v \in DOMAIN Servers: counts[u] <= counts[v]}
<1>1. DOMAIN Servers \subseteq Nat
  BY ServerAssumption
<1>2. C \in SUBSET Nat /\ C # {}
  BY DEF RouterTypes
<1>3. PICK u \in DOMAIN Servers: counts[u] = Min(C)
  BY <1>2, Smallest
<1>4. u \in L
  BY <1>2, <1>3, Smallest
<1>5. L \in SUBSET Nat /\ L # {}
  BY <1>1, <1>4
<1> HIDE DEF L
<1>6. Min(L) \in L
  BY ONLY <1>5, Smallest
<1> QED BY <1>6 DEF LeastLoaded, L

LEMMA TakenFinite ==
  /\ IsFiniteSet(Broken \X (1..Rows))
  /\ Rows \in Nat /\ Cardinality(Broken) \in Nat
  /\ Cardinality(Broken \X (1..Rows)) = Cardinality(Broken) * Rows
  /\ IsFiniteSet(Taken) /\ Cardinality(Taken) \in Nat
  /\ Cardinality(Taken) <= Cardinality(Broken) * Rows
<1>1. Rows \in Nat
  BY TasksAssumption, FS_CardinalityType DEF Rows
<1>2. IsFiniteSet(1..Rows) /\ Cardinality(1..Rows) = Rows
  <2>1. 1 \in Int /\ Rows \in Int
    BY <1>1
  <2>2. IsFiniteSet(1..Rows) /\ Cardinality(1..Rows) = IF 1 > Rows THEN 0 ELSE Rows - 1 + 1
    BY ONLY <2>1, FS_Interval
  <2> QED BY ONLY <1>1, <2>2
<1>3. IsFiniteSet(Broken) /\ Cardinality(Broken) \in Nat
  <2>1. IsFiniteSet(1..Len(Servers))
    BY ServerAssumption, FS_Interval
  <2> QED BY <2>1, ServerAssumption, FS_Subset, FS_CardinalityType
<1>4. /\ IsFiniteSet(Broken \X (1..Rows))
      /\ Cardinality(Broken \X (1..Rows)) = Cardinality(Broken) * Rows
  BY ONLY <1>2, <1>3, FS_Product
<1>5. Taken \subseteq Broken \X (1..Rows)
  BY DEF Taken
<1> QED BY <1>1, <1>3, <1>4, <1>5, FS_Subset, FS_CardinalityType

LEMMA AtFinite ==
  \A u: IsFiniteSet(At(u)) /\ Cardinality(At(u)) \in Nat
<1> SUFFICES ASSUME NEW u PROVE IsFiniteSet(At(u)) /\ Cardinality(At(u)) \in Nat
  OBVIOUS
<1>1. At(u) \subseteq Tasks
  BY DEF At
<1> QED BY <1>1, TasksAssumption, FS_Subset, FS_CardinalityType

\* A row that is not being sent is one of the rows a live server does not
\* work on.
LEMMA Spared ==
  ASSUME NEW t \in Tasks, pc[t] # "sent", NEW u
  PROVE  Cardinality(At(u)) + 1 <= Rows
<1>1. At(u) \subseteq Tasks \ {t}
  BY DEF At
<1>2. IsFiniteSet(Tasks \ {t}) /\ Cardinality(Tasks \ {t}) = Rows - 1
  BY TasksAssumption, FS_RemoveElement DEF Rows
<1>3. Cardinality(At(u)) <= Cardinality(Tasks \ {t}) /\ Cardinality(At(u)) \in Nat
  BY <1>1, <1>2, FS_Subset, AtFinite
<1>4. Rows \in Nat
  BY TakenFinite
<1> QED BY <1>2, <1>3, <1>4

LEMMA PostKeeps ==
  ASSUME RouterInv, Up # {}, TypeOK, NEW t \in Tasks, Post(t)
  PROVE  RouterInv'
<1>1. PICK u \in DOMAIN Servers: u = LeastLoaded /\ \A v \in DOMAIN Servers: counts[u] <= counts[v]
  BY LeastLoadedServer DEF Up, RouterInv
<1>2. /\ pc[t] = "post" /\ pc' = [pc EXCEPT ![t] = "sent"]
      /\ url' = [url EXCEPT ![t] = u]
      /\ counts' = [counts EXCEPT ![u] = @ + 1]
      /\ tries' = tries /\ result' = result
  BY <1>1 DEF Post
<1>3. RouterTypes /\ u \in Nat
  BY ServerAssumption DEF RouterInv
<1>4. RouterTypes'
  BY <1>2, <1>3 DEF RouterTypes
<1>5. \A s \in Tasks: pc'[s] = "sent" => url'[s] \in DOMAIN Servers
  BY <1>2, <1>3 DEF RouterInv, TypeOK, RouterTypes
<1>6. /\ counts'[u] = counts[u] + 1 /\ counts[u] \in Nat
      /\ \A v \in DOMAIN Servers: v # u => counts'[v] = counts[v]
  BY <1>2, <1>3 DEF RouterTypes
<1>7. /\ At(u)' = At(u) \cup {t} /\ t \notin At(u)
      /\ \A v: v # u => At(v)' = At(v)
  BY <1>2, <1>3 DEF At, TypeOK, RouterTypes
<1>8. \A v \in Up: counts'[v] = Cardinality(At(v)')
  <2> SUFFICES ASSUME NEW v \in Up PROVE counts'[v] = Cardinality(At(v)')
    OBVIOUS
  <2>1. CASE v = u
    <3>1. Cardinality(At(u) \cup {t}) = Cardinality(At(u)) + 1
      BY <1>7, AtFinite, FS_AddElement
    <3> QED BY <3>1, <2>1, <1>6, <1>7 DEF RouterInv
  <2>2. CASE v # u
    BY <2>2, <1>6, <1>7 DEF RouterInv, Up
  <2> QED BY <2>1, <2>2
<1>9. u \in Broken => counts[u] + 1 <= Rows
  <2> SUFFICES ASSUME u \in Broken PROVE counts[u] + 1 <= Rows
    OBVIOUS
  <2>1. PICK v \in Up: TRUE
    OBVIOUS
  <2>2. counts[u] <= Cardinality(At(v))
    BY <1>1 DEF RouterInv, Up
  <2>3. Cardinality(At(v)) + 1 <= Rows
    BY <1>2, Spared
  <2> QED BY <2>2, <2>3, <1>6, AtFinite, TakenFinite
<1>10. \A v \in Broken: counts'[v] <= Rows
  BY <1>6, <1>9, ServerAssumption DEF RouterInv
<1>11. \A s \in Tasks: Wasted(s)' <= Cardinality(Taken')
  <2>1. \A s \in Tasks: s # t => Wasted(s)' = Wasted(s)
    BY <1>2, <1>3 DEF Wasted, TypeOK, RouterTypes
  <2>2. Wasted(t) = tries[t] /\ tries[t] \in Nat
    BY <1>2, <1>3 DEF Wasted, RouterTypes
  <2>3. \A s \in Tasks: Wasted(s) \in Nat /\ Wasted(s) <= Cardinality(Taken)
    BY <1>3 DEF RouterInv, Wasted, RouterTypes
  <2>4. CASE u \in Broken
    <3>1. Wasted(t)' = Wasted(t) + 1
      BY <1>2, <1>3, <2>2, <2>4 DEF Wasted, TypeOK, RouterTypes
    <3>2. Taken' = Taken \cup {<<u, counts[u] + 1>>}
      <4>1. \A x \in Broken \X (1..Rows):
              x[2] <= counts'[x[1]] <=> x[2] <= counts[x[1]] \/ x = <<u, counts[u] + 1>>
        <5> SUFFICES ASSUME NEW v \in Broken, NEW k \in 1..Rows
                     PROVE  k <= counts'[v] <=> k <= counts[v] \/ (v = u /\ k = counts[u] + 1)
          OBVIOUS
        <5>1. CASE v = u
          BY <5>1, <1>6, TakenFinite
        <5>2. CASE v # u
          BY <5>2, <1>6, ServerAssumption
        <5> QED BY <5>1, <5>2
      <4>2. <<u, counts[u] + 1>> \in Broken \X (1..Rows)
        BY <2>4, <1>6, <1>9, TakenFinite
      <4> QED BY <4>1, <4>2 DEF Taken
    <3>3. <<u, counts[u] + 1>> \notin Taken
      BY <1>6 DEF Taken
    <3>4. Cardinality(Taken') = Cardinality(Taken) + 1
      BY <3>2, <3>3, TakenFinite, FS_AddElement
    <3> QED BY <3>1, <3>4, <2>1, <2>3, TakenFinite
  <2>5. CASE u \notin Broken
    <3>1. Wasted(t)' = Wasted(t)
      BY <1>2, <1>3, <2>2, <2>5 DEF Wasted, TypeOK, RouterTypes
    <3>2. Taken' = Taken
      BY <1>6, <2>5, ServerAssumption DEF Taken
    <3> QED BY <3>1, <3>2, <2>1, <2>3
  <2> QED BY <2>4, <2>5
<1>12. \A s \in Tasks: result'[s] = "failed" => tries'[s] >= MaxRetries
  BY <1>2 DEF RouterInv
<1> QED BY <1>4, <1>5, <1>8, <1>10, <1>11, <1>12 DEF RouterInv

LEMMA AnsweredKeeps ==
  ASSUME RouterInv, TypeOK, NEW t \in Tasks, Answered(t)
  PROVE  RouterInv'
<1>1. PICK u \in Up: u = url[t]
  BY DEF Answered, RouterInv, Up
<1>2. /\ pc[t] = "sent" /\ pc' = [pc EXCEPT ![t] = "done"]
      /\ result' = [result EXCEPT ![t] = "score"]
      /\ counts' = [counts EXCEPT ![u] = IF @ = 0 THEN 0 ELSE @ - 1]
      /\ tries' = tries /\ url' = url
  BY <1>1 DEF Answered, Done
<1>3. RouterTypes /\ u \in DOMAIN Servers /\ u \notin Broken
  BY DEF RouterInv, Up
<1>4. RouterTypes'
  BY <1>2, <1>3 DEF RouterTypes
<1>5. /\ At(u)' = At(u) \ {t} /\ t \in At(u)
      /\ \A v: v # u => At(v)' = At(v)
  BY <1>1, <1>2 DEF At, TypeOK
<1>6. \A v \in Up: counts'[v] = Cardinality(At(v)')
  <2> SUFFICES ASSUME NEW v \in Up PROVE counts'[v] = Cardinality(At(v)')
    OBVIOUS
  <2>1. CASE v = u
    <3>1. Cardinality(At(u) \ {t}) = Cardinality(At(u)) - 1
      BY <1>5, AtFinite, FS_RemoveElement
    <3>2. Cardinality(At(u)) # 0
      BY <1>5, AtFinite, FS_EmptySet
    <3>3. counts[u] = Cardinality(At(u)) /\ Cardinality(At(u)) \in Nat
      BY AtFinite DEF RouterInv
    <3>4. counts'[u] = IF counts[u] = 0 THEN 0 ELSE counts[u] - 1
      BY <1>2, <1>3 DEF RouterTypes
    <3> QED BY <3>1, <3>2, <3>3, <3>4, <2>1, <1>5
  <2>2. CASE v # u
    <3>1. counts'[v] = counts[v]
      BY <2>2, <1>2, <1>3 DEF RouterTypes, Up
    <3> QED BY <3>1, <2>2, <1>5 DEF RouterInv
  <2> QED BY <2>1, <2>2
<1>7. \A v \in Broken: counts'[v] = counts[v]
  BY <1>2, <1>3, ServerAssumption DEF RouterTypes
<1>8. Taken' = Taken
  BY <1>7 DEF Taken
<1>9. \A s \in Tasks: Wasted(s)' = Wasted(s)
  BY <1>1, <1>2, <1>3 DEF Wasted, TypeOK
<1>10. \A s \in Tasks: pc'[s] = "sent" => url'[s] \in DOMAIN Servers
  BY <1>2 DEF RouterInv, TypeOK
<1>11. \A s \in Tasks: result'[s] = "failed" => tries'[s] >= MaxRetries
  BY <1>2, <1>3 DEF RouterInv, RouterTypes
<1> QED BY <1>4, <1>6, <1>7, <1>8, <1>9, <1>10, <1>11 DEF RouterInv

LEMMA GivenUpKeeps ==
  ASSUME RouterInv, TypeOK, NEW t \in Tasks, GivenUp(t)
  PROVE  RouterInv'
<1>1. /\ pc[t] = "sent" /\ url[t] \in Broken
      /\ tries' = [tries EXCEPT ![t] = @ + 1]
      /\ counts' = counts /\ url' = url
      /\ \/ pc' = [pc EXCEPT ![t] = "post"] /\ result' = result
         \/ /\ tries[t] + 1 >= MaxRetries
            /\ pc' = [pc EXCEPT ![t] = "done"]
            /\ result' = [result EXCEPT ![t] = "failed"]
  <2>1. tries[t] \in Nat /\ MaxRetries \in Nat
    BY CountsAssumption DEF RouterInv, RouterTypes
  <2> QED BY <2>1 DEF GivenUp, Done
<1>2. RouterTypes
  BY DEF RouterInv
<1>3. RouterTypes'
  BY <1>1, <1>2 DEF RouterTypes
<1>4. pc'[t] # "sent" /\ \A s \in Tasks: s # t => pc'[s] = pc[s]
  BY <1>1 DEF TypeOK
<1>5. \A u \in Up: At(u)' = At(u)
  BY <1>1, <1>4 DEF At, Up
<1>6. Taken' = Taken
  BY <1>1 DEF Taken
<1>7. \A s \in Tasks: Wasted(s)' = Wasted(s)
  <2>1. Wasted(t)' = Wasted(t)
    BY <1>1, <1>2, <1>4 DEF Wasted, RouterTypes
  <2>2. \A s \in Tasks: s # t => Wasted(s)' = Wasted(s)
    BY <1>1, <1>2, <1>4 DEF Wasted, RouterTypes
  <2> QED BY <2>1, <2>2
<1>8. \A s \in Tasks: pc'[s] = "sent" => url'[s] \in DOMAIN Servers
  BY <1>1, <1>4 DEF RouterInv
<1>9. \A s \in Tasks: result'[s] = "failed" => tries'[s] >= MaxRetries
  <2>1. MaxRetries \in Nat
    BY CountsAssumption
  <2> QED BY <2>1, <1>1, <1>2 DEF RouterInv, RouterTypes
<1> QED BY <1>1, <1>3, <1>5, <1>6, <1>7, <1>8, <1>9 DEF RouterInv

\* The steps of the other path, and the router's next attempt.
LEMMA RouterAlone ==
  ASSUME RouterInv, UNCHANGED <<counts, url, tries>>,
         result' = result
         \/ \E t \in Tasks, what \in {"score", "error", "timeout"}:
              result' = [result EXCEPT ![t] = what],
         \A t \in Tasks: pc'[t] = "sent" <=> pc[t] = "sent"
  PROVE  RouterInv'
<1>1. RouterTypes /\ RouterTypes'
  BY DEF RouterInv, RouterTypes
<1>2. \A u: At(u)' = At(u)
  BY DEF At
<1>3. Taken' = Taken /\ \A t \in Tasks: Wasted(t)' = Wasted(t)
  BY DEF Taken, Wasted
<1>4. \A t \in Tasks: result'[t] = "failed" => result[t] = "failed"
  BY <1>1 DEF RouterTypes
<1> QED BY <1>1, <1>2, <1>3, <1>4 DEF RouterInv

LEMMA RouterStep ==
  ASSUME TypeOK, RouterInv, Up # {}, [Next]_vars
  PROVE  RouterInv'
<1> USE DEF TypeOK
<1>1. ASSUME NEW t \in Tasks, Row(t) \/ Computed(t)
      PROVE  RouterInv'
  <2>1. CASE Acquire(t)
    <3>1. /\ UNCHANGED <<counts, url, tries, result>>
          /\ pc[t] = "acquire"
          /\ \/ pc' = pc
             \/ pc' = [pc EXCEPT ![t] = "queue"]
             \/ pc' = [pc EXCEPT ![t] = "acquire"]
      BY <2>1 DEF Acquire, Granted, disrm
    <3> QED BY <3>1, RouterAlone
  <2>2. CASE AcquireLarge(t) \/ Enter(t)
    <3>1. /\ UNCHANGED <<counts, url, tries, result>>
          /\ pc[t] \in {"acquire", "queue"}
          /\ \E where \in {"debt", "running"}: pc' = [pc EXCEPT ![t] = where]
      BY <2>2 DEF AcquireLarge, Enter, disrm
    <3> QED BY <3>1, RouterAlone
  <2>3. CASE DebtPaid(t)
    <3>1. /\ UNCHANGED <<counts, url, tries, result>>
          /\ pc[t] = "debt"
          /\ \/ pc' = [pc EXCEPT ![t] = "queue"]
             \/ pc' = [pc EXCEPT ![t] = "acquire"]
      BY <2>3 DEF DebtPaid, Granted, disrm
    <3> QED BY <3>1, RouterAlone
  <2>4. CASE TimedOut(t) \/ Computed(t)
    <3>1. /\ UNCHANGED <<counts, url, tries>>
          /\ pc[t] = "running" /\ pc' = [pc EXCEPT ![t] = "done"]
          /\ \E what \in {"score", "error", "timeout"}:
               result' = [result EXCEPT ![t] = what]
      BY <2>4 DEF TimedOut, Computed, Done, disrm
    <3> QED BY <3>1, RouterAlone
  <2>5. CASE Post(t)     BY <2>5, PostKeeps
  <2>6. CASE Answered(t) BY <2>6, AnsweredKeeps
  <2>7. CASE Reconnect(t)
    BY <2>7, RouterAlone DEF Reconnect
  <2>8. CASE GivenUp(t)  BY <2>8, GivenUpKeeps
  <2> QED BY <1>1, <2>1, <2>2, <2>3, <2>4, <2>5, <2>6, <2>7, <2>8 DEF Row
<1>2. CASE Tick \/ Finished \/ UNCHANGED vars
  <2>1. UNCHANGED <<counts, url, tries, result, pc>>
    BY <1>2 DEF Tick, Finished, vars, disrm
  <2> QED BY <2>1, RouterAlone
<1> QED BY <1>1, <1>2 DEF Next

\* No row fails while one server lives, for every number of rows and servers,
\* if a row may be posted more often than there are pairs of a row and a
\* broken server.
THEOREM EveryRowServed == Spec => []ServedWhileUp
<1>1. Init => RouterInv
  <2> SUFFICES ASSUME Init PROVE RouterInv
    OBVIOUS
  <2>1. /\ \A t \in Tasks: pc[t] # "sent" /\ result[t] = "none" /\ tries[t] = 0
        /\ \A u \in DOMAIN Servers: counts[u] = 0
    BY DEF Init
  <2>2. RouterTypes
    BY DEF Init, RouterTypes
  <2>3. \A u \in Up: counts[u] = Cardinality(At(u))
    <3>1. \A u: At(u) = {}
      BY <2>1 DEF At
    <3> QED BY <2>1, <3>1, FS_EmptySet DEF Up
  <2>4. \A u \in Broken: counts[u] <= Rows
    BY <2>1, TakenFinite, ServerAssumption
  <2>5. \A t \in Tasks: Wasted(t) <= Cardinality(Taken)
    BY <2>1, TakenFinite DEF Wasted
  <2> QED BY <2>1, <2>2, <2>3, <2>4, <2>5 DEF RouterInv
<1>2. Init => IInv
  BY InitHolds
<1>3. IInv /\ [Next]_vars => IInv'
  BY StepHolds
<1>4. Up # {} /\ IInv /\ RouterInv /\ [Next]_vars => RouterInv'
  BY RouterStep DEF IInv
<1>5. (Up = {} \/ RouterInv) => ServedWhileUp
  <2> SUFFICES ASSUME Broken # DOMAIN Servers,
                      MaxRetries > Cardinality(Broken) * Cardinality(Tasks),
                      RouterInv, NEW t \in Tasks, result[t] = "failed"
               PROVE  FALSE
    BY ServerAssumption DEF ServedWhileUp, Up
  <2>1. tries[t] >= MaxRetries /\ tries[t] \in Nat /\ MaxRetries \in Nat
    BY CountsAssumption DEF RouterInv, RouterTypes
  <2>2. tries[t] <= Wasted(t) /\ Wasted(t) <= Cardinality(Taken) /\ Wasted(t) \in Nat
    BY <2>1 DEF RouterInv, Wasted
  <2>3. Cardinality(Taken) <= Cardinality(Broken) * Rows /\ Cardinality(Taken) \in Nat
    BY TakenFinite
  <2>4. PICK m \in Nat: m = Cardinality(Broken) * Rows
    BY TakenFinite
  <2> QED BY <2>1, <2>2, <2>3, <2>4 DEF Rows
<1>6. CASE Up = {}
  <2>1. TRUE => ServedWhileUp
    BY <1>5, <1>6
  <2> QED BY <2>1, PTL
<1>7. CASE Up # {}
  <2>1. IInv /\ RouterInv /\ [Next]_vars => RouterInv'
    BY <1>4, <1>7
  <2>2. RouterInv => ServedWhileUp
    BY <1>5
  <2> QED BY <1>1, <1>2, <1>3, <2>1, <2>2, PTL DEF Spec
<1> QED BY <1>6, <1>7
=============================================================================
