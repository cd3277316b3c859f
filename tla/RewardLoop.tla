----------------------------- MODULE RewardLoop -----------------------------
(* The reward loop (src/verl/experimental/reward_loop): the rows of a batch  *)
(* are dealt out to reward loop workers, and every worker scores its rows in *)
(* concurrent coroutines. compute_score takes one of two paths.              *)
(*                                                                           *)
(*   "limited"  a reward function behind an API: run_single of the rate      *)
(*              limited manager (reward_manager/limited.py) passes two token *)
(*              buckets, requests and tokens per minute, then a semaphore,   *)
(*              and gives the computation a timeout.                         *)
(*   "disrm"    a reward model of our own: _post_request (reward_loop.py)    *)
(*              posts to the router (router/naive_router.py), which forwards *)
(*              to the least loaded server; both retry.                      *)
(*                                                                           *)
(* Time is counted in ticks. The unit of each token bucket is chosen such    *)
(* that it gains one per tick (rate_limit = 1), so all quantities are        *)
(* integers. Nothing forces a coroutine to run when its sleep is over.       *)
EXTENDS Integers, Sequences, FiniteSets, FiniteSetsExt

CONSTANTS
  Tasks,          \* the rows of the batch (of one worker's chunk, if "limited")
  Limits,         \* <<rpm, tpm>>: records [cap, cost] of the two buckets
  MaxConcurrent,  \* reward_model.max_concurrent
  Timeout,        \* reward_model.timeout, in ticks
  Servers,        \* worker_urls, the sequence of servers behind the router
  Broken,         \* the servers that refuse every request
  MaxRetries,     \* of _post_request
  MaxAttempts     \* of the router

ASSUME LimitsAssumption ==
  Limits # <<>> /\ Limits \in Seq([cap: Nat \ {0}, cost: Nat \ {0}])
ASSUME CountsAssumption ==
  /\ MaxConcurrent \in Nat \ {0} /\ Timeout \in Nat \ {0}
  /\ MaxRetries \in Nat \ {0} /\ MaxAttempts \in Nat \ {0}
ASSUME ServerAssumption ==
  /\ DOMAIN Servers = 1..Len(Servers) /\ Len(Servers) \in Nat
  /\ Broken \subseteq DOMAIN Servers
ASSUME TasksAssumption == IsFiniteSet(Tasks)

VARIABLES
  path,     \* what compute_score does: "limited" or "disrm"
  pc,       \* where the coroutine of each row is
  result,   \* result[t]: "score", "timeout", "error", "failed" or "none"
  limiter,  \* limiter[t]: which token bucket row t is at
  sleep,    \* sleep[t]: the ticks its asyncio.sleep has still to go
  tokens,   \* tokens[l]: what the bucket holds, below 0 when it is in debt
  elapsed,  \* elapsed[l]: now - last_update
  age,      \* age[t]: the ticks of the computation
  meter,    \* meter[l]: what an ideal limiter would still let through
  counts,   \* request_counts of the router
  url,      \* url[t]: the server that the router has chosen
  attempt,  \* attempt[t]: the router's attempts
  tries     \* tries[t]: the attempts of _post_request

limited == <<limiter, sleep, tokens, elapsed, age, meter>>
disrm == <<counts, url, attempt, tries>>
vars == <<path, pc, result, limited, disrm>>

Buckets == DOMAIN Limits
cap(l) == Limits[l].cap
cost(l) == Limits[l].cost
Least(a, b) == IF a < b THEN a ELSE b

\* The most that a limiter may let through at once: its capacity, or one
\* request when a request costs more than that.
Burst(l) == IF cost(l) > cap(l) THEN cost(l) ELSE cap(l)

Init ==
  /\ path \in {"limited", "disrm"}
  /\ pc = [t \in Tasks |-> IF path = "disrm" THEN "post" ELSE "acquire"]
  /\ result = [t \in Tasks |-> "none"]
  /\ limiter = [t \in Tasks |-> 1]
  /\ sleep = [t \in Tasks |-> 0]
  /\ tokens = [l \in Buckets |-> cap(l)]
  /\ elapsed = [l \in Buckets |-> 0]
  /\ age = [t \in Tasks |-> 0]
  /\ meter = [l \in Buckets |-> Burst(l)]
  /\ counts = [u \in DOMAIN Servers |-> 0]
  /\ url = [t \in Tasks |-> 0]
  /\ attempt = [t \in Tasks |-> 0]
  /\ tries = [t \in Tasks |-> 0]

Done(t, what) ==
  /\ pc' = [pc EXCEPT ![t] = "done"]
  /\ result' = [result EXCEPT ![t] = what]

(***************************************************************************)
(* AsyncTokenBucket.acquire. Nothing is awaited while its lock is held, so  *)
(* one pass through the locked block is one step.                           *)
(***************************************************************************)
\* Row t has its tokens of bucket l: on to the next bucket or the semaphore.
Granted(t, l) ==
  /\ limiter' = [limiter EXCEPT ![t] = @ + 1]
  /\ pc' = [pc EXCEPT ![t] = IF l = Len(Limits) THEN "queue" ELSE "acquire"]

Refilled(l) == Least(cap(l), tokens[l] + elapsed[l])

\* Mutant: last_update is only set when the tokens are taken, so a row that
\* has to wait counts the time before it twice.
Acquire_NoStamp(t) ==
  LET l == limiter[t]
      have == Refilled(l)
  IN  /\ pc[t] = "acquire" /\ sleep[t] = 0 /\ cost(l) <= cap(l)
      /\ IF have >= cost(l)
         THEN /\ elapsed' = [elapsed EXCEPT ![l] = 0]
              /\ tokens' = [tokens EXCEPT ![l] = have - cost(l)]
              /\ meter' = [meter EXCEPT ![l] = @ - cost(l)]
              /\ Granted(t, l)
              /\ UNCHANGED sleep
         ELSE /\ tokens' = [tokens EXCEPT ![l] = have]
              /\ sleep' = [sleep EXCEPT ![t] = cost(l) - have]
              /\ UNCHANGED <<pc, limiter, elapsed, meter>>
      /\ UNCHANGED <<path, result, age, disrm>>

\* A request within the capacity takes its tokens, or sleeps for as long as
\* the missing ones need and tries again.
Acquire(t) ==
  LET l == limiter[t]
      have == Refilled(l)
      enough == have >= cost(l)
  IN  /\ pc[t] = "acquire" /\ sleep[t] = 0 /\ cost(l) <= cap(l)
      /\ elapsed' = [elapsed EXCEPT ![l] = 0]
      /\ IF enough
         THEN /\ tokens' = [tokens EXCEPT ![l] = have - cost(l)]
              /\ meter' = [meter EXCEPT ![l] = @ - cost(l)]
              /\ Granted(t, l)
              /\ UNCHANGED sleep
         ELSE /\ tokens' = [tokens EXCEPT ![l] = have]
              /\ sleep' = [sleep EXCEPT ![t] = cost(l) - have]
              /\ UNCHANGED <<pc, limiter, meter>>
      /\ UNCHANGED <<path, result, age, disrm>>

\* A larger one takes them at once, and leaves the bucket in debt; it sleeps
\* until the debt is paid. It has not gone through yet: meter is charged when
\* it does.
AcquireLarge(t) ==
  LET l == limiter[t]
      have == Refilled(l)
  IN  /\ pc[t] = "acquire" /\ cost(l) > cap(l)
      /\ elapsed' = [elapsed EXCEPT ![l] = 0]
      /\ tokens' = [tokens EXCEPT ![l] = have - cost(l)]
      /\ sleep' = [sleep EXCEPT ![t] = cost(l) - have]
      /\ pc' = [pc EXCEPT ![t] = "debt"]
      /\ UNCHANGED <<path, result, limiter, age, meter, disrm>>

\* The row wakes, now or later, and goes on without another look at the bucket.
DebtPaid(t) ==
  /\ pc[t] = "debt" /\ sleep[t] = 0
  /\ meter' = [meter EXCEPT ![limiter[t]] = @ - cost(limiter[t])]
  /\ Granted(t, limiter[t])
  /\ UNCHANGED <<path, result, sleep, tokens, elapsed, age, disrm>>

\* The rows whose sleep is over and that have not gone on yet.
Overdue(l) == {t \in Tasks: limiter[t] = l /\ pc[t] = "debt" /\ sleep[t] = 0}

(***************************************************************************)
(* run_single, after the buckets.                                          *)
(***************************************************************************)
Running == {t \in Tasks: pc[t] = "running"}

Enter(t) ==
  /\ pc[t] = "queue"
  /\ Cardinality(Running) < MaxConcurrent
  /\ pc' = [pc EXCEPT ![t] = "running"]
  /\ UNCHANGED <<path, result, limited, disrm>>

\* The reward function returns or raises, in time.
Computed(t) ==
  /\ pc[t] = "running" /\ age[t] < Timeout
  /\ \E what \in {"score", "error"}: Done(t, what)
  /\ UNCHANGED <<path, limited, disrm>>

\* Mutant: no timeout.
TimedOut_Never(t) == pc[t] = "timeless" /\ UNCHANGED vars

TimedOut(t) ==
  /\ pc[t] = "running" /\ age[t] = Timeout
  /\ Done(t, "timeout")
  /\ UNCHANGED <<path, limited, disrm>>

\* A tick of the event loop's clock. elapsed is counted no further than what
\* fills the bucket from the deepest debt, age no further than the timeout. The
\* ideal limiter holds its burst and what the overdue rows may still go on with.
Tick ==
  /\ path = "limited" /\ \E t \in Tasks: pc[t] # "done"
  /\ sleep' = [t \in Tasks |-> IF sleep[t] > 0 THEN sleep[t] - 1 ELSE 0]
  /\ elapsed' = [l \in Buckets |->
                   Least(elapsed[l] + 1, cap(l) - tokens[l])]
  /\ age' = [t \in Tasks |-> IF pc[t] = "running" THEN Least(age[t] + 1, Timeout)
                                                ELSE age[t]]
  /\ meter' = [l \in Buckets |->
                 Least(meter[l] + 1,
                       Burst(l) + cost(l) * Cardinality(Overdue(l)))]
  /\ UNCHANGED <<path, pc, result, limiter, tokens, disrm>>

(***************************************************************************)
(* _post_request and the router.                                           *)
(***************************************************************************)
\* _select_worker: the first of the least loaded servers.
LeastLoaded ==
  Min({u \in DOMAIN Servers: \A v \in DOMAIN Servers: counts[u] <= counts[v]})

Post(t) ==
  /\ pc[t] = "post"
  /\ url' = [url EXCEPT ![t] = LeastLoaded]
  /\ counts' = [counts EXCEPT ![LeastLoaded] = @ + 1]
  /\ attempt' = [attempt EXCEPT ![t] = 1]
  /\ pc' = [pc EXCEPT ![t] = "sent"]
  /\ UNCHANGED <<path, result, limited, tries>>

Answered(t) ==
  /\ pc[t] = "sent" /\ url[t] \notin Broken
  /\ counts' = [counts EXCEPT ![url[t]] = IF @ = 0 THEN 0 ELSE @ - 1]
  /\ Done(t, "score")
  /\ UNCHANGED <<path, limited, url, attempt, tries>>

\* The connection fails: the router tries the same server again.
Reconnect(t) ==
  /\ pc[t] = "sent" /\ url[t] \in Broken /\ attempt[t] < MaxAttempts
  /\ attempt' = [attempt EXCEPT ![t] = @ + 1]
  /\ UNCHANGED <<path, pc, result, limited, counts, url, tries>>

\* Mutant: the request is taken off the count of the server it failed at.
GivenUp_Released(t) ==
  /\ pc[t] = "sent" /\ url[t] \in Broken
  /\ tries' = [tries EXCEPT ![t] = @ + 1]
  /\ counts' = [counts EXCEPT ![url[t]] = @ - 1]
  /\ IF tries[t] + 1 < MaxRetries
     THEN pc' = [pc EXCEPT ![t] = "post"] /\ UNCHANGED result
     ELSE Done(t, "failed")
  /\ UNCHANGED <<path, limited, url, attempt>>

\* The router gives the request up (after its last attempt, or at once when
\* the server answers with an error), which it never takes off the server's
\* count. The client backs off and posts again, or raises.
GivenUp(t) ==
  /\ pc[t] = "sent" /\ url[t] \in Broken
  /\ tries' = [tries EXCEPT ![t] = @ + 1]
  /\ IF tries[t] + 1 < MaxRetries
     THEN pc' = [pc EXCEPT ![t] = "post"] /\ UNCHANGED result
     ELSE Done(t, "failed")
  /\ UNCHANGED <<path, limited, counts, url, attempt>>

Finished ==
  /\ \A t \in Tasks: pc[t] = "done"
  /\ UNCHANGED vars

Row(t) ==
  \/ Acquire(t) \/ AcquireLarge(t) \/ DebtPaid(t) \/ Enter(t) \/ TimedOut(t)
  \/ Post(t) \/ Answered(t) \/ Reconnect(t) \/ GivenUp(t)

Next == (\E t \in Tasks: Row(t) \/ Computed(t)) \/ Tick \/ Finished

\* Coroutines run, the clock goes on and a live server answers; nothing is
\* assumed of the reward function.
Spec == Init /\ [][Next]_vars /\ WF_vars(Tick) /\ \A t \in Tasks: WF_vars(Row(t))

-----------------------------------------------------------------------------
(***************************************************************************)
(* Properties                                                              *)
(***************************************************************************)
\* The rate limit: in any stretch of n ticks, however the rows interleave, a
\* bucket lets through no more than its burst, n, and the requests of the rows
\* that were overdue when the stretch began. The last only exist where a request
\* costs more than the capacity: limited.py:143-145 goes on after the sleep
\* without another look at the bucket, so rows that wake late go on together;
\* smaller requests look again, and wake as late as they like. (meter is refilled
\* and drained like an ideal limiter that starts full; it is below 0 once some
\* stretch had too much.)
RateBound == \A l \in Buckets: meter[l] >= 0

\* Every row of the batch comes to an end: rows that sleep for the same
\* tokens do not starve each other, and a reward function that never returns
\* is abandoned and makes room.
RowsEnd == <>(\A t \in Tasks: pc[t] = "done")

\* While one server lives, no row fails, as long as a row may be posted more
\* often than all rows could be to each broken server once: the router does
\* not send it to a broken server for ever, because it never forgets a request
\* that failed there.
ServedWhileUp ==
  Broken # DOMAIN Servers
  /\ MaxRetries > Cardinality(Broken) * Cardinality(Tasks) =>
    \A t \in Tasks: result[t] # "failed"
=============================================================================
