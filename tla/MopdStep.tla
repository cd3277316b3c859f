------------------------------ MODULE MopdStep ------------------------------
(***************************************************************************)
(* One step of the synchronous trainer on a generated batch                *)
(* (RayPPOTrainer.fit in verl/trainer/ppo/ray_trainer.py): the batch is    *)
(* balanced over the data parallel ranks, the ranks compute old log        *)
(* probabilities, the trainer builds the teacher's context row by row, and *)
(* the ranks train the actor mini-batch by mini-batch                      *)
(* (verl/workers/actor/dp_actor.py).  The ranks hold shards of one model:  *)
(* a forward pass is a collective that no rank ends before all have begun. *)
(* A sample has one length, for its sequence and its response; one token   *)
(* limit and one micro-batch size serve both passes.                       *)
(***************************************************************************)
EXTENDS TeacherContext

CONSTANTS
  Prompts,   \* prompts of a batch
  Rollouts,  \* rollout.n: responses to each
  Ranks,     \* data parallel size
  Inputs,    \* the batches that are explored: lengths, successes, feedback
  Settings   \* the configurations that are explored

Samples == 1..(Prompts * Rollouts)
RankSet == 1..Ranks
PerRank == (Prompts * Rollouts) \div Ranks

\* The batch is repeated interleaved: the responses to a prompt are neighbours.
Uid(s) == (s - 1) \div Rollouts + 1

ASSUME SizesAssumption ==
  /\ Prompts \in Nat \ {0} /\ Rollouts \in Nat \ {0} /\ Ranks \in Nat \ {0}
  /\ (Prompts * Rollouts) % Ranks = 0
ASSUME InputsAssumption ==
  Inputs \subseteq [len : [Samples -> Nat \ {0}], ok : SUBSET Samples,
                    feedback : SUBSET Samples]

\* A batch whose prompts do not divide over the ranks is refused when the
\* responses to a prompt are to stay together.  regularization is
\* teacher_regularization, or "off" where teacher_update_rate is 0: both kinds
\* of teacher are the reference model then.
ASSUME SettingsAssumption ==
  /\ Settings \subseteq
       [balance : BOOLEAN, prefixGrouper : BOOLEAN, dynamic : BOOLEAN,
        maxTokens : Nat \ {0}, microBatch : Nat \ {0},
        miniBatch : Nat \ {0}, epochs : Nat \ {0},
        primary : BOOLEAN, another : BOOLEAN,
        failure : {"off", "always", "when_no_solution"},
        skipSelf : BOOLEAN,
        summaries : {"off", "all", "success", "failure"}, summaryK : Nat,
        feedback : {"off", "always", "without_solution"},
        control : {"none", "random_peer", "unrelated_prompt",
                   "success_only_matched"},
        match : {"block", "token"},
        regularization : {"off", "ema", "trust-region"}]
  /\ (\E c \in Settings : c.balance /\ c.prefixGrouper)
       => Prompts % Ranks = 0

\* rearrange_micro_batches refuses a row longer than the token limit.
ASSUME LimitAssumption ==
  \A c \in Settings, b \in Inputs :
    c.dynamic => \A s \in Samples : b.len[s] <= c.maxTokens

VARIABLES
  setting,   \* the configuration of the step
  input,     \* what was generated
  phase,     \* what the step is at
  batch,     \* the sample in each row
  plan,      \* the micro-batches of the pass under way, for each rank
  turn,      \* micro-batches done in the pass
  outs,      \* what the log-prob pass has computed, for each rank
  oldLogp,   \* old_log_probs of each row: whose, and by which weights
  row,       \* rows whose teacher context is built
  ctx,       \* the context of the last of them
  mask,      \* self_distillation_mask
  epoch,     \* PPO epochs over
  mini,      \* mini-batches trained in this one
  loss,      \* the rows of the last micro-batch: what their loss was made of
  version,   \* optimizer steps the actor has seen
  effective, \* did_update
  teacher,   \* version the teacher has followed the actor to
  uses       \* how often each sample has been trained on

stepVars == <<setting, input, phase, batch, plan, turn, outs, oldLogp, row,
              ctx, mask, epoch, mini, loss, version, effective, teacher, uses>>

NoContext == [solution |-> {}, another |-> {}, failure |-> {}, summaries |-> {}]
Idle == [r \in RankSet |-> <<>>]

-----------------------------------------------------------------------------
\* The batch as the trainer looks at it, row by row.
Batch == [uid      |-> [i \in DOMAIN batch |-> Uid(batch[i])],
          ok       |-> [i \in DOMAIN batch |-> batch[i] \in input.ok],
          len      |-> [i \in DOMAIN batch |-> input.len[batch[i]]],
          feedback |-> [i \in DOMAIN batch |-> batch[i] \in input.feedback]]

\* The rows the dispatch sends to a rank, and those of one of its mini-batches.
RowsOf(r) == [i \in 1..PerRank |-> (r - 1) * PerRank + i]

MiniBatches == CeilDiv(PerRank, setting.miniBatch)
MiniBatch(r, m) == Split(RowsOf(r), setting.miniBatch)[m + 1]

\* The lengths of some rows of a batch, and micro-batches of their places as
\* micro-batches of the rows.
LengthsOf(order, rows) == [i \in DOMAIN rows |-> input.len[order[rows[i]]]]
RowsAt(rows, parts) ==
  [m \in DOMAIN parts |-> [i \in DOMAIN parts[m] |-> rows[parts[m][i]]]]

\* Mutant: each rank lays out its own number of micro-batches.
Plan_NoReduce(order, rows) ==
  [r \in RankSet |->
     IF setting.dynamic
     THEN LET lens == LengthsOf(order, rows[r])
          IN RowsAt(rows[r],
                    MicroBatches(lens, MicroBatchesWanted(lens,
                                                          setting.maxTokens)))
     ELSE Split(rows[r], setting.microBatch)]

\* The micro-batches of a pass over rows[r] on each rank r: by their tokens,
\* as many on every rank, or a fixed number of rows each.
Plan(order, rows) ==
  LET lens(r) == LengthsOf(order, rows[r])
      wanted == {MicroBatchesWanted(lens(r), setting.maxTokens) : r \in RankSet}
      n == CHOOSE x \in wanted : \A y \in wanted : y <= x
  IN [r \in RankSet |-> IF setting.dynamic
                        THEN RowsAt(rows[r], MicroBatches(lens(r), n))
                        ELSE Split(rows[r], setting.microBatch)]

MiniPlan(m) == Plan(batch, [r \in RankSet |-> MiniBatch(r, m)])

MoreOnAll == \A r \in RankSet : turn < Len(plan[r])
DoneOnAll == \A r \in RankSet : turn = Len(plan[r])

-----------------------------------------------------------------------------
StepInit ==
  /\ setting \in Settings /\ input \in Inputs
  /\ phase = "balance"
  /\ batch = [i \in Samples |-> i]
  /\ plan = Idle /\ turn = 0 /\ outs = Idle
  /\ oldLogp = <<>>
  /\ row = 0 /\ ctx = NoContext /\ mask = <<>>
  /\ epoch = 0 /\ mini = 0 /\ loss = {}
  /\ version = 0 /\ effective = FALSE /\ teacher = 0
  /\ uses = [s \in Samples |-> 0]

\* _balance_batch, when it is on; then the ranks lay out the log-prob pass.
Balance ==
  /\ phase = "balance"
  /\ batch' = IF setting.balance
              THEN BalancedOrder(input.len, [s \in Samples |-> Uid(s)], Ranks,
                                 setting.prefixGrouper)
              ELSE batch
  /\ plan' = Plan(batch', [r \in RankSet |-> RowsOf(r)])
  /\ phase' = "logprob"
  /\ UNCHANGED <<setting, input, turn, outs, oldLogp, row, ctx, mask, epoch,
                 mini, loss, version, effective, teacher, uses>>

\* compute_log_prob: every rank runs its next micro-batch.
Forward ==
  /\ phase = "logprob" /\ MoreOnAll
  /\ outs' = [r \in RankSet |->
                LET rows == plan[r][turn + 1]
                IN outs[r] \o [i \in DOMAIN rows |->
                                 [sample |-> batch[rows[i]],
                                  version |-> version]]]
  /\ turn' = turn + 1
  /\ UNCHANGED <<setting, input, phase, batch, plan, oldLogp, row, ctx, mask,
                 epoch, mini, loss, version, effective, teacher, uses>>

\* The outputs go back into the order of the rows, rank after rank.
Collect ==
  /\ phase = "logprob" /\ DoneOnAll
  /\ oldLogp' = FlattenSeq(
       [r \in RankSet |->
          IF setting.dynamic
          THEN Restore(outs[r],
                       [m \in DOMAIN plan[r] |->
                          [i \in DOMAIN plan[r][m] |->
                             plan[r][m][i] - (r - 1) * PerRank]])
          ELSE outs[r]])
  /\ phase' = "context" /\ turn' = 0 /\ outs' = Idle /\ plan' = Idle
  /\ UNCHANGED <<setting, input, batch, row, ctx, mask, epoch, mini, loss,
                 version, effective, teacher, uses>>

\* The teacher's prompt of the next row.
Context ==
  /\ phase = "context" /\ row < Len(batch)
  /\ row' = row + 1
  /\ ctx' \in Contexts(Batch, setting, row + 1)
  /\ mask' = Append(mask, Mask(Batch, setting, row + 1, ctx'))
  /\ UNCHANGED <<setting, input, phase, batch, plan, turn, outs, oldLogp,
                 epoch, mini, loss, version, effective, teacher, uses>>

\* update_policy begins: the first mini-batch is laid out.
Update ==
  /\ phase = "context" /\ row = Len(batch)
  /\ plan' = MiniPlan(0)
  /\ ctx' = NoContext
  /\ phase' = "update"
  /\ UNCHANGED <<setting, input, batch, turn, outs, oldLogp, row, mask, epoch,
                 mini, loss, version, effective, teacher, uses>>

\* With one mini-batch and one epoch the current log probabilities are the
\* old ones.
OnPolicy == MiniBatches = 1 /\ setting.epochs = 1

\* The versions of the actor the teacher's outputs are made of.  A
\* TrustRegionTeacher mixes the logits of the reference model with those the
\* actor has now; the others are one model.
TeacherVersions ==
  IF setting.regularization = "trust-region" THEN {teacher, version}
                                             ELSE {teacher}

\* Every rank runs its next micro-batch forward and backward.
TrainMicroBatch ==
  /\ phase = "update" /\ MoreOnAll
  /\ LET rows == UNION {ToSet(plan[r][turn + 1]) : r \in RankSet}
     IN /\ loss' = {[sample  |-> batch[i],
                     old     |-> IF OnPolicy
                                 THEN [sample |-> batch[i], version |-> version]
                                 ELSE oldLogp[i],
                     teacher |-> TeacherVersions] : i \in rows}
        /\ uses' = [s \in Samples |->
             uses[s] + Cardinality({i \in rows : batch[i] = s})]
  /\ turn' = turn + 1
  /\ UNCHANGED <<setting, input, phase, batch, plan, outs, oldLogp, row, ctx,
                 mask, epoch, mini, version, effective, teacher>>

\* _optimizer_step, which skips a gradient that is not finite.
Optimize ==
  /\ \E finite \in BOOLEAN :
       /\ version' = IF finite THEN version + 1 ELSE version
       /\ effective' = (effective \/ finite)
  /\ turn' = 0 /\ loss' = {}
  /\ UNCHANGED <<setting, input, batch, outs, oldLogp, row, ctx, mask, uses>>

\* The optimizer steps, and the next mini-batch of the epoch is laid out.
NextMiniBatch ==
  /\ phase = "update" /\ DoneOnAll /\ mini + 1 < MiniBatches
  /\ Optimize
  /\ mini' = mini + 1
  /\ plan' = MiniPlan(mini + 1)
  /\ UNCHANGED <<phase, epoch, teacher>>

\* The epoch is over: another, or the end of the step, where the averaged
\* teacher follows the actor.
NextEpoch ==
  /\ phase = "update" /\ DoneOnAll /\ mini + 1 = MiniBatches
  /\ Optimize
  /\ mini' = 0
  /\ epoch' = epoch + 1
  /\ IF epoch + 1 < setting.epochs
     THEN plan' = MiniPlan(0) /\ UNCHANGED <<phase, teacher>>
     ELSE /\ phase' = "done"
          /\ plan' = Idle
          /\ teacher' = IF effective' /\ setting.regularization = "ema"
                        THEN version' ELSE teacher

Finished == phase = "done" /\ UNCHANGED stepVars

Step == \/ Balance \/ Forward \/ Collect \/ Context \/ Update
        \/ TrainMicroBatch \/ NextMiniBatch \/ NextEpoch

StepNext == Step \/ Finished

StepSpec == StepInit /\ [][StepNext]_stepVars

-----------------------------------------------------------------------------
\* What a sample costs, the samples of a rank and what they cost.
Work == [s \in Samples |-> Workload(input.len[s])]
SamplesOf(r) == {batch[i] : i \in ToSet(RowsOf(r))}
RankLoad(r) == Total(Work, SamplesOf(r))

\* Balancing only moves rows; two ranks' loads differ by no more than the loads
\* of two rows do that are neighbours (or as close as there are ranks) when
\* rows are sorted by load; or, when their prefix is shared, the responses to
\* a prompt stay on one rank.
Balanced ==
  /\ {batch[i] : i \in Samples} = Samples
  /\ phase # "balance" /\ setting.balance =>
       IF setting.prefixGrouper
       THEN \A r \in RankSet : \A s \in SamplesOf(r), t \in Samples :
              Uid(t) = Uid(s) => t \in SamplesOf(r)
       ELSE \A r, q \in RankSet : r # q =>
              \E h, l \in Samples :
                /\ RankLoad(r) - RankLoad(q) <= Work[h] - Work[l]
                /\ Cardinality({s \in Samples : Work[l] < Work[s]
                                                /\ Work[s] < Work[h]})
                     <= Ranks - 2

\* Every rank runs as many forward passes as the others, or they would wait
\* for it for ever.
SamePasses == \A r, q \in RankSet : Len(plan[r]) = Len(plan[q])

\* A micro-batch by tokens holds some row, and no more tokens than the limit
\* and a row of its rank together: but for what makes a token of that row
\* dearer than one alone, as it is the work that is balanced.
WithinLimit ==
  \A r \in RankSet : \A m \in DOMAIN plan[r] :
    /\ plan[r][m] # <<>>
    /\ \E s \in SamplesOf(r) :
         24576 * Total(input.len, {batch[i] : i \in ToSet(plan[r][m])})
           <= (24576 + input.len[s]) * (setting.maxTokens + input.len[s])

MicroBatchesFit == SamePasses /\ (setting.dynamic => WithinLimit)

\* Whatever the balancing and the micro-batches do to the order, a row's loss
\* holds its own old log probabilities, by the weights of before the step, and
\* a teacher of before the step; every sample is trained on once an epoch.  The
\* trust-region teacher is one of before the step in the first mini-batch only:
\* later it holds part of what the step has learnt so far.
StepAnchored ==
  /\ \A x \in loss :
       /\ x.old = [sample |-> x.sample, version |-> 0]
       /\ \/ x.teacher = {0}
          \/ setting.regularization = "trust-region" /\ (mini > 0 \/ epoch > 0)
  /\ phase = "done" => \A s \in Samples : uses[s] = setting.epochs

Shown == ctx.solution \cup ctx.another \cup ctx.failure \cup ctx.summaries
Built == phase = "context" /\ row > 0
SamePrompt(i, j) == Uid(batch[i]) = Uid(batch[j])

\* What a row's teacher sees as successes are successes, and of the same
\* prompt, except where the control asks otherwise; a row never sees itself
\* when it must not, nor ever as a failure.
PeersFit ==
  Built =>
    /\ setting.control # "random_peer" =>
         /\ \A j \in ctx.solution \cup ctx.another : batch[j] \in input.ok
         /\ \A j \in ctx.failure : batch[j] \notin input.ok
    /\ \A j \in Shown :
         IF setting.control = "unrelated_prompt" THEN ~SamePrompt(row, j)
         ELSE SamePrompt(row, j) \/ setting.control = "success_only_matched"
    /\ setting.skipSelf => row \notin Shown
    /\ setting.control = "none" => row \notin ctx.failure

\* The blocks the row would show without the control.
Baseline ==
  CHOOSE x \in StandardContexts(Batch, setting, row) : TRUE
Blocks(x) == Cardinality(x.solution) + Cardinality(x.another)
             + Cardinality(x.failure)

\* The rows a control may draw from, those it draws without need included.
Drawable ==
  {j \in DOMAIN batch :
     CASE setting.control = "random_peer" -> SamePrompt(row, j)
       [] setting.control = "unrelated_prompt" ->
            batch[j] \in input.ok /\ ~SamePrompt(row, j)
       [] setting.control = "success_only_matched" -> batch[j] \in input.ok}
  \ (IF setting.skipSelf THEN {row} ELSE {})

\* A matched-budget control shows as many blocks as the baseline of its row,
\* or all there are; matched by tokens, a row has blocks whenever its baseline
\* has them and there are any.
MatchedBudget ==
  Built /\ setting.control # "none" =>
    LET n == Blocks(Baseline) IN
    IF setting.match = "block"
    THEN \/ Blocks(ctx) = n
         \/ Blocks(ctx) < n /\ Drawable \subseteq Shown
    ELSE (Shown = {}) <=> (n = 0 \/ Drawable = {})

\* A row is distilled from only if its teacher's prompt was rewritten, and
\* left out after a rewrite only where a control found no peer for a row that
\* has a solution, so that feedback took the place of the solution.
MaskMatchesPrompt ==
  Built =>
    LET rewritten == Reprompted(Batch, setting, row, ctx) IN
    /\ mask[row] => rewritten
    /\ rewritten /\ ~mask[row] =>
         /\ setting.control # "none" /\ setting.feedback = "without_solution"
         /\ Shown = {} /\ Solution(Batch, setting, row) # {}
=============================================================================
