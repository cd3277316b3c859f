--------------------------- MODULE TeacherContext ---------------------------
(***************************************************************************)
(* The peers the self-distillation teacher is shown beside the prompt of a *)
(* row (_maybe_build_self_distillation_batch and what it calls, in         *)
(* verl/trainer/ppo/ray_trainer.py).  A batch b gives each row its prompt  *)
(* (uid), whether its reward reaches the success threshold (ok), its       *)
(* response length (len) and whether the environment had feedback for it   *)
(* (feedback).  A setting c is the self_distillation configuration.        *)
(* Random choices are sets: a row's context is any element of Contexts.    *)
(***************************************************************************)
EXTENDS BatchBalance

Rows(b) == DOMAIN b.uid

\* The first row of a set, as a set of none or one.
Earliest(S) == {j \in S : \A k \in S : j <= k}

\* Mutant: the row itself is not taken out.
Successes_SelfKept(b, c, i) ==
  {j \in Rows(b) : b.uid[j] = b.uid[i] /\ b.ok[j]}

\* success_by_uid[uids[i]], without the row itself when it must not see itself.
Successes(b, c, i) ==
  {j \in Rows(b) : b.uid[j] = b.uid[i] /\ b.ok[j] /\ (c.skipSelf => j # i)}

\* fail_by_uid[uids[i]], never with the row itself.
Failures(b, i) == {j \in Rows(b) : b.uid[j] = b.uid[i] /\ ~b.ok[j] /\ j # i}

PrimarySolution(b, c, i) == Earliest(Successes(b, c, i))

Solution(b, c, i) == IF c.primary THEN PrimarySolution(b, c, i) ELSE {}

AnotherSolution(b, c, i) ==
  IF c.another THEN Earliest(Successes(b, c, i) \ PrimarySolution(b, c, i)) ELSE {}

\* A failed response is asked for always, or when there is no solution.
FailureWanted(b, c, i) ==
  \/ c.failure = "always"
  \/ c.failure = "when_no_solution" /\ PrimarySolution(b, c, i) = {}

AnyOne(S) == IF S = {} THEN {{}} ELSE {{x} : x \in S}

\* random.sample(pool, min(n, len(pool)))
AnyOf(S, n) == kSubset(IF n < Cardinality(S) THEN n ELSE Cardinality(S), S)

\* The responses whose summaries may be shown.
SummaryPool(b, c, i) ==
  {j \in Rows(b) :
     /\ b.uid[j] = b.uid[i]
     /\ c.summaries = "success" => b.ok[j]
     /\ c.summaries = "failure" => ~b.ok[j]
     /\ c.skipSelf => j # i} \ PrimarySolution(b, c, i)

StandardContexts(b, c, i) ==
  [solution  : {Solution(b, c, i)},
   another   : {AnotherSolution(b, c, i)},
   failure   : IF FailureWanted(b, c, i) THEN AnyOne(Failures(b, i)) ELSE {{}},
   summaries : IF c.summaries = "off" THEN {{}}
               ELSE AnyOf(SummaryPool(b, c, i), c.summaryK)]

-----------------------------------------------------------------------------
\* Mutant: only the primary solution has a slot.
SuccessSlots_PrimaryOnly(b, c, i) ==
  IF c.primary THEN Earliest(Successes(b, c, i)) ELSE {}

\* The peers whose places a control has to fill, and whose lengths it has to
\* match: the two successes and the one failure a row would be shown.
SuccessSlots(b, c, i) ==
  LET own == Successes(b, c, i)
  IN (IF c.primary THEN Earliest(own) ELSE {})
     \cup (IF c.another THEN Earliest(own \ Earliest(own)) ELSE {})

FailureSlots(b, c, i) ==
  IF FailureWanted(b, c, i) THEN Earliest(Failures(b, i)) ELSE {}

Tokens(b, S) == Total(b.len, S)

\* The peer of the length nearest to that of slot s; of two as near the one
\* that comes first, successes before failures.
Nearest(b, pool, s) ==
  LET gap(j) == IF b.len[j] > b.len[s] THEN b.len[j] - b.len[s]
                                       ELSE b.len[s] - b.len[j]
      earlier(j, k) == IF b.ok[j] = b.ok[k] THEN j <= k ELSE b.ok[j]
  IN {j \in pool : \A k \in pool : \/ gap(j) < gap(k)
                                   \/ gap(j) = gap(k) /\ earlier(j, k)}

\* A peer for each of at most two slots, the second not the first one's.
ClosestPeers(b, pool, slots) ==
  LET one == UNION {Nearest(b, pool, s) : s \in Earliest(slots)}
  IN one \cup UNION {Nearest(b, pool \ one, s) : s \in slots \ Earliest(slots)}

\* _pick_slots: a distinct peer for each slot, the nearest in length or any.
SlotPicks(b, c, pool, slots) ==
  IF c.match = "token" THEN {ClosestPeers(b, pool, slots)}
                       ELSE AnyOf(pool, Cardinality(slots))

\* Peers drawn one by one until their tokens reach the target, or all.
TokenPicks(b, pool, target) ==
  {S \in SUBSET pool :
     /\ S = pool \/ Tokens(b, S) >= target
     /\ S = {} \/ \E j \in S : Tokens(b, S \ {j}) < target}

\* _pick_budget: so many blocks, or so many tokens.
BudgetPicks(b, c, pool, blocks, tokens) ==
  IF c.match = "token" THEN TokenPicks(b, pool, tokens)
                       ELSE AnyOf(pool, blocks)

\* The successes of the other prompts.
Others(b, i) == {j \in Rows(b) : b.ok[j] /\ b.uid[j] # b.uid[i]}

\* random_peer: any label in any slot.
RandomPeers(b, c, i) ==
  LET group == Successes(b, c, i) \cup Failures(b, i)
  IN UNION {{<<s, f>> : f \in SlotPicks(b, c, group \ s, FailureSlots(b, c, i))} :
              s \in SlotPicks(b, c, group, SuccessSlots(b, c, i))}

\* success_only_matched: the prompt's own successes, topped up from others'.
MatchedSuccesses(b, c, i, blocks, tokens) ==
  UNION {{<<s \cup t, {}>> :
            t \in BudgetPicks(b, c, Others(b, i), blocks - Cardinality(s),
                              tokens - Tokens(b, s))} :
           s \in BudgetPicks(b, c, Successes(b, c, i), blocks, tokens)}

\* _build_control_peers: what takes the slots of the baseline.  All success
\* blocks of a control context are in "solution".
ControlPicks(b, c, i) ==
  LET slots == SuccessSlots(b, c, i) \cup FailureSlots(b, c, i)
      blocks == Cardinality(slots)
      tokens == Tokens(b, slots)
  IN CASE slots = {} -> {<<{}, {}>>}
       [] slots # {} /\ c.control = "random_peer" -> RandomPeers(b, c, i)
       [] slots # {} /\ c.control = "unrelated_prompt" ->
            BudgetPicks(b, c, Others(b, i), blocks, tokens) \X {{}}
       [] slots # {} /\ c.control = "success_only_matched" ->
            MatchedSuccesses(b, c, i, blocks, tokens)

ControlContexts(b, c, i) ==
  {[solution |-> p[1], another |-> {}, failure |-> p[2], summaries |-> {}] :
     p \in ControlPicks(b, c, i)}

Contexts(b, c, i) == IF c.control = "none" THEN StandardContexts(b, c, i)
                                           ELSE ControlContexts(b, c, i)

-----------------------------------------------------------------------------
\* _collect_feedback, and whether feedback is kept for rows without a solution.
HasFeedback(b, c, i) == c.feedback # "off" /\ b.feedback[i]

ShowsBlocks(x) == x.solution \cup x.another \cup x.failure \cup x.summaries # {}

\* _build_teacher_message: the prompt is rewritten rather than repeated.
Reprompted(b, c, i, x) ==
  \/ ShowsBlocks(x)
  \/ /\ HasFeedback(b, c, i)
     /\ c.feedback = "without_solution" => x.solution = {}

\* Mutant: the summaries are not looked at.
Mask_NoSummaries(b, c, i, x) ==
  \/ x.solution \cup x.another \cup x.failure # {}
  \/ /\ HasFeedback(b, c, i)
     /\ c.feedback = "without_solution" => Solution(b, c, i) = {}

\* self_distillation_mask: whether the row is distilled from.
Mask(b, c, i, x) ==
  \/ ShowsBlocks(x)
  \/ /\ HasFeedback(b, c, i)
     /\ c.feedback = "without_solution" => Solution(b, c, i) = {}
=============================================================================
