---------------------------- MODULE MCMopdStep ----------------------------
(* Two prompts with four responses each, on two ranks. *)
EXTENDS MopdStep

Sdpo == [balance |-> TRUE, prefixGrouper |-> FALSE, dynamic |-> TRUE,
         maxTokens |-> 4096, microBatch |-> 2, miniBatch |-> 4, epochs |-> 1,
         primary |-> TRUE, another |-> FALSE, failure |-> "off",
         skipSelf |-> TRUE, summaries |-> "off", summaryK |-> 0,
         feedback |-> "without_solution", control |-> "none",
         match |-> "block", regularization |-> "ema"]

\* Two successes and one failure, and the controls matched to them.
Mopd == [Sdpo EXCEPT !.another = TRUE, !.failure = "always",
                     !.feedback = "off"]
Controls == {[Mopd EXCEPT !.control = mode, !.match = match, !.dynamic = FALSE] :
               mode \in {"random_peer", "unrelated_prompt",
                         "success_only_matched"},
               match \in {"block", "token"}}

MCSettings ==
  Controls \cup
  {Sdpo, Mopd,
   [Sdpo EXCEPT !.miniBatch = 2, !.epochs = 2, !.feedback = "always",
                !.failure = "when_no_solution"],
   [Mopd EXCEPT !.control = "unrelated_prompt", !.miniBatch = 2,
                !.feedback = "without_solution",
                !.regularization = "trust-region"],
   [Sdpo EXCEPT !.summaries = "success", !.summaryK = 1, !.dynamic = FALSE,
                !.microBatch = 1],
   [Sdpo EXCEPT !.summaries = "all", !.summaryK = 2, !.primary = FALSE,
                !.prefixGrouper = TRUE, !.miniBatch = 2],
   [Sdpo EXCEPT !.summaries = "failure", !.summaryK = 2, !.balance = FALSE,
                !.skipSelf = FALSE],
   [Mopd EXCEPT !.control = "success_only_matched", !.skipSelf = FALSE,
                !.miniBatch = 2, !.dynamic = FALSE,
                !.regularization = "off"]}

Lengths == {<<100, 4000, 500, 500, 2500, 100, 900, 3000>>,
            <<3000, 3000, 3000, 3000, 3000, 3000, 3000, 3000>>,
            <<4000, 100, 4000, 100, 4000, 100, 500, 500>>,
            <<4000, 100, 100, 100, 100, 100, 100, 100>>,
            <<1400, 1300, 1200, 1100, 1000, 900, 800, 700>>}

Successful == {{}, {1}, {2, 5}, {1, 2, 7}, {1, 3, 4}, {5, 6, 7, 8},
               {1, 2, 5, 6, 7}, {1, 2, 3, 4, 5}, {2, 3, 6, 7, 8},
               {1, 2, 4, 5, 6, 7, 8}, 1..8}

MCInputs ==
  {[len |-> l, ok |-> s, feedback |-> Samples \ s] :
     l \in Lengths, s \in Successful} \cup
  {[len |-> l, ok |-> s, feedback |-> Samples] :
     l \in Lengths, s \in Successful}
=============================================================================
