CONSTANTS
  Prompts = 2
  Rollouts = 4
  Ranks = 2
  Inputs <- MCInputs
  Settings <- MCSettings
SPECIFICATION StepSpec
INVARIANT Balanced
INVARIANT MicroBatchesFit
INVARIANT StepAnchored
INVARIANT PeersFit
INVARIANT MatchedBudget
INVARIANT MaskMatchesPrompt
