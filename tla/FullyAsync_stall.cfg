SPECIFICATION PromptSpec
CONSTANTS
  TotalSteps = 16
  RequiredSamples = 4
  TriggerSteps = 1
  MaxRequired = 6
  MaxConcurrent = 4
  PendingCap = 17
  TestFreq = 2
  Partial = FALSE
  MaxFailures = 0
INVARIANT NeverStalled
\* The search ends with the third version of the weights.
CONSTRAINT TwoVersions
\* The Rollouter's fit() and the Trainer's fit() return at the end.
CHECK_DEADLOCK FALSE
