SPECIFICATION Spec
CONSTANTS
  TotalSteps = 5
  RequiredSamples = 1
  TriggerSteps = 1
  MaxRequired = 2
  MaxConcurrent = 2
  PendingCap = 2
  TestFreq = 2
  Partial = FALSE
  MaxFailures = 0
INVARIANT VersionChain
INVARIANT OutstandingBound
INVARIANT Freshness
INVARIANT CleanEnd
INVARIANT NeverStalled
\* The Rollouter's fit() and the Trainer's fit() return at the end.
CHECK_DEADLOCK FALSE
