SPECIFICATION Spec
CONSTANTS
  TotalSteps = 4
  RequiredSamples = 1
  TriggerSteps = 1
  MaxRequired = 2
  MaxConcurrent = 2
  PendingCap = 2
  TestFreq = 2
  Partial = TRUE
  MaxFailures = 1
INVARIANT SampleAccounting
INVARIANT NoGenerationInTransfer
\* The Rollouter's fit() and the Trainer's fit() return at the end.
CHECK_DEADLOCK FALSE
