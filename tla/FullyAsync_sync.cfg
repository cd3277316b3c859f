SPECIFICATION FairSpec
CONSTANTS
  TotalSteps = 5
  RequiredSamples = 1
  TriggerSteps = 2
  MaxRequired = 2
  MaxConcurrent = 2
  PendingCap = 2
  TestFreq = 2
  Partial = TRUE
  MaxFailures = 1
INVARIANT SynchronousMode
PROPERTY SamplesSettle
PROPERTY TrainerFinishes
\* The Rollouter's fit() and the Trainer's fit() return at the end.
CHECK_DEADLOCK FALSE
