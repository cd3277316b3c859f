SPECIFICATION FairSpec
CONSTANTS
  Trajectories = {t1, t2}
  Servers = {v1, v2}
  ResponseLength = 2
  ModelLength = 3
  MaxSyncs = 2
  MaxFailures = 1
INVARIANT Contiguous
INVARIANT SpanCovers
PROPERTY NeverStartedOver
PROPERTY SampleEnds
PROPERTY ImplementsTask
\* The sample ends.
CHECK_DEADLOCK FALSE
