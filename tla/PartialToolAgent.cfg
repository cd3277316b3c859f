SPECIFICATION FairSpec
CONSTANTS
  ResponseLength = 5
  ModelLength = 6
  MaxAssistantTurns = 3
  MaxUserTurns = 0
  Interaction = TRUE
  MaxObserved = 2
  MaxSyncs = 2
INVARIANT Aligned
PROPERTY TrajectoryEnds
PROPERTY ImplementsLoop
\* The trajectory ends.
CHECK_DEADLOCK FALSE
