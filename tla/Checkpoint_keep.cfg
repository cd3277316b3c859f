SPECIFICATION Spec
CONSTANTS
  UseCritic = TRUE
  ActorKeep = 2
  CriticKeep = 3
  Keep <- KeepOf
  Ranks = 2
  SaveFreq = 2
  MaxVersion = 9
  MaxCrashes = 2
INVARIANT TrackedComplete
INVARIANT NoRollback
INVARIANT Recoverable
INVARIANT RetentionKept
\* The job ends at MaxVersion, or stays down.
CHECK_DEADLOCK FALSE
