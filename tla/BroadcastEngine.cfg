SPECIFICATION Spec
CONSTANTS
  Actors = 2
  Rollouts = 2
  BucketSize = 2
  SizeLists <- MCSizes
INVARIANT HalfExclusive
PROPERTY ImplementsStream
