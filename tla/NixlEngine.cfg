SPECIFICATION Spec
CONSTANTS
  World = 4
  BucketSize = 3
  SizeLists <- MCSizes
INVARIANT HalfExclusive
INVARIANT CleanExit
PROPERTY ImplementsStream
