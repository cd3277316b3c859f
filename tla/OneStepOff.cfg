SPECIFICATION Spec
CONSTANTS
  BatchesPerEpoch = 3
  Epochs = 2
  SaveFreq = 2
  TestFreq = 2
  Warmup = 2
  MaxCrashes = 2
INVARIANT OneStepOffPolicy
INVARIANT DataInOrder
INVARIANT NeverRunsDry
PROPERTY Ends
