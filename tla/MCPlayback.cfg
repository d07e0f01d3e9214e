SPECIFICATION FairSpec
CONSTANTS
  MaxItems = 4
  MaxEpoch = 1
  MaxQueueDepth = 2
  MaxFutureCancels = 1
INVARIANTS
  PlayerAgreement
  CancelledNeverActive
  PromisesAreTrue
PROPERTIES
  EverythingResolves
