SPECIFICATION FairSpec
CONSTANTS
  t1 = t1
  t2 = t2
  Turns <- MCTurns
  Chunks <- MCChunks
  MaxAttempts = 2
  MaxMishaps = 2
INVARIANTS
  DeliveredWasAccepted
  UnknownHasJob
PROPERTIES
  OutcomesAreFinal
  AmbiguityIsResolved
