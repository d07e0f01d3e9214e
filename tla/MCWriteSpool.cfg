CONSTANTS
  Keys = {k1, k2}
  MaxRecords = 3
  MaxFailures = 1
  MaxCrashes = 2
  MaxHalts = 1
SPECIFICATION FairSpec
INVARIANTS
  AckedIsKept
PROPERTIES
  LooksLikeAQueue
  SpoolIsEmptied
