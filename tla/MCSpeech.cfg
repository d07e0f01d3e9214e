SPECIFICATION Spec
CONSTANTS
  Deltas <- MCDeltas
  MaxDeltas = 3
  Opening <- MCOpening
  Steady <- MCSteady
  MaxHeld = 5
  MaxBuffered = 5
  MaxPause = 1
  Emotions <- MCEmotions
  None = None
INVARIANTS SpokenIsTheText DirectionsPartText AudioIsAccountedFor
CHECK_DEADLOCK FALSE
