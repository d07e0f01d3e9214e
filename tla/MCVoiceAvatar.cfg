SPECIFICATION AvatarFairSpec
CONSTANTS
  j1 = j1
  j2 = j2
  a = a
  b = b
  k1 = k1
  k2 = k2
  n1 = n1
  n2 = n2
  None = None
  Nobody = Nobody
  Joins <- MCJoins
  Channels <- MCChannels
  Rooms <- MCChannels
  Conns <- MCConns
  Sessions <- MCSessions
  MaxSession = 2
  MaxBehaviors = 1
  MaxLosses = 1
INVARIANTS
  CurrentIsConnected
PROPERTIES
  RelaySeesEveryUpdateInOrder
  RelayCatchesUp
CHECK_DEADLOCK FALSE
