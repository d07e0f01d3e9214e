SPECIFICATION Spec
CONSTANTS
  j1 = j1
  a = a
  k1 = k1
  n1 = n1
  n2 = n2
  u1 = u1
  d1 = d1
  d2 = d2
  h1 = h1
  h2 = h2
  x1 = x1
  x2 = x2
  g1 = g1
  p1 = p1
  None = None
  Absent = Absent
  Joins <- MCJoins
  Channels <- MCChannels
  Conns <- MCConns
  Sessions <- MCSessions
  Users <- MCUsers
  Members <- MCUsers
  Decoders <- MCDecoders
  Handles <- MCHandles
  Ssrcs <- MCSsrcs
  Generations <- MCGenerations
  Speeches <- MCSpeeches
  MaxFrames = 2
  MaxSources = 8
  MaxSpeeches = 2
SYMMETRY Names
INVARIANTS
  UtteranceIsOneStretch
  StreamIsOneVoice
  NobodyWaitsForClosedBridge
