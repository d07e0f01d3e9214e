SPECIFICATION FairSpec
CONSTANTS
  s1 = s1
  s2 = s2
  c1 = c1
  c2 = c2
  None = None
  Sockets <- MCSockets
  Callers <- MCCallers
  MaxAttempts = 1
INVARIANTS
  ClosedStaysClosed
  NoLeakedSocket
  NewestSocketWins
PROPERTIES
  CallersAreAnswered
  HalfOpenIsNoticed
