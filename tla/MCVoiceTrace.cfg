SPECIFICATION Spec
CONSTANTS
  Utterances = {u1, u2}
  Turns = {t1, t2}
  MaxChunks = 2
  MaxMishaps = 1
  None = None
SYMMETRY Symmetry
INVARIANTS HeardIsRemembered CommittedIsRecorded OverIsSettled
CHECK_DEADLOCK FALSE
