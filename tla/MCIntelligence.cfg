SPECIFICATION Spec
CONSTANTS
  m1 = m1
  c1 = c1
  c2 = c2
  u1 = u1
  v1 = v1
  v2 = v2
  t1 = t1
  t2 = t2
  r1 = r1
  r2 = r2
  None = None
  Messages <- MCMessages
  Commands <- MCCommands
  Persons <- MCPersons
  Author <- MCAuthor
  Values <- MCValues
  Texts <- MCTexts
  FlagSets <- MCFlagSets
  Runs <- MCRuns
SYMMETRY Names
INVARIANTS
  ObligationsVerify
  OneValuePerPerson
  NothingNewFromForgotten
