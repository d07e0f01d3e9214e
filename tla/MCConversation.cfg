SPECIFICATION FairSpec
CONSTANTS
  MaxUtterances = 3
  MaxSessions = 2
  MaxChunks = 2
  Environments <- MCEnvironments
INVARIANTS
  PhaseTellsOwner
  StaleIsSilent
PROPERTIES
  CallsSettle
  GuildRecoversWithoutFaults
\* Everybody may stop talking.
CHECK_DEADLOCK FALSE
