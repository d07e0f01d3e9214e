SPECIFICATION MentionFairSpec
CONSTANTS
  hall = hall
  None = None
  Requests <- MCRequests
  Rooms <- MCRooms
  RoomOf <- MCRoomOf
  MaxPending = 2
  MaxConcurrent = 1
  RequestsPerMinute = 1
  Window = 2
  Cooldowns <- MCCooldowns
  RetryDelays <- MCRetryDelays
  AbortBetween = TRUE
INVARIANTS
  BudgetKept
  CountersAreTrue
  
PROPERTIES
  EveryMentionIsAnswered
  EveryoneIsServedInTurn
