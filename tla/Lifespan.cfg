CONSTANTS
  r1 = r1
  r2 = r2
  Request <- Requests
  NumReplicas = 2
  MaxSize = 1
SPECIFICATION FairSpec
INVARIANTS
  UsersMeetOpenPools
  NoneClosedUnderItsUser
PROPERTIES
  StartsAndStops
  LostOnlyByBrokenReturn
CHECK_DEADLOCK FALSE
