SPECIFICATION SystemSpec
CONSTANTS
  NumBackends = 2
  c1 = c1
  c2 = c2
  Children <- OneChild
  Quorumless = FALSE
  FollowPrimaryCommand = FALSE
  FailoverOnBackendError = {TRUE, FALSE}
  MaxRequests = 2
  MaxEvents = 1
 
INVARIANT ChildrenCanServe
INVARIANT StaleViewIsFlagged
 
CHECK_DEADLOCK FALSE
