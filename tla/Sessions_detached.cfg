SPECIFICATION SystemSpec
CONSTANTS
  NumBackends = 2
  c1 = c1
  c2 = c2
  Children <- OneChild
  Quorumless = FALSE
  FollowPrimaryCommand = FALSE
  FailoverOnBackendError = {TRUE}
  MaxRequests = 2
  MaxEvents = 0
PROPERTY DetachedStaysDetached
CHECK_DEADLOCK FALSE
