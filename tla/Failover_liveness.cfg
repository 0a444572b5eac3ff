SPECIFICATION FairSpec
CONSTANTS
  NumBackends = 2
  Children = {}
  Quorumless = TRUE
  FollowPrimaryCommand = TRUE
  FailoverOnBackendError = {TRUE}
  MaxRequests = 2
  MaxEvents = 1
INVARIANT MainNodeIsFirstValid
PROPERTY FailoverEnds
CHECK_DEADLOCK FALSE
