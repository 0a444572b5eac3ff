SPECIFICATION Spec
CONSTANTS
  NumBackends = 2
  Children = {}
  Quorumless = FALSE
  FollowPrimaryCommand = FALSE
  FailoverOnBackendError = {TRUE}
  MaxRequests = 3
  MaxEvents = 0
INVARIANT PrimaryRestartsAll
CHECK_DEADLOCK FALSE
