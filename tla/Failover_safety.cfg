SPECIFICATION Spec
CONSTANTS
  NumBackends = 3
  Children = {}
  Quorumless = FALSE
  FollowPrimaryCommand = FALSE
  FailoverOnBackendError = {TRUE}
  MaxRequests = 3
  MaxEvents = 1
INVARIANT TypeOK
INVARIANT MainNodeIsFirstValid
 
INVARIANT StatusFileFaithful
 
CHECK_DEADLOCK FALSE
