SPECIFICATION FairSpec
CONSTANTS
  Nodes = {n1, n2, n3}
  n1 = n1
  n2 = n2
  n3 = n3
  RequireConsensus = TRUE
  AllowMultiple = FALSE
  HalfVotes = FALSE
  Period = 1
  RetryTime = 0
  ConnectTime = 1
  FinishTimeout = 3
  Primary = TRUE
  QueueSize = 1
  MaxFaults = 2
  None = None
  FirstLeader = n1
INVARIANT TypeOK
INVARIANT FailoverNeedsMajority
 
PROPERTY AgreedFailureIsPerformed
PROPERTY NodesAgree
