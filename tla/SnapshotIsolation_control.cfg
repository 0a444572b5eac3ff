SPECIFICATION FairSpec
CONSTANTS
  c1 = c1
  c2 = c2
  c3 = c3
  Children <- ThreeChildren
  NumNodes = 2
  ReusePrepared = {TRUE, FALSE}
  MaxTransactions <- OneTwice
  MaxLosses = 1
INVARIANT TypeOK
INVARIANT SnapshotsExcludeCommits
INVARIANT ConsistentSnapshots
INVARIANT WaitersWillBeWoken
PROPERTY WaitsEnd
CHECK_DEADLOCK FALSE
