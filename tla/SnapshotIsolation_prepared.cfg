SPECIFICATION Spec
CONSTANTS
  c1 = c1
  c2 = c2
  c3 = c3
  Children <- ThreeChildren
  NumNodes = 2
  ReusePrepared = {TRUE}
  MaxTransactions <- OneTwice
  MaxLosses = 0
INVARIANT VisibilityConsistency
CHECK_DEADLOCK FALSE
