SPECIFICATION FairSpec
CONSTANTS
  child = child
  health = health
  down = down
  up = up
  Main = main
  Requesters <- MCRequesters
  Requests = {down}
  QueueSize = 1
  MaxRequests = 2
  PcpChildExits = FALSE
PROPERTIES
  PcpWaitEnds
CHECK_DEADLOCK FALSE
