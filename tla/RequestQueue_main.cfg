SPECIFICATION FairSpec
CONSTANTS
  child = child
  health = health
  down = down
  up = up
  Main = main
  Requesters <- MCRequesters
  Requests = {down}
  QueueSize = 2
  MaxRequests = 4
  PcpChildExits = TRUE
INVARIANTS
  TypeOK
  SlotsIntact
  
  NoLostWakeup
PROPERTIES
  
  EventuallyHandled
CHECK_DEADLOCK FALSE
