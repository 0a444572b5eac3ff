CONSTANTS
  Nodes <- MCNodes
  None = None
  Priority <- MCPriority
  Startup <- MCStartup
  HalfVotes = FALSE
  MaxCuts = 1
  Backlog = 1
SPECIFICATION FairSpec
INVARIANT TypeOK
INVARIANT StandbyHasLeader
INVARIANT ListsAreCurrent
INVARIANT EscalatedHasQuorum
INVARIANT OneEscalated
INVARIANT StandbysAreListed
PROPERTY PacketsSettle
