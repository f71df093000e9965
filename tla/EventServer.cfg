\* A connection more than the server takes, three frames.
CONSTANTS
  Fds <- MCFds
  MAXCLIENTS = 2
  MaxConns = 3
  MaxFrames = 3
SPECIFICATION FairSpec
CHECK_DEADLOCK FALSE
INVARIANTS
  MemoryBounded
  WholeFrames
PROPERTIES
  GoneClientsLeave
