\* Six events, one reconnection, and data that look like a frame; two
\* servers, three bufferevents, every choice of disturbances.
CONSTANTS
  NEvents = 6
  Size <- MCSize
  Run <- MCRun
  MaxInFlight = 8
  MaxReconnects = 1
  FalseKeys <- MCSaturated
  Ports = {1, 2}
  MaxBevs = 3
SPECIFICATION DisplaySpec
CHECK_DEADLOCK FALSE
INVARIANTS
  TypeOK
  StoredHasSize
  StoredIsWhole
  ClientTypes
  OneConnection
  NoCrash
  RefusedMeansConnected
PROPERTIES
  FeedSpec
  Reconnects
  StopReturns
