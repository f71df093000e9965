\* The decoder of OnlineDisplay.cfg, on one connection and without such data: frames that come in one chunk.
CONSTANTS
  NEvents = 6
  Size <- MCSize
  Run <- MCRun
  MaxInFlight = 8
  MaxReconnects = 0
  FalseKeys = {}
SPECIFICATION Spec
CHECK_DEADLOCK FALSE
PROPERTY
  WholeFrameStored
