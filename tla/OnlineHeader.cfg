\* The decoder of OnlineDisplay.cfg, on one connection and without such data: the header on display.
CONSTANTS
  NEvents = 6
  Size <- MCSize
  Run <- MCRun
  MaxInFlight = 8
  MaxReconnects = 0
  FalseKeys = {}
SPECIFICATION Spec
CHECK_DEADLOCK FALSE
INVARIANT
  HeaderMatchesData
