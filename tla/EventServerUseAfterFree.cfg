\* A client is removed while Send is at it.
CONSTANTS
  Fds <- MCFds
  MAXCLIENTS = 2
  MaxConns = 3
  MaxFrames = 2
SPECIFICATION ServerSpec
CHECK_DEADLOCK FALSE
INVARIANT
  NoUseAfterFree
