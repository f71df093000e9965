\* A file that its writer has just opened is opened for reading.
CONSTANTS
  fWrapped = fWrapped
  f1 = f1
  f2 = f2
  Files <- MCFiles
  Disk <- MCDisk
  Old <- MCOld
  NoFile = NoFile
  NoEvent = NoEvent
  CutEvent = CutEvent
  Chance = {}
  MaxRequest = 2
  FootMod = 3
  MaxEvents = 3
SPECIFICATION RawSpec
SYMMETRY MCSymmetry
CHECK_DEADLOCK FALSE
INVARIANT EventOfFile
