\* Files of up to three events, a footer that can count two, requests up to
\* the largest event a footer can promise and one more.
CONSTANTS
  fWrapped = fWrapped
  f1 = f1
  f2 = f2
  Files <- MCFiles
  Disk <- MCDisk
  Old <- MCOld
  NoFile = NoFile
  NoEvent = NoEvent
  CutEvent = CutEvent
  Chance = {2}
  MaxRequest = 2
  FootMod = 3
  MaxEvents = 3
SPECIFICATION RawSpec
SYMMETRY MCSymmetry
CHECK_DEADLOCK FALSE
INVARIANTS
  TypeOK
  RightEvent
  BookmarksExact
  ReadAsWritten
  AllEventsOffered
