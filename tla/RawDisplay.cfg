\* A file of five events, one without any and two unfinished ones, steps of one
\* or two; samples of 12 bits, the code of the experiment.
CONSTANTS
  fLong = fLong
  fEmpty = fEmpty
  fShort = fShort
  fCut = fCut
  Files <- MCFiles
  Disk <- MCDisk
  NoFile = NoFile
  NoEvent = NoEvent
  CutEvent = CutEvent
  Chance = {3}
  MaxRequest = 5
  MaxSkip = 2
  NBits = 12
  Setups <- MCSetups
  NoData = NoData
SPECIFICATION DisplaySpec
CHECK_DEADLOCK FALSE
INVARIANTS
  NullOnlyOnEmptyFile
  
  RoundTrip
  FlagFirst
  ChannelsAtTheirStrips
PROPERTIES
  PlaybackEnds
