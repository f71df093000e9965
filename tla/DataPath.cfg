\* Two inputs one after the other, read or processed, in any order; seconds of
\* two ticks, three of them and a tick.
CONSTANTS
  fRaw = fRaw
  fRoot = fRoot
  Inputs <- MCInputs
  BinInputs <- MCBin
  Entries <- MCEntries
  Starts <- MCStarts
  MaxOpens = 2
  Files <- MCFiles
  Order <- MCOrder
  Second = 2
  PollTime = 2
  MaxNow = 6
  MaxVersions <- MCMaxVersions
  Items <- MCItems
  Holds <- MCHolds
SPECIFICATION PathSpec
CHECK_DEADLOCK FALSE
INVARIANTS
  OutputFollows
  AllSelected
  NothingMissed
  ReadsBounded
  ShowsTheLatest
