\* The event loop of DataPath.cfg: what the tasks added is in what is written.
CONSTANTS
  fRaw = fRaw
  fRoot = fRoot
  Inputs <- MCInputs
  BinInputs <- MCBin
  Entries <- MCEntries
  Starts <- MCStarts
  MaxOpens = 2
SPECIFICATION Spec
CHECK_DEADLOCK FALSE
INVARIANT
  ProductsKept
