SPECIFICATION FairSplit
CHECK_DEADLOCK FALSE
CONSTANTS
  worker = worker
  handler = handler
  Caller <- Callers
  TextOf <- Texts
  NUL = NUL
  NoCopy = NoCopy
  MaxArgs = 1
INVARIANT SplitsAlways
