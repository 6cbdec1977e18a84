SPECIFICATION FairTogether
CHECK_DEADLOCK FALSE
CONSTANTS
  Form <- Forms
  BUFSIZ = 2
  worker = worker
  handler = handler
  Caller <- Callers
  TextOf <- Texts
  NUL = NUL
  NoCopy = NoCopy
  MaxArgs = 1
INVARIANTS SignatureVerifies ParamsKept BodyHashes SplitsAtSeparators
PROPERTY SplitReturns
