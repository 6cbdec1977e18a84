SPECIFICATION FairSpec
CHECK_DEADLOCK FALSE
CONSTANTS
  main = main
  other = other
  Worker = {w1}
  Client = {main}
  Job <- BigLibraryJobs
  Roots <- BigLibraryRoots
  Spawn <- BigLibrarySpawn
  SelfArg = {}
  Destroyer = {}
  StrayHarmless = TRUE
  Free = Free
  None = None
  InitialCap = 1
  MaxCap = 1
PROPERTY DispatchReturns
