SPECIFICATION FairSpec
CHECK_DEADLOCK FALSE
CONSTANTS
  main = main
  other = other
  Worker = {w1}
  Client = {main, other}
  Job <- FewJobs
  Roots <- FewRoots
  Spawn <- NoSpawn
  SelfArg = {}
  Destroyer = {}
  StrayHarmless = FALSE
  Free = Free
  None = None
  InitialCap = 1
  MaxCap = 1
PROPERTY EveryJobRuns
