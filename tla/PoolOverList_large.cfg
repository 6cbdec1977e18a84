SPECIFICATION PoolSpec
CHECK_DEADLOCK FALSE
CONSTANTS
  main = main
  Worker = {w1, w2}
  Client = {main}
  Job <- LargeJobs
  Roots <- LibraryRoots
  Spawn <- LargeSpawn
  SelfArg = {"self"}
  Destroyer = {}
  StrayHarmless = TRUE
  Free = Free
  None = None
  InitialCap = 2
  MaxCap = 4
PROPERTY RunsWhatWasDispatched
