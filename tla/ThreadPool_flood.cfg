SPECIFICATION FairSpec
CHECK_DEADLOCK FALSE
CONSTANTS
  main = main
  other = other
  Worker = {w1, w2}
  Client = {main, other}
  Job <- FloodJobs
  Roots <- FloodRoots
  Spawn <- NoSpawn
  SelfArg = {}
  Destroyer = {main}
  StrayHarmless = TRUE
  Free = Free
  None = None
  InitialCap = 2
  MaxCap = 1
INVARIANTS TakeFindsWork WorkConserving RoomConserving
PROPERTY DispatchReturns
