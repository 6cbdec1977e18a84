SPECIFICATION PoolFairSpec
CHECK_DEADLOCK FALSE
CONSTANTS
  main = main
  Worker = {w1, w2}
  Client = {main}
  Job <- SmallJobs
  Roots <- LibraryRoots
  Spawn <- SmallSpawn
  SelfArg = {"self"}
  Destroyer = {main}
  StrayHarmless = TRUE
  Free = Free
  None = None
  InitialCap = 4
  MaxCap = 5
INVARIANTS TypeOK JobsAccounted DestroyedWhenDrained ListAnswers
PROPERTIES RunsWhatWasDispatched EveryJobRuns DestroyWithBacklogFinishes
