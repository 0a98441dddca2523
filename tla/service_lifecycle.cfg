SPECIFICATION FairSpec
CONSTANTS
  C1 = C1  C2 = C2  C3 = C3  C4 = C4
  Conns = {C1, C2, C3}
  MaxConns = 2  MaxJobs = 2  MaxActive = 1  MaxQueued = 1
INVARIANTS Accounting NoLostWakeup QueueNeverFull
PROPERTIES NothingStartsAfterStop CheckpointAlone EveryJobReturns Stops
