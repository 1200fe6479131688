\* hardware_concurrency() returned 0: the pool has no worker at all.
CONSTANTS
  NumWorkers = 0
  NumTasks = 1
  MaxSpurious = 0
SPECIFICATION FairSpec
INVARIANTS
  DrainedOnReturn
