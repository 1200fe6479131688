\* Three workers, four tasks, two spurious wake-ups: safety, refinement and
\* termination.
CONSTANTS
  NumWorkers = 3
  NumTasks = 4
  MaxSpurious = 2
SPECIFICATION FairSpec
INVARIANTS
  TypeOK
  FifoExactlyOnce
  WorkConserving
  NoSleepAfterStop
  DrainedOnReturn
PROPERTIES
  ImplementsPool
  DestructorReturns
