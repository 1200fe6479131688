\* Two threads of three iterations (and two consumers in semaphore.cpp).
CONSTANTS
  NumThreads = 2
  NumRounds = 3
  SemMax = 6
SPECIFICATION FairSpec
INVARIANTS
  NothingLost
  CounterAtEnd
  ItemForEveryPermit
PROPERTIES
  ProgramEnds
