\* The 10 of counting_semaphore<10> scaled with the 20 items to 3 of 6.
CONSTANTS
  NumThreads = 2
  NumRounds = 3
  SemMax = 3
SPECIFICATION Spec
INVARIANTS
  SemWithinMax
