\* Three rows of three columns, sums of two products, a pool of two workers.
\* The benchmark calls every function twice.
CONSTANTS
  NumRows = 3
  NumTasks = 3
  Common = 2
  NumCols = 3
  Width = 2
  NumIters = 2
  NumWorkers = 2
SPECIFICATION FairSpec
INVARIANTS
  AdditionsInOrder
  ResultComplete
PROPERTIES
  ProgramEnds
