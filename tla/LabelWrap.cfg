\* As many plans as it takes to reach the label that wraps: the modulus of
\* 255 is scaled to 3, so that the second plan plays the part of the 254th.
CONSTANTS
  NumWorkers = 1
  NumTasks = 2
  Rows = 2
  Cols = 2
  LabelModulus = 3
  Scenes <- MCScenes
SPECIFICATION FairSpec
INVARIANTS
  PathsMarked
