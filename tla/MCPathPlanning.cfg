\* Two workers and three plans on a 2 x 2 map, labels far from wrapping.
CONSTANTS
  NumWorkers = 2
  NumTasks = 3
  Rows = 2
  Cols = 2
  LabelModulus = 5
  Scenes <- MCScenes
SPECIFICATION FairSpec
INVARIANTS
  PlanningTypeOK
  PermitForEveryPath
  EveryPathDrawnOnce
  NoUseAfterDestroy
  FoundIffReachable
  PrintedMap
PROPERTIES
  PlanningEnds
