\* Every map of 3 x 3 cells.
CONSTANTS
  Rows = 3
  Cols = 3
  Obstacles <- AllMaps
  Requests <- MCRequests
SPECIFICATION FairSpec
INVARIANTS
  ShortestPath
  VisitedIsFinal
  ParentsVisited
PROPERTIES
  PoppedInOrder
  SearchEnds
