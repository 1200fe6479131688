\* A message of six bytes through a connection that holds four.
CONSTANTS
  len = 6
  Capacity = 4
  Sockets <- EverySocket
SPECIFICATION FairSpec
INVARIANTS
  TypeOK
  WholeMessage
  SentIsReceived
PROPERTIES
  ReceiverReturns
CHECK_DEADLOCK FALSE
