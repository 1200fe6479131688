\* Two logs and one chat, in four worlds: Linux with two signals; Linux with
\* one signal or crash and a discovery server that is started again after it;
\* sockets that do not block, two logs of one name, and one signal, with a
\* port of 0, or with a discovery server that is started again.
CONSTANTS
  ann = ann
  bob = bob
  Logs = {ann, bob}
  Chats = {c1}
  Discovery = discovery
  NumSlots = 2
  Worlds <- SignalWorlds
SPECIFICATION FairSpec
INVARIANTS
  TableFollowsUsers
  ListedIsListening
  ServersStayUp
  CtrlCDeregistersPortably
PROPERTIES
  ImplementsMessenger
  CtrlCStopsLog
CHECK_DEADLOCK FALSE
