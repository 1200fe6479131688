\* Two logs, of which only one finds room in the table, and two chats.
\* Ctrl-C is pressed once at most, at any process and any point.
CONSTANTS
  ann = ann
  bob = bob
  Logs = {ann, bob}
  Chats = {c1, c2}
  Discovery = discovery
  NumSlots = 1
  Worlds <- OnePress
SPECIFICATION FairSpec
INVARIANTS
  TypeOK
PROPERTIES
  ImplementsMessenger
  SentIsPrinted
  ChatsEnd
CHECK_DEADLOCK FALSE
