\* Ctrl-C at a log that is blocked in recv.
CONSTANTS
  ann = ann
  bob = bob
  Logs = {ann}
  Chats = {c1}
  Discovery = discovery
  NumSlots = 1
  Worlds <- OnePress
SPECIFICATION Spec
INVARIANTS
  CtrlCDeregisters
CHECK_DEADLOCK FALSE
