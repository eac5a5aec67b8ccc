SPECIFICATION Spec
CONSTANTS
  kMaxClients = 1
  MaxConn = 2
  MaxDrops = 2
INVARIANTS MarkIsOwners NobodyLeft
PROPERTIES CloseOwn GraceUndisturbed OrphanRunEnds StopEnds
CHECK_DEADLOCK FALSE
