SPECIFICATION Spec
CONSTANTS
  kMaxClients = 1
  MaxConn = 2
  MaxDrops = 2
PROPERTY RunEnds
CHECK_DEADLOCK FALSE
