CONSTANTS
  c1 = c1
  FrHold = 1
  Clients = {c1}
  Commands = {"servo_enable", "start_run", "quick_stop", "disconnect", "connect"}
  Modes = {"CSV"}
  VMax = 2
  SafeRpm = 1
  VStep = 1
  DStep = 1
  TStep = 1
  CStep = 1
  Demand <- OneWay
  TrqDemand <- NoTorque
  Timeout = 1
  ExitCycles = 1
  Disturbances = {"deadline"}
SPECIFICATION Spec
INVARIANTS ExitLeavesUnpowered
PROPERTIES FasterOnlyInRun DisconnectEnds
