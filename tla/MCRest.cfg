CONSTANTS
  c1 = c1
  FrHold = 1
  Clients = {c1}
  Commands = {"servo_enable", "servo_disable", "start_run", "stop_run", "fault_reset"}
  Modes = {"CSV"}
  VMax = 3
  SafeRpm = 1
  VStep = 1
  DStep = 2
  TStep = 1
  CStep = 1
  Demand <- Far
  TrqDemand <- NoTorque
  Timeout = 1
  ExitCycles = 1
  Disturbances = {"deadline", "trip"}
SPECIFICATION Spec
INVARIANTS SoftStopNotForgotten
PROPERTIES DisableCarriedOut StopComesToRest
