CONSTANTS
  c1 = c1
  FrHold = 1
  Clients = {c1}
  Commands = {"servo_enable", "servo_disable", "start_run", "set_mode"}
  Modes = {"CST"}
  VMax = 1
  SafeRpm = 1
  VStep = 1
  DStep = 1
  TStep = 1
  CStep = 1
  Demand <- Slowly
  TrqDemand <- NoTorque
  Timeout = 1
  ExitCycles = 1
  Disturbances = {"trip", "bus"}
SPECIFICATION Spec
PROPERTIES BrakeSpared NoSelfExcitation ModeKeptDuringRun
