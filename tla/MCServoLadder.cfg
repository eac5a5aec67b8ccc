CONSTANTS
  FrHold = 3
  MaxTrips = 2
  Targets = {"Idle", "Shutdown", "SwitchOn", "EnableOperation", "DisableOperation", "DisableVoltage", "QuickStop"}
SPECIFICATION Spec
PROPERTIES ResetClears NoRungSkipped FaultLeadsToDisabled EnableReached
