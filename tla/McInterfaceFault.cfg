SPECIFICATION Spec
CONSTANTS
  Storers = {blocking, packet}
  Faults = {overvoltage, drv}
  NoFault = none
  StopTime = 2
  TimeoutMotor = "off"
PROPERTIES FaultsStop
