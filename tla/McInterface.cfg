SPECIFICATION Spec
CONSTANTS
  Storers = {blocking, packet}
  Faults = {overvoltage, drv}
  NoFault = none
  StopTime = 1
  TimeoutMotor = "off"
INVARIANTS TypeOK StillWhileStoring OnlyALateOrder
PROPERTIES  LockEnds
