SPECIFICATION SettingsSpec
CONSTANTS
  QUEUE_SZ = 4
  Backlog = 0
  Options <- AnyReverse
  Speeds <- TwoSpeeds
  RampDelta = 2
  GuardSpeed = 1
  LowBattery = 1
  SafeCount = 0
  FailCount = 0
  CounterRange = 2
  SettingsSpace <- AnySafety
  Dots = 0
INVARIANTS MotorFollowsTrigger OneInAdjustSpeed
PROPERTY ReleaseStopsMotor
