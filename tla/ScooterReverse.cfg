SPECIFICATION AppSpec
CONSTANTS
  QUEUE_SZ = 4
  Backlog = 0
  Options <- WithReverse
  Speeds <- TwoSpeeds
  RampDelta = 1
  GuardSpeed = 1
  LowBattery = 1
  SafeCount = 0
  FailCount = 0
  CounterRange = 2
  SettingsSpace <- WithSafety
  Dots = 0
PROPERTY FiveClicksReverse
