SPECIFICATION Spec
CONSTANTS
  QUEUE_SZ = 2
  Speeds <- ThreeSpeeds
  RampDelta = 3
  GuardSpeed = 2
  LowBattery = 2
  SafeCount = 1
  FailCount = 1
  CounterRange = 3
  SettingsSpace <- LowMigrate
PROPERTY AbortedOnEvidence
