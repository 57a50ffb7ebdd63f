SPECIFICATION Spec
CONSTANTS
  QUEUE_SZ = 2
  Backlog = 1
  Options <- SafeOptions
INVARIANTS TypeOK PhaseAgreement DeadMan
PROPERTIES ReleaseStops ImplementsGesture
