SPECIFICATION Spec
CONSTANTS
  QUEUE_SZ = 2
  Backlog = 1
  Options <- JumpAlone
INVARIANT DeadMan
