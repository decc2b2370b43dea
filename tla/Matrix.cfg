SPECIFICATION Spec
CONSTANTS
  MAX_THREAD = 20
  MAX_FRAMES = 8
INVARIANTS
  TypeOK
  JoinWaits
CHECK_DEADLOCK FALSE
