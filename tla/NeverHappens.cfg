SPECIFICATION Spec
CONSTANTS
  MAX_THREAD = 20
  MAX_FRAMES = 8
INVARIANT NeverReturns
CHECK_DEADLOCK FALSE
