SPECIFICATION Spec
CONSTANTS
  NULL = NULL
  Main = Main
  Threads = {Main, w1}
  Mutexes = {m1}
  RUN_QUEUES = 2
  MAINTENANCE_THRESHOLD = 1
  ClientCalls = {"create", "lock", "unlock"}
  Nesting = {}
  SlowTail = FALSE
INVARIANTS BlockedIsWaiting
