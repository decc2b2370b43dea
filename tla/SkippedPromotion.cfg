SPECIFICATION Spec
CONSTANTS
  NULL = NULL
  Main = Main
  Threads = {Main, w1, w2}
  Mutexes = {m1}
  RUN_QUEUES = 2
  MAINTENANCE_THRESHOLD = 1
  ClientCalls = {"create"}
  Nesting = {}
  SlowTail = FALSE
SYMMETRY Symmetry
INVARIANTS MaintenanceComplete
