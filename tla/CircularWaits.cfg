SPECIFICATION HSpec
CONSTANTS
  NULL = NULL
  Main = Main
  Threads = {Main, w1, w2}
  Mutexes = {m1, m2}
  RUN_QUEUES = 2
  MAINTENANCE_THRESHOLD = 2
  ClientCalls = {"create", "exit", "lock"}
  Nesting <- AnyOrder
  SlowTail = FALSE
SYMMETRY Symmetry
CONSTRAINT Intact
INVARIANTS
  AllFinishedIsTrue
  SomebodyIsReady
