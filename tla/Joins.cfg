SPECIFICATION FairSpec
CONSTANTS
  NULL = NULL
  Main = Main
  Threads = {Main, w1}
  Mutexes = {m1}
  RUN_QUEUES = 3
  MAINTENANCE_THRESHOLD = 1
  ClientCalls = {"create", "yield", "exit", "join"}
  Nesting = {}
  SlowTail = FALSE
INVARIANTS
  JoinValue
PROPERTIES
  JoinReturns
  Scheduled
