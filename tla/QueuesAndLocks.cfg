SPECIFICATION HSpec
CONSTANTS
  NULL = NULL
  Main = Main
  Threads = {Main, w1, w2}
  Mutexes = {m1}
  RUN_QUEUES = 2
  MAINTENANCE_THRESHOLD = 1
  ClientCalls = {"create", "exit", "lock", "unlock"}
  Nesting = {}
  SlowTail = FALSE
SYMMETRY Symmetry
CONSTRAINT Intact
INVARIANTS
  QueueIntegrity
  Accounted
  NoLostWakeup
  FreedStackUnused
PROPERTIES
  ImplementsMLFQ
  ExitedForGood
