SPECIFICATION FairSpec
CONSTANTS
  NoOwner = NoOwner
  MAX_CONNS = 3
  Requests <- MCRequests
  FD_TABLE_SIZE = 2
  QUEUE_TABLE_SIZE = 2
  Garbage = {0, 1}
INVARIANTS
  TypeOK
  Inv
  ModesExclude
  QueueHolderRuns
  MonitorNeverStarts
  WritesReachOpenedFile
PROPERTIES LockFreeAnswered
CHECK_DEADLOCK FALSE
