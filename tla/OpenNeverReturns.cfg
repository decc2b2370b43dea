SPECIFICATION LockFairSpec
CONSTANTS
  NoOwner = NoOwner
  MAX_CONNS = 2
  Requests <- FewRequests
  FD_TABLE_SIZE = 2
  QUEUE_TABLE_SIZE = 2
  Garbage = {0, 1}
PROPERTY OpenAnswered
CHECK_DEADLOCK FALSE
