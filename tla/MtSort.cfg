SPECIFICATION FairSpec
CONSTANT N = 4
INVARIANTS
  Inv
  QuitSorted
  AfterIsSorted
  MutexesAlive
  NothingLost
  NoDeadlock
PROPERTIES
  ImplementsSort
  ExchangesEnd
  QuitEnds
