SPECIFICATION FairSpec
CONSTANTS
  Objs = {o1}
  Threads = {t1, t2}
  AperPages = 2
  Sizes = {1, 2}
  PinMod = 3
  EarlyClose = TRUE
  None = None
  NoThread = NoThread
  Invalid = Invalid
  Empty = Empty
INVARIANTS
  RefsAccounted
  NothingLeaks
  LockDiscipline
  OwnerWorks
PROPERTIES
  OwnerAdvances
  MutexReleased
  ReleasedIsFreed
