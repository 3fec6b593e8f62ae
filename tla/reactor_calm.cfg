SPECIFICATION FairSpec
CONSTANTS
  BUFFERS_COUNT = 3
  OutCap = 3
  LakeCap = 1
  Fds = {5, 6}
  Conns = {c1, c2}
  NoConn = NoConn
  MaxReq = 2
  Pipeline = 1
  Leaves = {}
  LossySend = FALSE
  UringSize = 10
  SqMargin = 4
  AcceptMulti = 1
  ReservedIds = 1
  ReservedFd = 65535
  CursedFd = 255
  ub_kernel_dma = FALSE
  MaxRestarts = 0
INVARIANTS
  NoSleepWithWork
  NoDeafClient
  NoPanic
  NothingLost
  ReleaseHasRoom
PROPERTIES
  ServiceKept
  EveryRequestAnswered
  AlwaysBackToLoop
