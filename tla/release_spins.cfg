SPECIFICATION FairSpec
CONSTANTS
  BUFFERS_COUNT = 2
  OutCap = 3
  LakeCap = 3
  Fds = {5, 6}
  Conns = {c1, c2}
  NoConn = NoConn
  MaxReq = 1
  Pipeline = 1
  Leaves = {}
  LossySend = FALSE
  UringSize = 3
  SqMargin = 1
  AcceptMulti = 1
  ReservedIds = 1
  ReservedFd = 65535
  CursedFd = 255
  ub_kernel_dma = TRUE
  MaxRestarts = 0
PROPERTY ReleaseFinishes
