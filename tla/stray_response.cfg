SPECIFICATION Spec
SYMMETRY Symmetry
CONSTANTS
  BUFFERS_COUNT = 3
  OutCap = 3
  LakeCap = 1
  Fds = {5}
  Conns = {c1, c2}
  NoConn = NoConn
  MaxReq = 1
  Pipeline = 1
  Leaves = {"fin"}
  LossySend = FALSE
  UringSize = 10
  SqMargin = 4
  AcceptMulti = 1
  ReservedIds = 1
  ReservedFd = 65535
  CursedFd = 255
  ub_kernel_dma = FALSE
  MaxRestarts = 0
INVARIANT OwnResponsesOnly
