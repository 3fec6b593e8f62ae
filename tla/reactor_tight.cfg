SPECIFICATION Spec
SYMMETRY Symmetry
CONSTANTS
  BUFFERS_COUNT = 1
  OutCap = 2
  LakeCap = 2
  Fds = {5, 6, 7}
  Conns = {c1, c2}
  NoConn = NoConn
  MaxReq = 2
  Pipeline = 2
  Leaves = {}
  LossySend = FALSE
  UringSize = 2
  SqMargin = 1
  AcceptMulti = 1
  ReservedIds = 1
  ReservedFd = 65535
  CursedFd = 255
  ub_kernel_dma = TRUE
  MaxRestarts = 1
INVARIANTS
  TypeOK
  NoBlankResponse
PROPERTY BufferProtocol
