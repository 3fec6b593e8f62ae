SPECIFICATION Spec
SYMMETRY Symmetry
CONSTANTS
  BUFFERS_COUNT = 2
  OutCap = 3
  LakeCap = 2
  Fds = {5, 6}
  Conns = {c1, c2}
  NoConn = NoConn
  MaxReq = 1
  Pipeline = 1
  Leaves = {"fin", "rst", "timeout"}
  LossySend = TRUE
  UringSize = 10
  SqMargin = 4
  AcceptMulti = 1
  ReservedIds = 1
  ReservedFd = 65535
  CursedFd = 255
  ub_kernel_dma = FALSE
  MaxRestarts = 1
INVARIANTS
  BufferOwnedOnce
  TablesAgree
  ClientsAreSeparate
  NoBlankResponse
