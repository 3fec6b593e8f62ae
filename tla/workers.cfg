SPECIFICATION Spec
CONSTANTS
  NumCpus = 3
  U8 = 256
  Cores = 2
  AcceptMulti = 1
  Fds = {3, 4, 5, 6, 7}
  CursedFd = 5
  Conns = {c1, c2}
  MaxRestarts = 1
INVARIANTS
  TypeOK
  DescriptorsApart
  OnlyRestartsLeak
  GroupIsListening
PROPERTIES
  WorkersComeBack
  BacklogIsServed
