CONSTANTS
  EthLen = 1
  IpLen = 2
  TcpLen = 1
  Jump = 4
  HeaderLens = {0, 2}
  TotalLens = {0, 3}
  ProtoAt = 2
  Gap = 1
  Sizes = {2, 4}
  Sources = {"server", "client"}
  NoAddr = NoAddr
  MaxPkts = 2
  MaxBlocks = 2
  IfLists <- IfListsDef
SPECIFICATION Spec
INVARIANT
  AllPacketsSeen
