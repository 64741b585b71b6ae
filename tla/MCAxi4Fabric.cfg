SPECIFICATION FSpec
CONSTANTS
  NM = 2
  NS = 2
  ReadSlaves = {0, 1}
  FixedRd = {}
  Variant = 1
  FifoDepth = 1
  RouteDepth = 2
  WdDepth = 2
  SlaveDepth = 1
  Lens = {0, 1}
  WrLens = {1}
  MaxOut = 2
INVARIANTS
  TypeOK
  RoutesMeet
  WrRoutesMeet
  DataFollowsAddress
PROPERTIES
  TurnComes
  InOrderReads
  InOrderWrites
