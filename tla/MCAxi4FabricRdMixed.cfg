SPECIFICATION HFairSpec
CONSTANTS
  NM = 3
  NS = 1
  ReadSlaves = {0}
  FixedRd = {0}
  Variant = 1
  FifoDepth = 1
  RouteDepth = 2
  SlaveDepth = 1
  Lens = {0}
  MaxOut = 2
PROPERTIES
  NotPassedTwice
