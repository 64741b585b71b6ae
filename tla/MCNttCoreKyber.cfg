SPECIFICATION Spec
CONSTANTS
  LOGN = 2
  Q = 5
  ROOT = 2
  DATA_WIDTH = 3
  Inputs <- SmallInputs
INVARIANTS
  OutputIsKyberNtt
