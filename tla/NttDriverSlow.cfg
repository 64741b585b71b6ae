SPECIFICATION FairSpec
CONSTANTS
  N = 2
  MaxPolls = 3
  LogSize = 2
  Handshakes = {FALSE}
  Prompt = FALSE
  MaxCalls = 3
CHECK_DEADLOCK FALSE
INVARIANTS
  OwnTransform
