SPECIFICATION HSpec
CONSTANTS
  LOGN = 3
  Q = 17
  ROOT = 2
  DATA_WIDTH = 5
  Inputs <- LargeInputs
  NSources = 2
  NTargets = 2
  MaxPriority = 3
  Priorities <- MCPriorities
  Enables <- MCEnables
  Thresholds = {1}
INVARIANTS
  TypesOK
  OutputIsTransform
  OneServer
  PendingIsNew
PROPERTIES
  ResultComes
  NoneIsLost
  ChosenIsTaken
