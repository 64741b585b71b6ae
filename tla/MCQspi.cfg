CONSTANTS
  Drivers = {"micron", "issi", "cypress", "dma"}
  MaxCalls <- MCMaxCalls
SPECIFICATION Spec
INVARIANTS
  CommandsStart
  SuccessIsReal
  FailureHasCause
PROPERTIES
  CallsReturn
CHECK_DEADLOCK FALSE
