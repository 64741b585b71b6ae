CONSTANTS
  Drivers = {"micron", "issi", "cypress"}
  MaxCalls <- MCMaxCalls
SPECIFICATION Spec
INVARIANTS
  ProgramIsWhole
CHECK_DEADLOCK FALSE
