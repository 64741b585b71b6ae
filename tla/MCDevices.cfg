SPECIFICATION DSpec
CONSTANTS
  N = 3
  MaxPolls = 3
  LogSize = 2
  Handshakes = {TRUE, FALSE}
  Prompt = FALSE
  MaxCalls = 4
  Ratio = 4
  Bursts <- MCBursts
  MaxErrors = 1
CHECK_DEADLOCK FALSE
INVARIANTS
  TypesOK
  WaitedIsOwn
  TakenMeansOwn
  StatsAgree
PROPERTIES
  EveryCallReturns
  BeatsAreRead
  WordsAreWritten
  ErrorsReach
  BurstsAnswered
