SPECIFICATION SandboxSpec
CONSTANTS
  Rungs = {"process", "docker"}
  Tools = {"search"}
  PipeCap = 1
  ErrCap = 1
  RunTokens = 1
  Repeats = 2
  MaxCalls = 4
INVARIANTS
  UnkilledWasLeftAlone
  EveryLineIsLogged
  OverspendIsBounded
PROPERTIES
  EveryRunReturns
CHECK_DEADLOCK FALSE
