SPECIFICATION SwarmSpec
CONSTANTS
  Names <- NamesVal
  Ids <- IdsVal
  Prefixed <- PrefixedVal
  Fresh <- FreshVal
  MaxAgents = 3
  Width = 2
  MaxCrashes = 2
  RungInstalled = TRUE
INVARIANTS
  InputsAreReady
  PlanIsRunOrRefused
PROPERTIES
  EveryIntentEnds
CHECK_DEADLOCK FALSE
