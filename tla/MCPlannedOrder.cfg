SPECIFICATION SwarmSpec
CONSTANTS
  Names <- NamesVal
  Ids <- IdsVal
  Prefixed <- PrefixedVal
  Fresh <- FreshVal
  MaxAgents = 2
  Width = 2
  MaxCrashes = 0
  RungInstalled = TRUE
INVARIANTS
  PlannedDependenciesHold
CHECK_DEADLOCK FALSE
