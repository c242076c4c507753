SPECIFICATION TurnSpec
CONSTANTS
  Agents <- AgentsVal
  Requires = {}
  Replies <- RepliesVal
  MaxSteps = 1
  TokenBudget = 0
  Costs = {0}
  MaxCost = 0
  LoopThreshold = 3
  MaxAgents = 3
  MaxParallel = 2
INVARIANTS
  DependenciesFirst
  EverySpawnIsClosed
  TranscriptIsTrue
PROPERTIES
  EveryTurnEnds
  ImplementsContract
CHECK_DEADLOCK FALSE
