SPECIFICATION AgentSpec
CONSTANTS
  a1 = a1
  a2 = a2
  Agents <- AgentsVal
  Requires <- RequiresVal
  Replies <- RepliesVal
  MaxSteps = 3
  TokenBudget = 1
  Costs = {0, 2}
  MaxCost = 2
  LoopThreshold = 3
INVARIANTS
  StopBound
  LoopBound
  BudgetBound
PROPERTIES
  EveryAgentEnds
CHECK_DEADLOCK FALSE
