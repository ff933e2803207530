SPECIFICATION Spec
CONSTANTS
  a1 = a1
  p1 = p1
  p2 = p2
  none = none
  notask = notask
  Task <- MCOneTask
  Agent <- MCAgents
  NoAgent = none
  Proc <- MCProcs
  AgentOf <- MCAgentOf
  NoTask = notask
  MaxAttempts = 1
  MaxKills = 0
  MaxOps = 1
PROPERTIES
  CancelledIsNotCommitted
CHECK_DEADLOCK FALSE
