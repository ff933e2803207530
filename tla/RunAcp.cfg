SPECIFICATION Spec
CONSTANTS
  a1 = a1
  p1 = p1
  p2 = p2
  none = none
  notask = notask
  Task <- MCOneTask
  Agent <- MCAgents
  NoAgent = none
  Proc <- MCProcs
  AgentOf <- MCAgentOf
  NoTask = notask
  MaxAttempts = 3
  MaxKills = 1
  MaxOps = 3
SYMMETRY MCSymmetry
INVARIANTS
  PromptIsBracketed
  RecordsAgree
PROPERTIES
  OutcomesAreFinal
  RunSettles
CHECK_DEADLOCK FALSE
