SPECIFICATION FairViewSpec
CONSTANTS
  w1 = w1
  none = none
  Task <- MCTasks
  Agent <- MCAgents
  NoAgent = none
  Orders <- MCOrders
  Drivers <- MCAgents
  MaxConcurrency <- MCOneEach
  MaxRetries = 1
  MaxFaults = 1
  MaxCrashes = 2
  MaxResumes = 0
  Root = 1
  LeadAgent = w1
  MaxRounds = 3
  MaxTasks = 2
  MaxTrouble = 1
INVARIANTS
  RootIsGrounded
  FailureIsSettled
  LeadSeesSettledWork
  BudgetRespected
  ReportFollowsBoard
  ShownIsGrounded
PROPERTIES
  CompletedWorkIsKept
  RunTerminates
