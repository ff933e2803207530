SPECIFICATION Spec
CONSTANTS
  w1 = w1
  w2 = w2
  u1 = u1
  none = none
  Task <- MCTwoTasks
  Agent <- MCAgents
  NoAgent = none
  Orders <- MCOrders
  Drivers <- MCDrivers
  MaxConcurrency <- MCOneEach
  MaxRetries = 2
  MaxFaults = 0
  MaxCrashes = 1
  MaxResumes = 0
INVARIANTS
  CrashIsRecoverable
