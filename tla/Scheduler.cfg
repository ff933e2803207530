SPECIFICATION FairSpec
CONSTANTS
  w1 = w1
  w2 = w2
  u1 = u1
  none = none
  Task <- MCTwoTasks
  Agent <- MCAgents
  NoAgent = none
  Orders <- MCOrders
  Drivers <- MCDrivers
  MaxConcurrency <- MCOneEach
  MaxRetries = 1
  MaxFaults = 1
  MaxCrashes = 1
  MaxResumes = 1
INVARIANTS
  PermitsConserved
  DrivingIsBracketed
  SuccessIsGrounded
  AttemptsFollowOrder
PROPERTIES
  ReturnedCallIsSettled
  LedgerSpec
  EveryTaskEnds
