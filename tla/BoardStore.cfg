SPECIFICATION FairSpec
CONSTANTS
  c1 = c1
  c2 = c2
  Conn <- MCConn
  Attempt <- MCAttempt
  Call <- MCCall
  QueryMax = 2
  MaxJobs = 3
  MaxClock = 1
  MaxKills = 1
INVARIANTS
  WritersKeepApart
  FollowIsComplete
PROPERTIES
  MigrationKeepsRows
  EveryJobEnds
CHECK_DEADLOCK FALSE
