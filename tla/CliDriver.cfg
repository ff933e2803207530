SPECIFICATION FairSpec
CONSTANTS
  PipeCap = 1
  ChannelCap = 1
  MaxLines = 2
  MaxAttempts = 2
  MaxRounds = 1
  MaxMishaps = 1
  MaxThreads = 2
INVARIANTS
  ResultIsTheLastMessage
  FailureLeavesNoGroup
  SessionIsBoundFirst
  BindingFollowsTheAttempt
PROPERTIES
  OnlyTheseHang
CHECK_DEADLOCK FALSE
