SPECIFICATION Spec
CONSTANTS
  PipeCap = 1
  ChannelCap = 1
  MaxLines = 1
  MaxAttempts = 2
  MaxRounds = 1
  MaxThreads = 2
  MaxMishaps = 1
INVARIANTS
  ResumedLeadDecides
CHECK_DEADLOCK FALSE
