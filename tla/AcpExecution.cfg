SPECIFICATION FairSpec
CONSTANTS
  MaxText = 2
  MaxItems = 3
  MaxPayload = 5
  Envelope = 1
  Says <- MCSays
  MaxSaid = 2
  MaxMishaps = 1
INVARIANTS
  PromptIsReleased
  AnsweredIsOver
  ResultIsEarned
  JournalIsComplete
PROPERTIES
  ExecutionEnds
CHECK_DEADLOCK FALSE
