SPECIFICATION Spec
CONSTANTS
  Capacity = 2
  MaxLines = 2
  MaxTurns = 2
  AskIds <- MCAskIds
  Snapshots <- MCSnapshots
  Candidates <- MCCandidates
  MaxTasks = 2
  MaxSelected = 2
  MaxAnswer = 1
  MaxEvents = 2
  MaxRounds = 2
INVARIANTS
  LeadReadsItsOwnTurn
  NothingIsSwallowed
  BindingTellsTheOutcome
  NothingOutlivesClose
PROPERTIES
  OnlyABacklogHangs
CHECK_DEADLOCK FALSE
