SPECIFICATION Spec
CONSTANTS
  Ids = {1, 2, 3}
  RowsOf <- MCRowsOf
  MaxEdits = 1
INVARIANTS
  DoctorSpeaksForRun
  StartedRunIsRoutable
CHECK_DEADLOCK FALSE
