SPECIFICATION Spec
CONSTANTS
  MaxTasks = 1
  Engines <- MCOverlapping
  Overlap = TRUE
  AppendMayFail = TRUE
  CloseMayLag = FALSE
CHECK_DEADLOCK FALSE
INVARIANT
  RecordedOutcomeIsTrue
