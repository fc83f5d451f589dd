SPECIFICATION FairSpec
CONSTANTS
  MaxTasks = 2
  Engines <- MCEngines
  Overlap = FALSE
  AppendMayFail = FALSE
  CloseMayLag = TRUE
CHECK_DEADLOCK FALSE
INVARIANTS
  TypeOK
  LedgerFollows
  HonestPause
PROPERTIES
  OutcomeIsFinal
  ObeyedCancelEnds
