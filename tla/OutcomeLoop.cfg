SPECIFICATION FairSpec
CONSTANTS
  Tasks = {"t", "u"}
  After <- MCAfter
  MaxAttempts = 2
  MaxParallel = 2
  MaxSpawns = 2
  MaxWakeups = 2
  NoProgressLimit = 2
  Updates <- MCUpdates
  MaxUpdates = 1
  MaxBreaks = 1
INVARIANTS TypeOK NoResultForgotten VerifiedIsFresh 
PROPERTY ContinuationIsTaken
CHECK_DEADLOCK FALSE
