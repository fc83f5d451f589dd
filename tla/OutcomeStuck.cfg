SPECIFICATION FairSpec
CONSTANTS
  Tasks = {"t", "u"}
  After <- MCFree
  MaxAttempts = 2
  MaxParallel = 1
  MaxSpawns = 2
  MaxWakeups = 2
  NoProgressLimit = 2
  Updates = {}
  MaxUpdates = 0
  MaxBreaks = 1
PROPERTY OnlyLimitsStopTheLoop
CHECK_DEADLOCK FALSE
