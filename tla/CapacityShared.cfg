SPECIFICATION FairSpec
CONSTANTS
  Processes = {"a", "b"}
  Limit = 1
  MaxLeases = 2
  MaxAttempts = 2
  CrashInLock = TRUE
INVARIANTS
  TypeOK
  WithinLimit
PROPERTIES
  ImplementsSemaphore
  CallEnds
  CrashedLockIsBroken
CHECK_DEADLOCK FALSE
