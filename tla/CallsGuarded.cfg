SPECIFICATION FairSpec
CONSTANTS
  Calls = {"a", "b"}
  Kinds = {"chat", "plan"}
  Keys = {"k"}
  Cap = 2
  MinSamples = 2
  MaxWindow = 3
  MaxDays = 1
  SaveMayFail = TRUE
INVARIANTS TypeOK CapHolds SettledOnce
PROPERTY BreakerRecovers
CHECK_DEADLOCK FALSE
