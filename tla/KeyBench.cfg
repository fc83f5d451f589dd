SPECIFICATION Spec
CONSTANTS
  Calls = {"a"}
  Kinds = {"chat"}
  Keys = {"k1", "k2"}
  Cap = 2
  MinSamples = 2
  MaxWindow = 2
  MaxDays = 0
  SaveMayFail = FALSE
INVARIANT HungKeyIsBenched
CHECK_DEADLOCK FALSE
