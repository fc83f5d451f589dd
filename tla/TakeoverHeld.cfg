SPECIFICATION Spec
CONSTANTS
  Native = {}
  Compat = {"c"}
  MaxChanges = 1
  MaxFailures = 0
INVARIANT
  DisposedIsNeutral
CHECK_DEADLOCK FALSE
