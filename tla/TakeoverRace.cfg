SPECIFICATION Spec
CONSTANTS
  Native = {"n"}
  Compat = {"c"}
  MaxChanges = 2
  MaxFailures = 1
INVARIANTS
  TypeOK
  DeliveredUnderConsent
  DiscardHasCause
  HeldIsRecorded
CHECK_DEADLOCK FALSE
