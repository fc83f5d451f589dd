SPECIFICATION FairSpec
CONSTANTS
  Agents = {"a", "b"}
  Isolated = {"a"}
  Transports = {"thread", "process"}
  MaxCrashes = 1
INVARIANTS TypeOK BoardTellsOutcome CheckpointCovers EditsKept
PROPERTY SlotReturned
CHECK_DEADLOCK FALSE
