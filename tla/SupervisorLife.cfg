SPECIFICATION FairSpec
CONSTANTS
  MaxLaunches = 2
  Projects = {"p"}
  Sessions = {}
  Reads = {}
  MaxQueue = 1
  BootPhases = {"booting", "loading_interface"}
  Majors = {"v4"}
  MemoryProfiles = {"full"}
  UserShed = FALSE
  SpawnMayThrow = FALSE
  MalformedLimit = 0
  StartupTimeout = 0
  IdleTimeout = 0
  ActiveTimeout = 0
  StableTime = 1
  AgeLimit = 1
  MaxAttempts = 1
INVARIANTS
  OneEngine
  PhaseIsHonest
  RestartIsArmedWhenAnnounced
  CondemnedHasKill
  ResourceDeathsShed
  RestartBudget
PROPERTIES
  StaleExitIsInert
  LifecycleSpec
  StartupEnds
CHECK_DEADLOCK FALSE
