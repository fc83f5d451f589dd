SPECIFICATION Spec
CONSTANTS
  MaxLaunches = 2
  Projects = {"p", "q"}
  Sessions = {"s"}
  Reads = {"ping"}
  MaxQueue = 1
  BootPhases = {}
  Majors = {"v2"}
  MemoryProfiles = {"full"}
  UserShed = TRUE
  SpawnMayThrow = TRUE
  MalformedLimit = 1
  StartupTimeout = 0
  IdleTimeout = 0
  ActiveTimeout = 0
  StableTime = 0
  AgeLimit = 0
  MaxAttempts = 1
INVARIANTS
  TypeOK
  ProjectIsolation
CHECK_DEADLOCK FALSE
