CONSTANTS
  Requests <- RequestSet
  Users = {"ann"}
  Devices = {"10.0.0.9"}
  Addresses = {"10.0.0.9"}
  UserOf <- OneUser
  DeviceOf <- DeviceMap
  Role <- RoleMap
  Network <- WorstNetwork
  Location <- WorstLocation
  MismatchStep = 1000
  FindingSteps = {}
  RateWindow = 2
  MaxAttempts = 2
  DedupWindow = 1
  BusWindow = 2
  BusCapacity = 2
  MaxPassed = 2
  MaxClock = 3

SPECIFICATION FairSpec

INVARIANTS
  RiskNeverDenies
  RateLimitHolds
  NoRepeatedChallenge
  SessionsAreChallenged

PROPERTIES
  DecisionsAreEnforced

CHECK_DEADLOCK FALSE
