CONSTANTS
  Requests <- RequestSet
  Users = {"ann"}
  Devices = {"10.0.0.9"}
  Addresses = {"10.0.0.9"}
  UserOf <- OneUser
  DeviceOf <- DeviceMap
  Role <- RoleMap
  Network <- WorstNetwork
  Location <- WorstLocation
  MismatchStep = 100
  FindingSteps = {121, 150}
  RateWindow = 60
  MaxAttempts = 10
  DedupWindow = 5
  BusWindow = 60
  BusCapacity = 1000
  MaxPassed = 1
  MaxClock = 2

SPECIFICATION Spec

PROPERTIES
  SuspicionRaisesRisk

CHECK_DEADLOCK FALSE
