SPECIFICATION Spec
CONSTANTS
  Entities = {"alice", "laptop"}
  MinSignals = 3
  MaxSignals = 50
  Users = {"alice"}
  BlockLimit = 1
  Devices = {"laptop"}
  FingerprintConfidence = 300
  MaxAnomalies = 2
  Insiders = {"alice"}
  Profiled = {"alice"}
  MaxHours = 1
  MinEvents = 5
  Learned = 3
  BaselineEvents = 2
  Persons = {"alice"}
  Tracked = {"alice", "laptop"}
  Arrivals <- MCArrivals
  MaxArrivals = 3
  MaxMinutes = 1
  MaxIdleHours = 1
  MaxWaiting = 0
  CascadeLimit = 9
INVARIANTS
  AlertsAreCorroborated
  QuarantineHolds
  SilentDetectors
  CooldownMeansAlert
  CascadesEnd
PROPERTIES
  DeniedByFailuresAlone
  ArbiterFreezesRisk
CHECK_DEADLOCK FALSE
