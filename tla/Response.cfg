SPECIFICATION Spec
CONSTANTS
  Accounts = {"ada", "bob"}
  Admin = "ada"
  Parts = {"tokens", "incidents", "locks"}
  Requests = {"r1", "r2"}
  MaxTokens = 3
  AccessTTL = 1
  RefreshTTL = 1
  MaxSeconds = 1
  Playbooks <- MCPlaybooks
  Alerts <- MCAlerts
  MaxIncidents = 2
  MaxFaults = 1
  Findings <- MCFindings
  MaxRestores = 2
  MaxOutages = 1
INVARIANTS
  SpentOnce
  OneAdmin
  HumanGate
  LocksAgree
PROPERTIES
  ApprovedEnds
CHECK_DEADLOCK FALSE
