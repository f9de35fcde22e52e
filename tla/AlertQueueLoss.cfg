CONSTANTS
  a1 = a1
  a2 = a2
  w1 = w1
  w2 = w2
  NoAlert = NoAlert
  Alerts <- AlertSet
  Workers <- OneWorker
  MaxAttempts = 5
  MaxFaults = 0

SPECIFICATION Spec

INVARIANTS
  ZeroAlertLoss
