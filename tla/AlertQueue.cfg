CONSTANTS
  a1 = a1
  a2 = a2
  w1 = w1
  w2 = w2
  NoAlert = NoAlert
  Alerts <- AlertSet
  Workers <- TwoWorkers
  MaxAttempts = 2
  MaxFaults = 1

SPECIFICATION FairSpec

INVARIANTS
  NoSilentLoss
  OvertakenOnlyAfterFailure
  SurplusCopiesExplained

PROPERTIES
  EveryRowIsSettled
  ImplementsDelivery
