CONSTANTS
  Alerts <- AlertSet
  Forced = {"approval"}
  Keys = {"fire", "soar"}
  KeyOf <- KeyMap
  NumChannels = 1
  MaxAttempts = 3
  BaseDelay = 1
  DedupeTime = 3
  MaxRestarts = 1

SPECIFICATION FairSpec

INVARIANTS
  EachItemInOnePlace
  PassIsComplete

PROPERTIES
  SuppressedIsCovered
  KeepsPromise
  EveryItemEnds

CHECK_DEADLOCK FALSE
