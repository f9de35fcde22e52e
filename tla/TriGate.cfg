CONSTANTS
  Events <- EventSet
  Profile <- ProfileMap
  Entities = {"host"}
  Keys = {"k1", "k2"}
  Places = {"home", "away"}
  Devices = {"laptop", "phone"}
  None = "none"
  MetaScores = {7}
  DupWindow = 1
  BurstWindow = 2
  MaxBurst = 2
  SessionWindow = 1
  MaxClock = 2

SPECIFICATION FairSpec

INVARIANTS
  BurstLimitUnreached
  OneAnswerPerEvent
  RepeatOffendersEscalated

PROPERTIES
  SlowBurnIsCaught
  LivesAsDescribed
  ConfirmedThreatsAreAnswered

CHECK_DEADLOCK FALSE
