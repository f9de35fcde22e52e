SPECIFICATION Spec
CONSTANTS
  Scenes <- MCScenes
  MaxTracks = 2
  Wait <- MCWait
  CrowdSize = 3
  GroupSize = 2
  TrafficStep = 2
  MaxClock = 7
  Cameras = {"gate", "webcam_0"}
  Webcam = "webcam_0"
  Workers = {1, 2}
  Detected = {1, 2}
  RetryMax = 2
  BufferMax = 1
  Requests = 2
INVARIANTS
  NeverReported
  RunningIsRegistered
PROPERTIES
  SwallowedForGood
  EveryDetectionSettles
CHECK_DEADLOCK FALSE
