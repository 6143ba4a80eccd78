SPECIFICATION FairSpec
CONSTANTS
  PingFrequency = 1
  UnstableThreshold = 3
  ReceiveTimeout = 30
  KeepAliveFrequency = 10
  Heartbeat = 10
  MaxDelay = 4
  MaxInFlight = 2
CHECK_DEADLOCK FALSE
INVARIANTS
  GivesUpOnlySilence
  KeepAliveInTime
PROPERTIES
  SilenceNoticed
