SPECIFICATION ServerFairSpec
CONSTANTS
  Capacity = 2
  SocketCap = 1
  MaxBlobs = 1
  MaxFrames = 1
  Native = FALSE
CHECK_DEADLOCK FALSE
PROPERTIES
  ClientLossEndsSession
  ShutdownCompletes
  BackendLossReported
  FrameReachesClient
