SPECIFICATION FairSpec
CONSTANTS
  Capacity = 4
  SocketCap = 1
  MaxBlobs = 1
  MaxFrames = 1
  Native = FALSE
CHECK_DEADLOCK FALSE
PROPERTIES
  ReadErrorShutsDown
