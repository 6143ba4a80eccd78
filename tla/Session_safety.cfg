SPECIFICATION Spec
CONSTANTS
  Capacity = 2
  SocketCap = 1
  MaxBlobs = 2
  MaxFrames = 2
  Native = FALSE
CHECK_DEADLOCK FALSE
INVARIANTS
  IInv
  TeardownAfterWorkers
  NoOrphanBackend
  StreamDiscipline
  ConversationOrder
  ControlFindsRoom
PROPERTIES
  ImplementsLifecycle
