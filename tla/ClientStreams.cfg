CONSTANTS
  MaxOpen = 2
  Budget = 5
  Capacity = 2
  Handled = {"argv", "pipe", "audio", "filesystem"}
SPECIFICATION Spec
CHECK_DEADLOCK FALSE
INVARIANTS
  PoolPartition
  WritesReachTheirStream
  BlobsReachTheirStream
