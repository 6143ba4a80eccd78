SPECIFICATION FairSpec
CONSTANTS
  Sessions = {s1, s2}
  MaxCallbacks = 3
CHECK_DEADLOCK FALSE
INVARIANTS
  MapExclusive
  TableComplete
PROPERTIES
  SessionsKeepLifecycle
  LockAcquired
