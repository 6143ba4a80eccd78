SPECIFICATION TRFairSpec
CONSTANTS
  Base = 2
  MaxSent = 3
  Id <- MCId
  Vocabulary <- MCVocabulary
CHECK_DEADLOCK FALSE
INVARIANTS
  ReceivedAsSent
PROPERTIES
  LoopEnds
