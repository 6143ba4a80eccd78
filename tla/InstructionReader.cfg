SPECIFICATION FairSpec
CONSTANTS
  Base = 2
  MaxSent = 2
  BufferSize = 3
  Vocabulary <- MCVocabulary
CHECK_DEADLOCK FALSE
INVARIANTS
  NoResidue
PROPERTIES
  ImplementsChannel
  AllReceived
