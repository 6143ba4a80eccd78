CONSTANTS
  Bits = {1}
  Indices <- MCIndices
  Masks <- MCMasks
  Positions <- MCPositions
  Streams = {0, 1}
  CursorSizes = {1}
  Lengths <- MCLengths
SPECIFICATION Spec
CHECK_DEADLOCK FALSE
INVARIANTS
  TreeConsistent
  AckedMeansShown
  FlattenPaintersOrder
  AcksStopAtLstroke
PROPERTIES
  ImplementsImmediate
  EveryFrameSettles
