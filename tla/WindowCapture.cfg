SPECIFICATION WCFairSpec
CONSTANTS
  Windows = {w1, w2}
  StartupPolls = 3
  GdiLimit = 5
  MaxChanges = 4
CHECK_DEADLOCK FALSE
PROPERTIES
  LeaksOnlyDisturbed
  CapturedAtLast
