SPECIFICATION FairSpec
CONSTANTS
  MaxW = 2
  MaxH = 2
  DisplayW = 2
  DisplayH = 2
  Colours = {black, red}
  Black = black
  NoColour = none
  MaxRedraws = 3
CHECK_DEADLOCK FALSE
INVARIANTS
  RectExact
  CanvasShowsCapture
PROPERTIES
  Converges
