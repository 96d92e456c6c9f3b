CONSTANTS
  View = "text"
  NHumans = 2
  NAIs = 0
  NRabbits = 1
  Rows = 6
  Cols = 4
  SmallRows = 4
  SmallCols = 4
  MaxLen = 2
  Starts <- MCStarts
  Sz0 <- MCSz0
  Windows <- MCWindows
SPECIFICATION Spec
INVARIANTS
  OverrunNeedsShrink
PROPERTIES
  PauseBitStopsTheFrame
CONSTRAINT Short
