CONSTANTS
  View = "gui"
  NHumans = 0
  NAIs = 1
  NRabbits = 1
  Rows = 5
  Cols = 6
  SmallRows = 5
  SmallCols = 6
  MaxLen = 13
  Starts <- MCStarts
  Sz0 <- MCSz0
  Windows <- MCWindows
SPECIFICATION FairSpec
PROPERTY AiKeepsEating
