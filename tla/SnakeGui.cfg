CONSTANTS
  View = "gui"
  NHumans = 1
  NAIs = 1
  NRabbits = 1
  Rows = 5
  Cols = 6
  SmallRows = 5
  SmallCols = 6
  MaxLen = 3
  Starts <- MCStarts
  Sz0 <- MCSz0
  Windows <- MCWindows
SPECIFICATION Spec
INVARIANTS
  TypeOK
  RabbitsKept
  SettledBetweenFrames
  DrawnAsLaid
PROPERTIES
  DeadIsFinal
  AiStepsClear
CONSTRAINT Short
