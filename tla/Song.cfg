CONSTANTS
  N = 3
  song <- MCSong
  Nul = "nul"
  Poison = "0"
  ForkMayFail = TRUE
SPECIFICATION FairSpec
INVARIANTS
  TypeOK
  OneChooser
  ParentSurvives
PROPERTY
  SongStops
