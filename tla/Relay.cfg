CONSTANTS
  N = 4
  QMax = 3
  ForkMayFail = TRUE
SPECIFICATION FairSpec
INVARIANTS
  TypeOK
  OneBaton
  QueueDrained
PROPERTIES
  RaceFinishes
  ImplementsRace
\* Without one of its runners the judge waits for ever.
CHECK_DEADLOCK FALSE
