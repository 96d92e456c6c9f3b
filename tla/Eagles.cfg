CONSTANTS
  NEagles = 4
  N = 3
  NIters = 4
  ForkMayFail = TRUE
SPECIFICATION FairSpec
INVARIANTS
  TypeOK
  OneAtBowl
  BowlOfferedFull
  StuckOnlyWithoutMother
PROPERTIES
  EveryEagleFed
  ImplementsNest
\* Without a mother the eagles stop at the first empty bowl.
CHECK_DEADLOCK FALSE
