CONSTANTS
  Cap = 4
  NBlocks = 5
  NFiles = 2
  IoMayFail = TRUE
  SpuriousWakeUps = TRUE
SPECIFICATION FairSpec
INVARIANTS
  TypeOK
  NotTwice
PROPERTIES
  WokenGetsMutex
  OutputEnds
\* The threads may sleep for ever, both of them too.
CHECK_DEADLOCK FALSE
