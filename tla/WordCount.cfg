CONSTANTS
  Inputs <- MCInputs
  Zero = 0
  BUFFER_SIZE = 3
  Cap = 2
SPECIFICATION FairSpec
INVARIANTS
  WrittenAsRead
  PrintedIsTrue
PROPERTY
  BothEnd
CHECK_DEADLOCK FALSE
