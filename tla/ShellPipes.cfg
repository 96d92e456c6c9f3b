CONSTANTS
  NProcs = 3
  Lines <- MCLines
  MaxLines = 1
  OpenMax = 5
  Garbage <- MCGarbage
SPECIFICATION Spec
INVARIANT
  ReadFdPrevIsInput
