CONSTANTS
  NProcs = 4
  Lines <- MCLines
  MaxLines = 2
  OpenMax = 5
  Garbage <- MCGarbage
SPECIFICATION FairSpec
INVARIANTS
  TypeOK
  PromptAfterChildren
  DescriptorsKept
PROPERTY
  AllEnd
