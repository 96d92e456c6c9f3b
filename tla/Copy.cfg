CONSTANTS
  Commands <- MCCommands
  Names <- MCNames
  Dirs <- MCDirs
  Entry <- MCEntry
  Content <- MCContent
  Foreign = "foreign"
  Cut = "cut"
  EnvMax = 2
SPECIFICATION FairSpec
INVARIANTS
  TypeOK
  ZeroMeansCopied
PROPERTIES
  AskedFirst
  Ends
