CONSTANTS
  N = 2
  song <- MCSong
  Nul = "nul"
  Poison = "0"
  ForkMayFail = FALSE
SPECIFICATION Spec
INVARIANT
  NoSharedLetter
