SPECIFICATION Spec
CONSTANTS
  ByteMod = 4
  SumMod = 16
  MinBlock = 2
  Chunk = 1
  Align = 2
  ReadMin = 12
  Sources <- MCSources
  Bases <- MCBases
INVARIANTS TypeOK WindowFaithful RollingExact EveryReadFits IdenticalSendsNoLiterals
PROPERTIES StreamSpec
CHECK_DEADLOCK FALSE
