SPECIFICATION MetaSpec
CONSTANTS
  Codes <- MCCodes
  Tree <- MCTree
  Jobs <- MCOneJob
  SenderNames <- MCSenderNames
  LocalIds <- MCLocalIds
  IntMax = 7
  Separator = 92
  Worlds <- MCWorlds
  Me = 7
  Now = 99
  MaxFaults = 0
INVARIANTS LandsUnderOwnName
CHECK_DEADLOCK FALSE
