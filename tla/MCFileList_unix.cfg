SPECIFICATION MetaSpec
CONSTANTS
  Codes <- MCCodes
  Tree <- MCTree
  Jobs <- MCJobs
  SenderNames <- MCSenderNames
  LocalIds <- MCLocalIds
  IntMax = 7
  Separator = 47
  Worlds <- MCWorlds
  Me = 7
  Now = 99
  MaxFaults = 1
INVARIANTS TypeOK NeverMisread LandsUnderOwnName ListFaithful FilterMeaning MissingMeansFlagged MetaTypeOK RequestsCanLand AsListed DryRunKeeps
CHECK_DEADLOCK FALSE
