SPECIFICATION FairMisdatedSpec
CONSTANTS
  a = a
  b = b
  NoFile = NoFile
  NumFiles = 2
  Block <- MCBlock
  Cap = 1
  DryRuns = {TRUE, FALSE}
  WholeFile = FALSE
  PreserveTimes = TRUE
  Check = "checksum"
  ServerSender = TRUE
  DiskFaults = FALSE
  SrcInits <- MCSrcInits
  DstInits <- OneDstInit
  NewContents <- MCNewContents
  ChangeKinds = {"write", "replace", "unlink"}
  MaxChanges = 1
  MaxSessions = 2
  MayReset = TRUE
  MayCrash = TRUE
INVARIANTS SuccessMeansSynced
PROPERTIES DryRunTouchesNothing Terminates Succeeds
CHECK_DEADLOCK FALSE
