SPECIFICATION Spec
CONSTANTS
  a = a
  b = b
  NoFile = NoFile
  NumFiles = 2
  Block <- MCBlock
  Cap = 2
  DryRuns = {FALSE}
  WholeFile = FALSE
  PreserveTimes = TRUE
  Check = "times"
  ServerSender = FALSE
  DiskFaults = TRUE
  SrcInits <- MCSrcInits
  DstInits <- MCDstInits
  NewContents <- MCNewContents
  ChangeKinds = {"write", "replace", "unlink"}
  MaxChanges = 1
  MaxSessions = 2
  MayReset = TRUE
  MayCrash = TRUE
INVARIANTS TypeOK QuickCheckSound SuccessMeansSynced SuccessMeansStamped
PROPERTIES MirrorSpec QuietAfterSuccess
CHECK_DEADLOCK FALSE
