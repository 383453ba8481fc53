SPECIFICATION Spec
CONSTANTS
  a = a
  b = b
  NoFile = NoFile
  NumFiles = 2
  Block <- MCBlock
  Cap = 2
  DryRuns = {FALSE}
  WholeFile = FALSE
  PreserveTimes = TRUE
  Check = "checksum"
  ServerSender = FALSE
  DiskFaults = FALSE
  SrcInits <- EmptySrcInits
  DstInits <- MCDstInits
  NewContents <- MCNewContents
  ChangeKinds = {}
  MaxChanges = 1
  MaxSessions = 1
  MayReset = FALSE
  MayCrash = FALSE
INVARIANTS SenderSurvives
CHECK_DEADLOCK FALSE
