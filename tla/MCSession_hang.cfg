SPECIFICATION FairSpec
CONSTANTS
  a = a
  b = b
  NoFile = NoFile
  NumFiles = 2
  Block <- MCBlock
  Cap = 2
  DryRuns = {FALSE}
  WholeFile = FALSE
  PreserveTimes = TRUE
  Check = "times"
  ServerSender = FALSE
  DiskFaults = FALSE
  SrcInits <- MCSrcInits
  DstInits <- MCDstInits
  NewContents <- MCNewContents
  ChangeKinds = {"unlink"}
  MaxChanges = 1
  MaxSessions = 1
  MayReset = FALSE
  MayCrash = FALSE
PROPERTIES Terminates
CHECK_DEADLOCK FALSE
