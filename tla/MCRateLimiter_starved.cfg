SPECIFICATION FairSpec
CONSTANTS
  reader = reader
  writer = writer
  Callers = {reader, writer}
  Burst = 3
  Sizes = {1, 5}
  MaxIdle = 5
  MaxCalls = 2
  Cancels = FALSE
PROPERTIES EveryWaitReturns
