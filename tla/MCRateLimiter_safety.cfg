SPECIFICATION FairSpec
CONSTANTS
  reader = reader
  writer = writer
  Callers = {reader, writer}
  Burst = 3
  Sizes = {1, 3, 5}
  MaxIdle = 5
  MaxCalls = 3
  Cancels = TRUE
INVARIANTS TypeOK RateRespected
PROPERTIES WaitReturns
