SPECIFICATION Spec
CONSTANTS
  NumEntries = 3
  MaxTops = 1
  MaxErrors = 1
  Windows = FALSE
INVARIANTS DeletesAll
CHECK_DEADLOCK FALSE
