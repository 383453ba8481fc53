SPECIFICATION Spec
CONSTANTS
  NumEntries = 4
  MaxTops = 2
  MaxErrors = 1
  Windows = FALSE
INVARIANTS TypeOK KeepsListed DeletesOnlyWhenSafe DeletesSome
CHECK_DEADLOCK FALSE
