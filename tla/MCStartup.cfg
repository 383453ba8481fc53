SPECIFICATION FairSpec
CONSTANTS
  Calls <- MCCalls
  Modules <- MCModules
  Challenges = {c1, c2}
INVARIANTS TypeOK GatesPassed AgreeOnOptions FiltersArrive NothingDropped
PROPERTIES HandshakeEnds Served
CHECK_DEADLOCK FALSE
