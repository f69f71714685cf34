CONSTANTS
  p1 = p1
  p2 = p2
  Panes = {p1, p2}
  MaxChanges = 2
  MaxFailures = 1
  BusCap = 1
  ChanCap = 1
SPECIFICATION FairSpec
INVARIANTS HeldIsTheClients ClosedStaysGone DriftIsOwed
CHECK_DEADLOCK FALSE
PROPERTIES Converges RevokedEnds
