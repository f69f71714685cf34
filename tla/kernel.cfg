CONSTANTS
  p1 = p1
  p2 = p2
  Panes = {p1, p2}
  MaxChanges = 4
  MaxFaults = 2
  Strikes = 2
SPECIFICATION FairSpec
INVARIANTS CoveredOrAnnounced KnownOrPushed
PROPERTIES KernelConverges
