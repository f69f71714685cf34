CONSTANTS
  NoHandle = NoHandle
  NoRequest = NoRequest
  Handles = {h1, h2}
  Requests = {q1, q2}
  DailyCap = 1
  MaxToken = 1
  LastDay = 0
  MaxUncounted = 0
  Names = {n1}
  MaxUpsets = 1
SPECIFICATION FairNotifierSpec
PROPERTIES DropsOnlyTheGone Recovers
