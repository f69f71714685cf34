CONSTANTS
  NoHandle = NoHandle
  Handles = {h1, h2}
  Requests = {q1, q2}
  DailyCap = 1
  MaxToken = 1
  LastDay = 1
  MaxUncounted = 1
SPECIFICATION Spec
INVARIANTS CapOvershoot
