SPECIFICATION Spec
CONSTANTS
  Conns = {c1, c2}
  ReadOnly = {c2}
  Spaces = {s1, s2, s3}
  Initial = {s1, s2}
  Group = {s1, s3}
  Primary = s1
  Calls = {q1, q2}
  None = None
SYMMETRY CallSymmetry
INVARIANTS EmptyIsTold ViewIsCurrent GivenUpNotToggled NobodyStuck
PROPERTY OnlyOwnMoves
CHECK_DEADLOCK FALSE
