CONSTANTS
  a1 = a1
  a2 = a2
  k1 = k1
  NoKey = NoKey
  NoAttach = NoAttach
  Attaches = {a1, a2}
  Keys = {k1}
  KeyOf <- MCKeyOf
  Messages = {"render", "closed"}
  ChanCap = 1
  Workers = 3
SPECIFICATION FairSpec
PROPERTY SupersededEnds
