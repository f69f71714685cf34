CONSTANTS
  Relays = {r1}
  Messages = {"render", "exit", "other", "closed"}
  ChanCap = 2
  Workers = 3
SPECIFICATION FairSpec

PROPERTY NoPathLeaksAThread
