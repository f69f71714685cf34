CONSTANTS
  MaxConns = 3
  MaxQueued = 2
  MaxAttempts = 2
  PingTime = 3
  AttemptTime = 10
  Grace = 21
SPECIFICATION FairSpec
INVARIANTS OneTerminalHeld EndsForAReason
PROPERTIES KeepsWirePromise ReaderFollows EndedLetsGo
