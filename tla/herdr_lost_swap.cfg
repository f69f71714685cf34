CONSTANTS
  MaxConns = 2
  MaxQueued = 1
  MaxAttempts = 2
  PingTime = 0
  AttemptTime = 10
  Grace = 21
SPECIFICATION Spec
INVARIANTS SwapNeverEndsStream
