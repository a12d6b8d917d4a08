SPECIFICATION FairSpec
CONSTANTS
  w1 = w1
  w2 = w2
  NoRequest = NoRequest
  Worker = {w1}
  Socket = {1, 2, 3}
  Depth = 1
  MaxCalls = 2
  MaxDrops = 0
  MaxRejections = 0
  MaxSessions = 0
  MaxSeq = 0
  MaxBroken = 0
PROPERTY StaysConnected
\* A client that was told to stop takes no more steps.
CHECK_DEADLOCK FALSE
