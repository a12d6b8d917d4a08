SPECIFICATION FairSpec
CONSTANTS
  w1 = w1
  w2 = w2
  NoRequest = NoRequest
  Worker = {w1, w2}
  \* With one socket, a call that would open a second beside a closing one is
  \* left out: MCClusterClientRetry.cfg has those calls.
  Socket = {1}
  Depth = 2
  MaxCalls = 2
  MaxDrops = 1
  MaxRejections = 1
  MaxSessions = 2
  MaxSeq = 2
  MaxBroken = 1
INVARIANTS RequestsHeld RunsFindTheirSession
PROPERTIES StaysConnected BatchesAnswered
\* A client that was told to stop takes no more steps.
CHECK_DEADLOCK FALSE
