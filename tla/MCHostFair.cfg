SPECIFICATION FairSpec
CONSTANTS
  p1 = p1
  p2 = p2
  p3 = p3
  p4 = p4
  WorkerCount = 2
  Depth = 3
  MAX_QUEUE_DEPTH = 2
  Batches <- TwoSinglesAndPair
  TwoStage = TRUE
  Interleaves = TRUE
  MaxSessions = 1
  MaxSeq = 3
  MaxDrops = 0
  MaxRenumberings = 1
  MaxFaults = 1
INVARIANT ResultsAreWhole
PROPERTY EveryBatchIsAnswered
\* With the bounds used up and no connection the model stops.
CHECK_DEADLOCK FALSE
