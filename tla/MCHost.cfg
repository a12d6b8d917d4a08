SPECIFICATION Spec
CONSTANTS
  p1 = p1
  p2 = p2
  p3 = p3
  p4 = p4
  WorkerCount = 2
  Depth = 2
  MAX_QUEUE_DEPTH = 1
  Batches <- OneAndThree
  TwoStage = FALSE
  Interleaves = FALSE
  MaxSessions = 2
  MaxSeq = 2
  MaxDrops = 1
  MaxRenumberings = 0
  MaxFaults = 0
INVARIANTS TypeOK AssignedIsHeld BusyCountsRuns RunsArePrimed
\* With the bounds used up and no connection the model stops.
CHECK_DEADLOCK FALSE
