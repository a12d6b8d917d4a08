SPECIFICATION Spec
CONSTANTS
  p1 = p1
  p2 = p2
  p3 = p3
  host1 = host1
  host2 = host2
  Policy = {p1, p2}
  Enumeration <- TwoPolicies
  Peer = {host1, host2}
  Rank <- Ranks
  Workers <- TwoWorkers
  Depth <- DepthTwo
  MAX_POLICY_ATTEMPTS = 2
  LargestBatch = 2
  TailStart = 1
  TailBudget = 2
  TwoStage = FALSE
  Survivor = {}
  INCOMPLETE_RESULT_QUARANTINE_THRESHOLD = 2
  LateAnswers = TRUE
  DiskFails = TRUE
  MaxSessions = 2
  MaxFaults = 2
INVARIANTS TypeOK IndexAgrees CapacityRespected EvaluatedOnDisk OneRecordEach CompletedCoversAll UnfinishedIsHeld
PROPERTY ClosedIsFinal
\* An idle dispatcher whose peers are gone and whose sessions are used up stops.
CHECK_DEADLOCK FALSE
