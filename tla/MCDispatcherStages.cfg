SPECIFICATION FairSpec
CONSTANTS
  p1 = p1
  p2 = p2
  p3 = p3
  host1 = host1
  host2 = host2
  Policy = {p1, p2, p3}
  Enumeration <- ThreePolicies
  Peer = {host1, host2}
  Rank <- Ranks
  Workers <- ThreeWorkers
  Depth <- DepthTwo
  MAX_POLICY_ATTEMPTS = 2
  LargestBatch = 2
  TailStart = 1
  TailBudget = 2
  TwoStage = TRUE
  Survivor = {p1, p3}
  INCOMPLETE_RESULT_QUARANTINE_THRESHOLD = 2
  LateAnswers = FALSE
  DiskFails = FALSE
  MaxSessions = 1
  MaxFaults = 1
INVARIANT FineCoversSurvivors
PROPERTY SessionEnds
\* An idle dispatcher whose peers are gone and whose sessions are used up stops.
CHECK_DEADLOCK FALSE
