SPECIFICATION PumpSpec
CONSTANTS
  host1 = host1
  host2 = host2
  host3 = host3
  Policy <- Policies
  Peer = {host1, host2, host3}
  Rank <- Ranks
  Workers <- Pools
  Depth <- Depths
  Hint <- Hints
  Runtime <- Engines
  MAX_POLICY_ATTEMPTS = 5
  DEFAULT_PREFETCH_DEPTH = 2
  RUST_COMPACT_PREFETCH_DEPTH = 4
  WARMUP_MAX_BATCH_SIZE = 16
  SLOW_HOST_TAIL_CUTOFF_MULTIPLIER = 4
  SLOW_HOST_TAIL_WORK_MULTIPLIER = 4
  LargestBatch = 400
  TailStart = 16
  TailBudget = 6400
  Calls <- PumpCalls
INVARIANT PumpMatchesLoop
PROPERTY PumpIsIdempotent
CHECK_DEADLOCK FALSE
