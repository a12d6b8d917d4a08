SPECIFICATION Spec
CONSTANTS
  p1 = p1
  p2 = p2
  p3 = p3
  p4 = p4
  Policy = {p1, p2, p3, p4}
  Spend <- Spends
  Wealth <- Wealths
  Feasible = {p1, p2, p3}
  Broken = Broken
  CORPUS_FSYNC_EVERY_BATCHES = 2
  TornWrites = TRUE
  PowerLoss = FALSE
  MaxBatch = 2
  MaxCrashes = 2
INVARIANT CreditedIsReadable
\* A session that is closed, or whose manifest is torn, takes no more steps.
CHECK_DEADLOCK FALSE
