SPECIFICATION Spec
CONSTANTS
  p1 = p1
  p2 = p2
  p3 = p3
  p4 = p4
  Policy = {p1, p2, p3, p4}
  Spend <- Spends
  Wealth <- Wealths
  Feasible = {p1, p2, p3}
  Broken = Broken
  CORPUS_FSYNC_EVERY_BATCHES = 2
  TornWrites = FALSE
  PowerLoss = TRUE
  MaxBatch = 2
  MaxCrashes = 3
INVARIANTS TypeOK CreditedIsReadable NoDuplicates BestIsBest SummaryIsBacked
PROPERTY LossIsBounded
\* A session that is closed, or whose manifest is torn, takes no more steps.
CHECK_DEADLOCK FALSE
