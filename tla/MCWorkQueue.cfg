SPECIFICATION FairSpec
CONSTANTS
  p1 = p1
  p2 = p2
  p3 = p3
  Policy = {p1, p2, p3}
  Enumeration <- ThreePolicies
  Peer = {h1, h2}
  PriorEvaluated = 1
  MAX_POLICY_ATTEMPTS = 2
  MAX_BATCH_SIZE = 2
  MaxUncounted = 1
INVARIANTS TypeOK PoliciesConserved CountsAddUp AttemptsWithinBudget
PROPERTIES ReturnedGoFirst ImplementsLedger Terminates
\* A finished queue takes no more steps.
CHECK_DEADLOCK FALSE
