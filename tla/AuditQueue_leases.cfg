SPECIFICATION FairSpec
CONSTANTS
  Jobs = {j1}
  Workers = {w1, w2, w3}
  j1 = j1
  w1 = w1
  w2 = w2
  w3 = w3
  None = None
  MaxAttempts = 2
  ClaimLease = 2
  CallTimeout = 3
  LeaseMargin = 1
  LockWait = 1
  Retention = 4
  JudgeCalls <- OneCall
  UnknownContracts = {}
INVARIANTS
  AttemptsPaidFor
  HeldInFlight
PROPERTIES
  AuditsSettle
  PayloadsErased
