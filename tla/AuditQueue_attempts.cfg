SPECIFICATION Spec
CONSTANTS
  Jobs = {j1}
  Workers = {w1, w2, w3}
  j1 = j1
  w1 = w1
  w2 = w2
  w3 = w3
  None = None
  MaxAttempts = 2
  ClaimLease = 1
  CallTimeout = 1
  LeaseMargin = 1
  LockWait = 1
  Retention = 3
  JudgeCalls <- OneCall
  UnknownContracts = {}
SYMMETRY WorkerSymmetry
INVARIANTS
  AttemptsWithinLimit
