SPECIFICATION Spec
CONSTANTS
  Jobs = {j1}
  Workers = {w1, w2}
  j1 = j1
  w1 = w1
  w2 = w2
  None = None
  MaxAttempts = 3
  ClaimLease = 6
  CallTimeout = 6
  LeaseMargin = 1
  LockWait = 2
  Retention = 9
  JudgeCalls <- TwoCalls
  UnknownContracts = {}
SYMMETRY WorkerSymmetry
INVARIANTS
  HeldInFlight
