SPECIFICATION Spec
CONSTANTS
  Jobs = {j1, j2}
  Workers = {w1, w2}
  j1 = j1
  j2 = j2
  w1 = w1
  w2 = w2
  None = None
  MaxAttempts = 2
  ClaimLease = 1
  CallTimeout = 1
  LeaseMargin = 1
  LockWait = 1
  Retention = 2
  JudgeCalls <- MixedCalls
  UnknownContracts = {j2}
SYMMETRY WorkerSymmetry
INVARIANTS
  TypeOK
  OwnerHolds
PROPERTIES
  FencedRow
  KeepsPromise
