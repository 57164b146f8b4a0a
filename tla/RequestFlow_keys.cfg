SPECIFICATION Spec
CONSTANTS
  Executions = {e1, e2, e3}
  Keys = {k1}
  e1 = e1
  e2 = e2
  e3 = e3
  k1 = k1
  EmptyKey = EmptyKey
  NoKey = NoKey
  None = None
  Bodies = {"plain", "unroutable"}
  Inadmissible = {}
  RouteOf <- Routes
  Budget = 3
  Deadline = 1
  MaxGenerations = 1
  DecisionReserve = 1
  VerifyCalls = 0
  Costs = {1}
  LockWait = 0
  MaxStalls = 0
SYMMETRY Symmetry
INVARIANTS
  SpendOncePerKey
  SameKeySameAnswer
PROPERTIES
  KeepsPromise
CHECK_DEADLOCK FALSE
