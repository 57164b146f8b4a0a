SPECIFICATION Spec
CONSTANTS
  Executions = {e1, e2}
  Keys = {k1}
  e1 = e1
  e2 = e2
  k1 = k1
  EmptyKey = EmptyKey
  NoKey = NoKey
  None = None
  Bodies = {"plain", "unroutable"}
  Inadmissible = {}
  RouteOf <- Routes
  Budget = 3
  Deadline = 1
  MaxGenerations = 1
  DecisionReserve = 1
  VerifyCalls = 1
  Costs = {1}
  LockWait = 0
  MaxStalls = 0
SYMMETRY Symmetry
INVARIANTS
  KnownKeyIsAnswered
CHECK_DEADLOCK FALSE
