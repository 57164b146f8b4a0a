SPECIFICATION FairSpec
CONSTANTS
  Executions = {e1}
  Keys = {k1}
  e1 = e1
  k1 = k1
  EmptyKey = EmptyKey
  NoKey = NoKey
  None = None
  Bodies = {"plain", "unroutable", "refused"}
  Inadmissible = {"refused"}
  RouteOf <- Routes
  Budget = 4
  Deadline = 2
  MaxGenerations = 2
  DecisionReserve = 1
  VerifyCalls = 2
  Costs = {0, 1, 3}
  LockWait = 1
  MaxStalls = 1
INVARIANTS
  TypeOK
  CostMatchesLedger
  BudgetHeld
  AnswersInTime
PROPERTIES
  EveryExecutionEnds
CHECK_DEADLOCK FALSE
