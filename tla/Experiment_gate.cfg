SPECIFICATION Spec
CONSTANTS
  qa = qa
  judged = judged
  Items = {qa, judged}
  GateItems = {qa}
  Selections <- Prefixes
  Budget = 25
  None = None
  ArmOf <- ItemArms
  FixedRoute <- ItemRoutes
  Price <- Prices
  TierCosts <- Reports
  DecisionEstimate = 4
  DecisionCosts = {3}
  VerifyCalls = 1
  Concurrency = 2
  MaxStarts = 2
INVARIANTS
  UnknownIsNull
CHECK_DEADLOCK FALSE
