SPECIFICATION Spec
CONSTANTS
  FailMax = 20
  AcceptMin = 80
  NoAnswer = NoAnswer
  NotANumber = NotANumber
  Models = {1, 2}
  NoFallback = NoFallback
  NoRoute = NoRoute
  Pending = Pending
  Threshold = 50
  Absent = Absent
  Raised = Raised
  MaxSample = 40
  NoCost = NoCost
INVARIANTS
  RouteIsCheapest
  AcceptedWhenAcceptable
  OnlyDecisionsRefuse
  GateNeedsAFlag
  SampleJudgedFairly
  AuditedByVerifier
  BillsKept
CHECK_DEADLOCK FALSE
