SPECIFICATION Spec
CONSTANTS
  x1 = x1
  x2 = x2
  y = y
  Items = {x1, x2, y}
  Selections <- Pilots
  Budget = 4
  None = None
  Scripts = {"benchmark", "shadow"}
  Settings = {"old", "new"}
  Replies <- Answers
  Estimate = 2
  Concurrency = 1
  MaxStarts = 2
  KeyOf <- ItemKeys
  Strong = 2
  MaxFiles = 3
  MaxEdits = 1
  Models = {1, 2}
  NoFallback = NoFallback
  NoRoute = NoRoute
INVARIANTS
  TypeOK
  PilotManifestHolds
  OverspendBounded
  SettingsTold
  PricesMeasured
  ReservationFromFile
CHECK_DEADLOCK FALSE
