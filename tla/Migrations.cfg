SPECIFICATION FairSpec
CONSTANTS
  Processes = {api, worker, restarted}
  api = api
  worker = worker
  restarted = restarted
  Last = 2
  Length <- Lengths
  Alters <- AlterSets
INVARIANTS
  TypeOK
  UpMeansMigrated
  AltersExclude
PROPERTIES
  RefusedMayRetry
  CutOffForEver
CHECK_DEADLOCK FALSE
