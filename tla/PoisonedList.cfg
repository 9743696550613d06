SPECIFICATION FairStoreSpec
CONSTANTS
  Runs = {r1, r2}
  Apart = {r2}
  Handoffs = {}
  NoRun = NoRun
  NoFile = NoFile
  MaxRevision = 1
  MaxCrashes = 1
PROPERTY IncompleteRunsRecovered
CHECK_DEADLOCK FALSE
