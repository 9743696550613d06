SPECIFICATION StoreSpec
CONSTANTS
  Runs = {r1, r2}
  Apart = {}
  Handoffs = {h1}
  NoRun = NoRun
  NoFile = NoFile
  MaxRevision = 3
  MaxCrashes = 1
INVARIANT StoreTypeOK
INVARIANT CreatedRunsStay
INVARIANT HandoffsOnDisk
INVARIANT OneBusyRun
INVARIANT NothingOwed
PROPERTY NoLostUpdate
SYMMETRY RunSymmetry
CHECK_DEADLOCK FALSE
