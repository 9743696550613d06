SPECIFICATION LostToolsSpec
CONSTANTS
  Threads = {t1, t2}
  Handoffs = {h1}
  Tools = {u1}
  NoThread = NoThread
  NoHandoff = NoHandoff
  Reports = {}
  RescueMayFail = FALSE
  MaxCrashes = 0
SYMMETRY Symmetry
INVARIANT WaitsForExecutingTools
CHECK_DEADLOCK FALSE
