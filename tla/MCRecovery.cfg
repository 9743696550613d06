SPECIFICATION ControllerSpec
CONSTANTS
  Threads = {t1, t2, t3}
  Handoffs = {h1, h2, h3}
  Tools = {}
  NoThread = NoThread
  NoHandoff = NoHandoff
  Reports = {}
  RescueMayFail = TRUE
  MaxCrashes = 1
SYMMETRY Symmetry
INVARIANT ControllerTypeOK
INVARIANT TreeHandedOver
PROPERTY WorkNotDropped
PROPERTY EndedThreadsStayEnded
PROPERTY HandoffLedger
PROPERTY ImplementsRootLease
CHECK_DEADLOCK FALSE
