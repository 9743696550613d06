SPECIFICATION FairControllerSpec
CONSTANTS
  Threads = {t1, t2}
  Handoffs = {h1}
  Tools = {u1}
  NoThread = NoThread
  NoHandoff = NoHandoff
  Reports = {"completed"}
  RescueMayFail = TRUE
  MaxCrashes = 1
PROPERTY TransitionEnds
CHECK_DEADLOCK FALSE
