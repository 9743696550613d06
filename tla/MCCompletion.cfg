SPECIFICATION FairControllerSpec
CONSTANTS
  Threads = {t1, t2}
  Handoffs = {h1}
  Tools = {u1}
  NoThread = NoThread
  NoHandoff = NoHandoff
  Reports = {"completed"}
  RescueMayFail = FALSE
  MaxCrashes = 1
INVARIANT QuietTools
INVARIANT NoAbandonedTransition
PROPERTY CompletionSettlesAll
PROPERTY UnservedRunIsNoticed
CHECK_DEADLOCK FALSE
