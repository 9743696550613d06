SPECIFICATION FairSessionSpec
CONSTANTS
  Dispatcher = dispatcher
  Requests = {c1}
  Goroutines = {c1, dispatcher}
  Nobody = Nobody
  QueueSize = 1
  WireSize = 1
  MaxNotes = 2
  MaxCalls = 3
INVARIANT SessionTypeOK
INVARIANT AnswerFits
INVARIANT PendingAreWaiting
INVARIANT NotificationsInOrder
PROPERTY MutexComesFree
PROPERTY CallsEndWithConnection
CHECK_DEADLOCK FALSE
