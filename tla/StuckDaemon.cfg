SPECIFICATION FairSessionSpec
CONSTANTS
  Dispatcher = dispatcher
  Requests = {c1}
  Goroutines = {c1, dispatcher}
  Nobody = Nobody
  QueueSize = 1
  WireSize = 1
  MaxNotes = 3
  MaxCalls = 2
PROPERTY WaitersGetTheMutex
CHECK_DEADLOCK FALSE
