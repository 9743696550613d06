SPECIFICATION FairDaemonsSpec
CONSTANTS
  Processes = {d1, d2, d3}
  Nobody = Nobody
  MaxFaults = 1
INVARIANT DaemonsTypeOK
INVARIANT OneAtWork
INVARIANT ServingIsReachable
INVARIANT PidFileNamesServer
INVARIANT NothingLeftBehind
PROPERTY StartSucceeds
CHECK_DEADLOCK FALSE
