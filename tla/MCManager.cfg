SPECIFICATION ManagerSpec
CONSTANTS
  r1 = r1
  r2 = r2
  s1 = s1
  s2 = s2
  s3 = s3
  Nothing = Nothing
  Runs = {r1, r2}
  Servers = {s1, s2, s3}
  LateSockets = FALSE
SYMMETRY Symmetry
INVARIANT ManagerTypeOK
INVARIANT StopIsSilent
INVARIANT NoOrphanServer
INVARIANT OneServerPerRun
PROPERTY OnlyTheDeadLeave
