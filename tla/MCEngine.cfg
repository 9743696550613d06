SPECIFICATION Spec
CONSTANTS
  Threads = {t1, t2, t3}
  Handoffs = {h1, h2}
  Tools = {}
  NoThread = NoThread
  NoHandoff = NoHandoff
  Reports = {"completed"}
SYMMETRY Symmetry
INVARIANT TypeOK
INVARIANT SingleActiveRoot
INVARIANT ActiveRunHasItsRoot
INVARIANT QuietTree
INVARIANT SuccessorOwnsTree
PROPERTY AuthorityMovesByAcceptance
CHECK_DEADLOCK FALSE
