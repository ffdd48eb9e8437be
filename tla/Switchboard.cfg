SPECIFICATION FairSpec
CONSTANTS
  Conns = {c1, c2}
  Senders = {s}
  Closers = {k}
  None = None
  MayDie = TRUE
INVARIANTS EveryConnKeepsItsSlot
PROPERTIES CloseReachesConns
CHECK_DEADLOCK FALSE
