SPECIFICATION FairSpec
CONSTANTS
  Deplexers = {d1, d2}
  Closers = {c1}
  NData = 3
  NLate = 1
  Limit = 1
  Free = Free
INVARIANTS InOrder RemoteCloseDeliversAll NoStaleFrame 
PROPERTIES ReaderReachesEOF RecvBufCloseReturns ImplementsOrderedStream
CHECK_DEADLOCK FALSE
