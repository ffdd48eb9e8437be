SPECIFICATION Spec
CONSTANTS
  Fail = Fail
  Noise = Noise
  Nil = Nil
  Conns = {c1, c2}
  Attempts <- MCAttempts
  Attempt <- MCAttempt
  ProxyBook <- MCProxyBook
  Users = {"u1"}
  AdminUID = "admin"
  Tolerance = 1
  MaxTime = 1
  MaxSweeps = 1
  Frames <- MCFrames
INVARIANTS TypeOK NoReplay UnderstoodAsSent  FramesUnderstood
PROPERTIES  ClosedSessionsLeave
CHECK_DEADLOCK FALSE
