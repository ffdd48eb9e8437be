SPECIFICATION FairSpec
CONSTANTS
  Starters = {s1, s2}
  Stoppers = {k1, k2}
  Addrs = {a1, a2}
  Kinds = {"client", "server"}
INVARIANTS
  TaskNeverLost
PROPERTIES
  StopFreesAddresses
CHECK_DEADLOCK FALSE
