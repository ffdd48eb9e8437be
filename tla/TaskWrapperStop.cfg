SPECIFICATION FairSpec
CONSTANTS
  Starters = {s1}
  Stoppers = {k1}
  Addrs = {a1}
  Kinds = {"server"}
PROPERTIES
  StopTaskReturns
CHECK_DEADLOCK FALSE
