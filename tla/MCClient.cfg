SPECIFICATION Spec
CONSTANTS
  Configs <- MCConfigs
  Addrs = {a1}
  Locals = {l1, l2}
  NumConn = 2
  MaxSesh = 3
  MaxStream = 3
  MaxDatagrams = 3
INVARIANTS EntryHasReader
PROPERTIES  RouteGoesOn LocalsEnd
CHECK_DEADLOCK FALSE
