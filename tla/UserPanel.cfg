SPECIFICATION Spec
CONSTANTS
  d1 = d1
  d2 = d2
  t1 = t1
  t2 = t2
  u1 = u1
  b1 = b1
  i1 = i1
  i2 = i2
  Dispatchers = {d1, d2}
  Tickers = {t1, t2}
  UIDs = {u1}
  Bypass = {}
  SIDs = {i1}
  SessionsCap = 1
  Credit = 1
  MaxUse = 2
  None = None
SYMMETRY Symmetry

  
PROPERTIES
  ImplementsMetering
CHECK_DEADLOCK FALSE
