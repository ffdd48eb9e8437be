SPECIFICATION FairSpec
CONSTANTS
  Deplexers = {d1, d2}
  Openers = {}
  Accepters = {a}
  Closers = {}
  Timers = {t}
  RemoteIds = {s1, s2, s3}
  MaxOpen = 0
  AcceptBacklog = 1
  CountMod = 8
  Singleplexes = {FALSE}
  MayDie = FALSE
  MayFailDial = TRUE
  Fin = Fin
  NoOne = NoOne
PROPERTIES CloseReturns
CHECK_DEADLOCK FALSE
