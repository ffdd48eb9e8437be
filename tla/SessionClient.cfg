SPECIFICATION FairSpec
CONSTANTS
  Deplexers = {d1}
  Openers = {o1, o2}
  Accepters = {}
  Closers = {}
  Timers = {t}
  RemoteIds = {}
  MaxOpen = 2
  AcceptBacklog = 1
  CountMod = 8
  Singleplexes = {TRUE, FALSE}
  MayDie = FALSE
  MayFailDial = FALSE
  Fin = Fin
  NoOne = NoOne
INVARIANTS CountAgrees
PROPERTIES  SingleplexCloses
CHECK_DEADLOCK FALSE
