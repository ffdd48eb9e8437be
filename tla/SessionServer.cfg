SPECIFICATION Spec
CONSTANTS
  Deplexers = {d1, d2}
  Openers = {}
  Accepters = {a}
  Closers = {c}
  Timers = {}
  RemoteIds = {s1, s2}
  MaxOpen = 0
  AcceptBacklog = 2
  CountMod = 8
  Singleplexes = {FALSE}
  MayDie = TRUE
  MayFailDial = TRUE
  Fin = Fin
  NoOne = NoOne
SYMMETRY Symmetry
INVARIANTS TypeOK NoSendOnClosedChannel NoRemoteStreamSurvives CountAgrees
PROPERTIES NoResurrection
CHECK_DEADLOCK FALSE
