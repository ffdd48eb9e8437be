SPECIFICATION FairSpec
CONSTANTS
  Readers = {r1, r2}
  Writers = {w1, w2}
  Free = Free
  Limit = 1
  MaxSize = 2
  MaxWrites = 1
  MaxDeadlines = 2
INVARIANTS SleepersMustSleep  BoundariesKept DeadlineWakes
PROPERTIES WritersReleased ReadersSeeClose
CHECK_DEADLOCK FALSE
