CONSTANTS
  d1 = d1
  d2 = d2
  w1 = w1
  w2 = w2
  Docs = {d1}
  Writers = {w1}
  Hashes = {1}
  MaxGen = 2
  MaxSeq = 2
  HistCap = 3
  MaxRevs = 2
  RevsLimit = 1
SPECIFICATION CompactionSpec
CHECK_DEADLOCK FALSE
INVARIANT AckedNotLost
