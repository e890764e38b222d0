CONSTANTS
  d1 = d1
  d2 = d2
  w1 = w1
  w2 = w2
  s1 = s1
  p1 = p1
  Docs = {d1}
  Writers = {w1}
  Streams = {}
  Polls = {p1}
  Hashes = {1}
  MaxGen = 3
  MaxSeq = 3
  HistCap = 2
  MaxRevs = 3
  Capacity = 1
  Limit = 3
  MaxNotes = 2
SPECIFICATION LiveSpec
CHECK_DEADLOCK FALSE
INVARIANT NotifierNeverStuck
