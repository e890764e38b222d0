CONSTANTS
  d1 = d1
  d2 = d2
  w1 = w1
  w2 = w2
  replicator = replicator
  client = client
  Docs = {d1, d2}
  Writers = {w1}
  Hashes = {1}
  MaxGen = 3
  MaxSeq = 3
  HistCap = 3
  MaxRevs = 3
  Replicators = {replicator}
  Clients = {}
  Limit = 2
SPECIFICATION FeedSpec
CHECK_DEADLOCK FALSE
INVARIANT NothingMissed
