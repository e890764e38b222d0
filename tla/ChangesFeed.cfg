CONSTANTS
  d1 = d1
  d2 = d2
  w1 = w1
  w2 = w2
  replicator = replicator
  client = client
  Docs = {d1, d2}
  Writers = {w1, w2}
  Hashes = {1}
  MaxGen = 2
  MaxSeq = 3
  HistCap = 1
  MaxRevs = 2
  Replicators = {replicator}
  Clients = {client}
  Limit = 1
SPECIFICATION FeedSpec
CONSTRAINT UntilOverlap
CHECK_DEADLOCK FALSE
INVARIANTS NoGapWhileAnchored
PROPERTIES ClientsCatchUp
