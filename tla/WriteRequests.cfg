CONSTANTS
  d1 = d1
  d2 = d2
  c1 = c1
  c2 = c2
  Docs = {d1, d2}
  Clients = {c1, c2}
  Hashes = {1, 2}
  MaxGen = 2
  MaxSeq = 6
  HistCap = 2
  MaxDocs = 1
  MaxBatch = 2
  MaxWrites = 3
SPECIFICATION Spec
CONSTRAINT Serial
SYMMETRY Symmetry
CHECK_DEADLOCK FALSE
INVARIANTS RequestsKeepWinners
PROPERTIES ValidatedOnBase LimitOverrunBounded
