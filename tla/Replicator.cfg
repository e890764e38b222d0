CONSTANTS
  d1 = d1
  d2 = d2
  Docs = {d1, d2}
  Hashes = {1, 2}
  MaxGen = 2
  MaxSeq = 3
  HistCap = 3
  Jobs <- MCJobs
  Bounds <- MCBounds
  Limit = 1
  ClientHashes = {1}
  PeerHashes = {2}
  MaxSessions = 3
SPECIFICATION ReplicatorSpec
CONSTRAINT UntilOverlap
CHECK_DEADLOCK FALSE
INVARIANTS CompletedMeansCopied
PROPERTIES IsOneWayCopy ContinuousConverges
