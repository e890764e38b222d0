CONSTANTS
  r1 = r1
  r2 = r2
  Ids = {r1}
  JobSlots = {1, 2}
  MaxRetry = 2
  Bounds <- MCBounds
SPECIFICATION ServiceSpec

CHECK_DEADLOCK FALSE
INVARIANTS ActiveIsAlive OneJobPerId CompletedIsDone
PROPERTIES WantedRuns DeletedIsCancelled
