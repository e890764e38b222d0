\* Creations, deletions and transactions with faults and a crash.
CONSTANTS
  Users = "_users"
  Names = {"_users", "a", "a.b"}
  Dotted = {"a.b"}
  Clients = {p, q}
  MaxDbs = 3
  MaxHandles = 6
  MaxRequests = 4
  MaxFaults = 1
  MaxCrashes = 1
SPECIFICATION Spec
CHECK_DEADLOCK FALSE
INVARIANTS
  TxOnCurrentFile
  AckedIsServed
PROPERTIES
  AnsweredUnlessHanging
