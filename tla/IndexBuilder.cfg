\* One index with two clients, the task runner, a crash and a failure.
CONSTANTS
  Ids = {1, 2}
  Bodies = {"a", "b"}
  Fns = {"f", "g"}
  Keys = {"k", "l"}
  Emits <- MCEmits
  Writers = {w1, w2}
  BatchSize = 1
  TakeCount = 1
  MaxWrites = 2
  MaxDesigns = 2
  MaxCrashes = 1
  MaxFailures = 1
SPECIFICATION Spec
CHECK_DEADLOCK FALSE
INVARIANTS
  RowsRemovable
  RowsExact
  NoTaskMeansBuilt
PROPERTIES
  TasksDrain
