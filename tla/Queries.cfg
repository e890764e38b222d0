CONSTANTS
  Keys = {1, 2, 3, 4, 5}
  Kind <- MCKind
  Longer <- MCLonger
  Contents <- MCContents
  Fields = {"a", "b"}
  RegexMatches = {}
  IndexFields = {"a"}
  Partition <- MCPartition
  Emits <- MCEmits
  Buckets <- MCBuckets
  Sessions <- MCSessions
  MaxWrites = 2
SPECIFICATION QueriesSpec
CHECK_DEADLOCK FALSE
INVARIANTS PagesMissNothing QuietPagesExact ReduceExact
PROPERTY PagingEnds
