------------------------------ MODULE ViewRows ------------------------------
(***************************************************************************)
(* Answering a view query from the rows of its index: the collation of     *)
(* keys (view_key_cmp.go), the filter, order and slice of a map query      *)
(* (db_view.go) and the grouping and folding of a reduce query             *)
(* (design_doc.go and the built-in reducers).                              *)
(*                                                                         *)
(* A row is the emitted key, the emitted value and the document; rows is   *)
(* the sequence of them in the order of the index.  The query passes       *)
(* through the whole index and filters it, since the byte order of keys is *)
(* not the collation order.                                                *)
(***************************************************************************)
EXTENDS Selector

\* No key: a bound that is not set.
Unset == [t |-> "unset", v |-> <<>>]

\* start and end bound the keys, startDoc and endDoc the documents; keys are
\* the requested keys, if any; level is group_level and group is group=true.
\* A limit of 0 is no limit.
RowQuery ==
  [start |-> Unset, end |-> Unset, exclusive |-> FALSE, descending |-> FALSE,
   startDoc |-> 0, endDoc |-> 0, keys |-> <<>>, skip |-> 0, limit |-> 0,
   level |-> 0, group |-> FALSE]

-----------------------------------------------------------------------------
(* ViewKeyCmp. *)

TypeRank(t) ==
  CASE t = "nil" -> 0 [] t = "boolean" -> 1 [] t = "number" -> 2
    [] t = "string" -> 3 [] t = "array" -> 4 [] t = "object" -> 5

\* The first difference decides; a prefix comes first.
SeqLess(s, u) ==
  \/ \E i \in DOMAIN s \cap DOMAIN u :
       s[i] < u[i] /\ \A j \in 1..(i - 1) : s[j] = u[j]
  \/ Len(s) < Len(u) /\ \A j \in DOMAIN s : s[j] = u[j]

\* Objects are not told apart.
KeyLess(x, y) ==
  IF x.t # y.t THEN TypeRank(x.t) < TypeRank(y.t)
  ELSE x.t # "object" /\ SeqLess(x.v, y.v)

\* ViewKeyCmp(x, y) = 0
KeySame(x, y) == ~KeyLess(x, y) /\ ~KeyLess(y, x)

-----------------------------------------------------------------------------
(* The rows a query asks for. *)

InRange(q, row) ==
  LET Before(x, y) == IF q.descending THEN KeyLess(y, x) ELSE KeyLess(x, y)
  IN  /\ q.start = Unset \/ ~Before(row.key, q.start)
      /\ \/ q.end = Unset
         \/ Before(row.key, q.end)
         \/ ~q.exclusive /\ ~Before(q.end, row.key)
      /\ q.startDoc = 0 \/ row.id >= q.startDoc
      /\ q.endDoc = 0 \/ row.id <= q.endDoc

\* Each requested key in turn; the bounds play no part then.
RowsOfKeys(rows, keys) ==
  FoldLeft(LAMBDA out, k : out \o SelectSeq(rows, LAMBDA row : row.key = k),
           <<>>, keys)

Selected(rows, q) ==
  IF q.keys = <<>> THEN SelectSeq(rows, LAMBDA row : InRange(q, row))
  ELSE RowsOfKeys(rows, q.keys)

\* Sorting keeps rows with equal keys in the order of the index, as Go's
\* sort.Slice does for up to twelve rows.
InsertRow(out, row, Before(_, _)) ==
  LET stay == {i \in DOMAIN out : ~Before(row.key, out[i].key)}
      at   == IF stay = {} THEN 1 ELSE 1 + (CHOOSE i \in stay : \A j \in stay : j <= i)
  IN  InsertAt(out, at, row)

SortRows(rows, descending) ==
  LET Before(x, y) == IF descending THEN KeyLess(y, x) ELSE KeyLess(x, y)
  IN  FoldLeft(LAMBDA out, row : InsertRow(out, row, Before), <<>>, rows)

\* Mutant: the limit counts the skipped rows.
SliceLimitFirst(s, skip, limit) ==
  SubSeq(s, skip + 1, IF limit > 0 /\ limit < Len(s) THEN limit ELSE Len(s))

Slice(s, skip, limit) ==
  SubSeq(s, skip + 1,
         IF limit > 0 /\ skip + limit < Len(s) THEN skip + limit ELSE Len(s))

\* A query with reduce=false.
MapQuery(rows, q) ==
  Slice(SortRows(Selected(rows, q), q.descending /\ q.keys = <<>>),
        q.skip, q.limit)

-----------------------------------------------------------------------------
(* A query that reduces, the default. *)

GroupKey(q, key) ==
  IF q.level > 0
  THEN IF key.t = "array" /\ q.level < Len(key.v)
       THEN Array(SubSeq(key.v, 1, q.level)) ELSE key
  ELSE IF q.group THEN key ELSE Null

At(s, i) == IF i \in DOMAIN s THEN s[i] ELSE 0

\* sumAdd: arrays are added element by element, a scalar being an array of
\* one; a scalar that is no number is kept, or not added.
SumAdd(x, y) ==
  IF x.t = "array" \/ y.t = "array"
  THEN LET n == IF Len(x.v) > Len(y.v) THEN Len(x.v) ELSE Len(y.v)
       IN  Array([i \in 1..n |-> At(x.v, i) + At(y.v, i)])
  ELSE IF x.t = "number" /\ y.t = "number" THEN Number(x.v[1] + y.v[1])
  ELSE x

\* _stats: sum, smallest, greatest, number and sum of squares.  What is no
\* number is NaN, which spoils both sums, is never smaller or greater, and is
\* kept as the smallest and greatest when it came first.
Stats(s) == [t |-> "stats", v |-> s]

Plus(x, y) == IF x = Null \/ y = Null THEN Null ELSE Number(x.v[1] + y.v[1])

StatsOf(value) ==
  LET x == IF value.t = "number" THEN value ELSE Null
  IN  Stats(<<x, x, x, Number(1),
              IF x = Null THEN Null ELSE Number(x.v[1] * x.v[1])>>)

StatsAdd(s, value) ==
  LET x == StatsOf(value).v
  IN  Stats(<<Plus(s[1], x[1]),
              IF Less(x[2], s[2]) THEN x[2] ELSE s[2],
              IF Less(s[3], x[3]) THEN x[3] ELSE s[3],
              Plus(s[4], x[4]),
              Plus(s[5], x[5])>>)

\* What a reducer starts with for the first row of a key, and how it goes on.
First(fn, value) ==
  CASE fn = "_count" -> Number(1)
    [] fn = "_sum"   -> value
    [] fn = "_stats" -> StatsOf(value)

Further(fn, acc, value) ==
  CASE fn = "_count" -> Number(acc.v[1] + 1)
    [] fn = "_sum"   -> SumAdd(acc, value)
    [] fn = "_stats" -> StatsAdd(acc.v, value)

\* Mutant: only the last group is looked at, as if equal keys came together.
FoldRowLastGroup(fn, groups, key, value) ==
  IF groups # <<>> /\ groups[Len(groups)].key = key
  THEN [groups EXCEPT ![Len(groups)].value = Further(fn, @, value)]
  ELSE Append(groups, [key |-> key, value |-> First(fn, value)])

\* Reducer.Reduce: the row goes to its key's group, or starts a new one.
FoldRow(fn, groups, key, value) ==
  IF \E i \in DOMAIN groups : groups[i].key = key
  THEN LET i == CHOOSE i \in DOMAIN groups : groups[i].key = key
       IN  [groups EXCEPT ![i].value = Further(fn, @, value)]
  ELSE Append(groups, [key |-> key, value |-> First(fn, value)])

\* ReduceDocs with a built-in reducer: requested keys select among the results.
ReduceQuery(rows, q, fn) ==
  LET in     == SelectSeq(rows, LAMBDA row : InRange(q, row))
      groups == FoldLeft(LAMBDA gs, row :
                           FoldRow(fn, gs, GroupKey(q, row.key), row.value),
                         <<>>, in)
  IN  {g \in ToSet(groups) :
         q.keys = <<>> \/ \E k \in ToSet(q.keys) : KeySame(g.key, k)}

\* ReduceDocs of a view without a reduce function: a map from document to
\* row, in which the last row of each document stays.  Neither the limit nor
\* the skip of the request is used.
MapOnlyQuery(rows, q) ==
  LET in     == SelectSeq(rows, LAMBDA row : InRange(q, row))
      lastOf == {i \in DOMAIN in :
                   \A j \in (i + 1)..Len(in) : in[j].id # in[i].id}
  IN  {in[i] : i \in {i \in lastOf :
         q.keys = <<>> \/ \E k \in ToSet(q.keys) : KeySame(in[i].key, k)}}

=============================================================================
