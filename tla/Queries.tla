------------------------------ MODULE Queries ------------------------------
(***************************************************************************)
(* A client that reads a goydb database in pages while others write to it: *)
(* _all_docs and its relatives (db_all_docs.go), _find by table scan, by   *)
(* Mango index and sorted (db_find_docs.go), _partition/_find, and views   *)
(* with and without reduce.                                                *)
(*                                                                         *)
(* A listing runs in one read transaction and is one step.  A _find over a *)
(* Mango index is several: the ids are looked up in one transaction and    *)
(* every document is read in one of its own.  A write stores a plain       *)
(* document or its tombstone.  The view and Mango indices are up to date.  *)
(***************************************************************************)
EXTENDS Iterator, ViewRows

CONSTANTS IndexFields,  \* the fields of the Mango index
          Partition,    \* the ids of the partition asked for
          Emits,        \* Emits[c]: the key/value pairs a view makes of c
          Buckets,      \* what the database may hold when the client begins
          Sessions,     \* what clients ask for
          MaxWrites     \* bound: writes while a client pages

ASSUME QueriesAssumption ==
  /\ Contents \subseteq [Fields -> [t : STRING, v : Seq(Int)]]
  /\ DOMAIN Emits = Contents
  /\ Partition \subseteq Keys
  /\ Buckets \subseteq [Keys -> {Absent} \cup Stored]
  /\ MaxWrites \in Nat

VARIABLES b,        \* the docs bucket
          session,  \* what the client asked for
          pc,       \* "ask", "load" (an index lookup under way) or "done"
          skip,     \* the skip of the next request
          mark,     \* the start key or bookmark of the next request
          ids,      \* ids an index lookup has yet to read
          page,     \* the items of the page under way
          got,      \* the items of the pages before
          turn,     \* flips with every page, so that a repeated page is a step
          again,    \* did a page repeat an item?
          failed,   \* did a request end in an error?
          groups,   \* the answer of a reduce query
          before,   \* history: the bucket when the client began
          touched,  \* history: the documents written since then
          writes    \* the number of writes so far

vars == <<b, session, pc, skip, mark, ids, page, got, turn, again, failed,
          groups, before, touched, writes>>
client == <<session, skip, mark, turn, groups, before>>
store == <<b, touched, writes>>

\* An item of a page: a document, or a row of a view.
Item(k) == [id |-> k, key |-> Null]
RowItem(row) == [id |-> row.id, key |-> row.key]

-----------------------------------------------------------------------------
(* Requests.  A session says what is asked (ask), how its pages follow one *)
(* another (by), the limit of each page, the options of a listing, the     *)
(* selector and sort of a find, and the query and reducer of a view.       *)

Session(ask, by, limit) ==
  [ask |-> ask, by |-> by, limit |-> limit, options |-> Defaults,
   selector |-> <<>>, sort |-> <<>>, query |-> RowQuery, fn |-> ""]

\* bestMangoIndex: all fields of the index have an equality condition.
UsesIndex(s) ==
  /\ s.ask = "find" /\ s.sort = <<>> /\ IndexFields # {}
  /\ \A f \in IndexFields : \E c \in EqConditions(s.selector) : c.field = f

\* The options of the next listing.
Request ==
  [session.options EXCEPT !.skip = skip, !.limit = session.limit,
                          !.start = IF mark = NoKey THEN @ ELSE mark]

Outcome(k) == Match(b[k].content, session.selector)

\* Sort.Less on a field, and SortList.Less: every sort field must be less.
LessBy(s, k, l) ==
  LET x == b[k].content[s.field]  y == b[l].content[s.field]
  IN  IF s.desc THEN Less(y, x) ELSE Less(x, y)

SortLess(k, l) ==
  \A i \in DOMAIN session.sort : LessBy(session.sort[i], k, l)

\* sort.SliceStable by insertion.
InsertDoc(out, k) ==
  LET stay == {i \in DOMAIN out : ~SortLess(k, out[i])}
      at   == IF stay = {} THEN 1 ELSE 1 + (CHOOSE i \in stay : \A j \in stay : j <= i)
  IN  InsertAt(out, at, k)

\* A document that cannot be matched is kept by the loop: its error ends the
\* query when the loop gets there.
Scan(o) ==
  IF Total(b) = 0 THEN <<>> ELSE Loop(b, o, LAMBDA k : Outcome(k) # "no", TRUE)

\* FindDocs without a sort: skip, limit and bookmark go to the iterator.
FindScan ==
  Scan([Request EXCEPT !.limit = IF @ = 0 THEN NoLimit ELSE @])

\* FindDocs with a sort: every document is read, then the matches are sliced.
FindSorted ==
  Slice(FoldLeft(InsertDoc, <<>>, Scan(Defaults)), skip, session.limit)

\* The rows the view has of a document, and of the bucket docs in the order
\* of the index, which matters for rows with equal keys only.
RowsOf(k, content) ==
  [i \in DOMAIN Emits[content] |->
     [key |-> Emits[content][i].key, value |-> Emits[content][i].value, id |-> k]]

Rows(docs) ==
  FoldLeft(LAMBDA rows, k :
             IF docs[k] \in {Absent, Dead} \/ Kind[k] # "doc" THEN rows
             ELSE rows \o RowsOf(k, docs[k].content),
           <<>>, InOrder)

Keyed(s) == [i \in DOMAIN s |-> Item(s[i])]

\* Does the loop get to a document that cannot be matched?
Bad(s) == \E i \in DOMAIN s : Outcome(s[i]) = "error"

-----------------------------------------------------------------------------
(* The client. *)

\* A page that is full is followed by another; the client goes on from the
\* number of items it asked for, from the last item, or from the bookmark.
Follow(p, bad) ==
  LET full == Len(p) > 0 /\ Len(p) = session.limit
  IN  /\ got' = got \cup ToSet(p)
      /\ turn' = ~turn
      /\ again' = (again \/ ToSet(p) \cap got # {})
      /\ failed' = bad
      /\ page' = <<>>
      /\ IF full /\ ~bad
         THEN /\ pc' = "ask"
              /\ skip' = CASE session.by = "skip" -> skip + session.limit
                           [] session.by = "startkey" -> 1
                           [] session.by = "bookmark" -> 0
              /\ mark' = IF session.by = "skip" THEN NoKey ELSE p[Len(p)].id
         ELSE pc' = "done" /\ UNCHANGED <<skip, mark>>
      /\ UNCHANGED <<session, ids, groups, before, store>>

ListDocs ==
  /\ session.ask = "all_docs"
  /\ Follow(Keyed(AllDocs(b, Request)), FALSE)

\* A page with an error is an error and nothing else.
AnswerMatches(s) == IF Bad(s) THEN Follow(<<>>, TRUE) ELSE Follow(Keyed(s), FALSE)

FindDocs ==
  /\ session.ask = "find" /\ ~UsesIndex(session)
  /\ AnswerMatches(IF session.sort = <<>> THEN FindScan ELSE FindSorted)

\* _partition/_find asks the whole database and keeps the partition's.
PartitionFind ==
  /\ session.ask = "partition"
  /\ LET s == FindScan
     IN  IF Bad(s) THEN Follow(<<>>, TRUE)
         ELSE Follow(Keyed(SelectSeq(s, LAMBDA k : k \in Partition)), FALSE)

\* LookupEq: the ids under the values of the equality conditions.
LookupEq ==
  /\ session.ask = "find" /\ UsesIndex(session)
  /\ ids' = SelectSeq(InOrder, LAMBDA k :
              /\ b[k] \notin {Absent, Dead} /\ Kind[k] = "doc"
              /\ \A c \in EqConditions(session.selector) :
                   c.field \in IndexFields => b[k].content[c.field] = c.value)
  /\ pc' = "load"
  /\ UNCHANGED <<client, page, got, again, failed, store>>

\* findDocsViaIndex reads the next document, in a transaction of its own; the
\* skip of the request counts matches here, and a bookmark plays no part.
LoadDoc ==
  /\ pc = "load"
  /\ IF ids = <<>> \/ (session.limit > 0 /\ Len(page) = skip + session.limit)
     THEN Follow(SubSeq(page, skip + 1, Len(page)), FALSE)
     ELSE LET k == ids[1]
          IN  IF b[k] \in {Absent, Dead} \/ Outcome(k) = "no"
              THEN /\ ids' = Tail(ids)
                   /\ UNCHANGED <<page, pc, client, got, again, failed, store>>
              ELSE IF Outcome(k) = "error" THEN Follow(<<>>, TRUE)
              ELSE /\ ids' = Tail(ids)
                   /\ page' = Append(page, Item(k))
                   /\ UNCHANGED <<pc, client, got, again, failed, store>>

\* A view query with reduce=false.
ViewMap ==
  /\ session.ask = "view" /\ session.fn = "map"
  /\ LET rows == MapQuery(Rows(b), [session.query EXCEPT !.skip = skip,
                                                      !.limit = session.limit])
     IN  Follow([i \in DOMAIN rows |-> RowItem(rows[i])], FALSE)

\* A view query that reduces is answered at once.
ViewReduce ==
  /\ session.ask = "view" /\ session.fn # "map"
  /\ groups' = IF session.fn = "none"
               THEN {[key |-> row.key, value |-> row.value] :
                       row \in MapOnlyQuery(Rows(b), session.query)}
               ELSE ReduceQuery(Rows(b), session.query, session.fn)
  /\ pc' = "done"
  /\ UNCHANGED <<session, skip, mark, turn, before, ids, page, got, again,
                 failed, store>>

Asks ==
  /\ pc = "ask"
  /\ ListDocs \/ FindDocs \/ PartitionFind \/ LookupEq \/ ViewMap \/ ViewReduce

\* Somebody stores or deletes a plain document.
Write ==
  /\ pc # "done" /\ writes < MaxWrites
  /\ \E k \in Keys, d \in Stored :
       /\ Kind[k] = "doc" /\ d # b[k] /\ (d = Dead => b[k] # Absent)
       /\ b' = [b EXCEPT ![k] = d]
       /\ touched' = touched \cup {k}
  /\ writes' = writes + 1
  /\ UNCHANGED <<client, pc, ids, page, got, again, failed>>

QueriesInit ==
  /\ b \in Buckets
  /\ session \in Sessions
  /\ pc = "ask" /\ skip = 0 /\ mark = NoKey
  /\ ids = <<>> /\ page = <<>> /\ got = {} /\ failed = FALSE
  /\ turn = FALSE /\ again = FALSE
  /\ groups = {} /\ before = b /\ touched = {} /\ writes = 0

QueriesNext == Asks \/ LoadDoc \/ Write

\* A client that is not done asks for its next page and is answered: weak
\* fairness of its steps, one of which is enabled until it is done.
Served == []<>(pc = "done") \/ []<><<Asks \/ LoadDoc>>_vars

QueriesSpec == QueriesInit /\ [][QueriesNext]_vars /\ Served

-----------------------------------------------------------------------------
(* Properties. *)

Sliced(s) == UsesIndex(s) \/ s.sort # <<>> \/ s.ask = "view"

\* What the session asked for, in the bucket it began with.
Listed(k) ==
  LET o == session.options
  IN  /\ ~(o.skipLocal /\ Kind[k] = "local")
      /\ o.start = NoKey \/ IF o.descending THEN k <= o.start ELSE k >= o.start
      /\ Within(o, k)

RowsInRange ==
  {row \in ToSet(Rows(before)) : InRange(session.query, row)}

Wanted ==
  IF session.ask = "view"
  THEN {RowItem(row) : row \in RowsInRange}
  ELSE {Item(k) : k \in {k \in Keys :
          /\ before[k] \notin {Absent, Dead}
          /\ IF session.ask = "all_docs" THEN Listed(k)
             ELSE /\ Match(before[k].content, session.selector) = "yes"
                  /\ UsesIndex(session) => Kind[k] = "doc"}}

\* A client that pages through a listing or a table scan until a page is not
\* full has met every document that nobody wrote meanwhile, whatever was
\* inserted, edited or deleted around it: skip counts keys, tombstones too,
\* so a deletion never moves a document across a page boundary.
PagesMissNothing ==
  pc = "done" /\ ~failed /\ session.ask \in {"all_docs", "find"} /\ ~Sliced(session)
    => {i \in Wanted : i.id \notin touched} \subseteq got

\* When nobody writes, the pages together are exactly what was asked for, and
\* sorted, indexed and view pages do not overlap.
QuietPagesExact ==
  pc = "done" /\ ~failed /\ touched = {} /\ session.ask # "partition"
    /\ (session.ask = "view" => session.fn = "map")
    => got = Wanted /\ (Sliced(session) => ~again)

\* The sum of array elements n.
SumOf(values, n) == MapThenSumSet(LAMBDA i : At(values[i].v, n), DOMAIN values)

\* What the reducer should make of values, the values of some rows: their
\* number, their sums by element, their statistics.
Reduced(fn, values, result) ==
  LET numbers == \A i \in DOMAIN values : values[i].t = "number"
      firsts  == {values[i].v[1] : i \in DOMAIN values}
      count   == Cardinality(DOMAIN values)
  IN  CASE fn = "_count" -> result = Number(count)
        [] fn = "_sum" ->
             /\ Len(result.v) = Max({Len(values[i].v) : i \in DOMAIN values})
             /\ \A n \in DOMAIN result.v : result.v[n] = SumOf(values, n)
        [] fn = "_stats" ->
             /\ result.v[4] = Number(count)
             /\ numbers <=> result.v[1] # Null
             /\ numbers =>
                  /\ result.v[1] = Number(SumOf(values, 1))
                  /\ result.v[2] = Number(Min(firsts))
                  /\ result.v[3] = Number(Max(firsts))
                  /\ result.v[5] = Number(
                       MapThenSumSet(LAMBDA i : values[i].v[1] * values[i].v[1],
                                     DOMAIN values))

\* A reduce query answers one row for each group of the rows in its range:
\* their number, their sum or their statistics, whatever order the index
\* holds them in.
ReduceExact ==
  pc = "done" /\ session.fn \in {"_count", "_sum", "_stats"} /\ session.query.keys = <<>> =>
    LET rows  == Rows(b)
        in    == {i \in DOMAIN rows : InRange(session.query, rows[i])}
        of(g) == {i \in in : GroupKey(session.query, rows[i].key) = g}
    IN  /\ {r.key : r \in groups} =
              {GroupKey(session.query, rows[i].key) : i \in in}
        /\ \A r \in groups :
             Reduced(session.fn, [i \in of(r.key) |-> rows[i].value], r.value)

\* A client that pages comes to an end.
PagingEnds == <>(pc = "done")

-----------------------------------------------------------------------------
(* What the code's comments say and it does not do. *)

\* A $regex condition on a field that is no string does not match (find.go:
\* "Only matches when the field is a string value"): it fails the query.
NonStringsDoNotMatch == ~failed

\* A view without a reduce function answers all its rows (design_doc.go:
\* "Map-only views ... preserve keys like reduce=false").
MapOnlyKeepsRows ==
  pc = "done" /\ session.fn = "none" =>
    groups = {[key |-> row.key, value |-> row.value] :
                row \in {row \in ToSet(Rows(b)) : InRange(session.query, row)}}

\* _partition/_find finds the partition's matches ("Executes a Mango find
\* query scoped to a partition", db_partition.go).
PartitionFindComplete ==
  pc = "done" /\ ~failed /\ session.ask = "partition" /\ session.limit = 0 =>
    {Item(k) : k \in {k \in Partition : before[k] \notin {Absent, Dead} /\
       Match(before[k].content, session.selector) = "yes"}} \subseteq got

\* A descending listing begins at its start key (db_iter.go: "the first key
\* that is <= StartKey"), not at longer ids.
RangeRespected ==
  session.ask = "all_docs" => \A i \in got : Listed(i.id)

=============================================================================
