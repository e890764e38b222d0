------------------------------ MODULE Iterator ------------------------------
(***************************************************************************)
(* Reading the docs bucket of a goydb database in key order: the iterator  *)
(* of the storage layer (db_iter.go) and the listings built on it.  The    *)
(* operators are pure: b is the bucket as the read transaction sees it.    *)
(*                                                                         *)
(* A key is its rank in byte order.  A deleted document keeps its key: its *)
(* tombstone stays in the bucket.                                          *)
(***************************************************************************)
EXTENDS Integers, SequencesExt

CONSTANTS Keys,     \* ranks of the document ids
          Kind,     \* Kind[k] \in {"doc", "design", "local"}
          Longer,   \* pairs <<l, k>>: id l is id k followed by more bytes
          Contents  \* what a live document may hold

ASSUME IteratorAssumption ==
  /\ Keys = 1..Cardinality(Keys)
  /\ Kind \in [Keys -> {"doc", "design", "local"}]
  /\ \A p \in Longer : p \in Keys \X Keys /\ p[1] > p[2]

\* No key: an iterator bound that is not set.
NoKey == 0

\* A limit that is not set.
NoLimit == -1

Absent == [state |-> "absent"]
Dead == [state |-> "dead"]
Live(c) == [state |-> "live", content |-> c]
Stored == {Dead} \cup {Live(c) : c \in Contents}

\* The values of the iterator's fields a request sets.
Options ==
  [skip : Nat, limit : Int, start : Keys \cup {NoKey}, end : Keys \cup {NoKey},
   descending : BOOLEAN, exclusive : BOOLEAN, skipLocal : BOOLEAN]

Defaults ==
  [skip |-> 0, limit |-> NoLimit, start |-> NoKey, end |-> NoKey,
   descending |-> FALSE, exclusive |-> FALSE, skipLocal |-> FALSE]

InBucket(b) == {k \in Keys : b[k] # Absent}

\* Documents counted by total_rows: neither deleted nor local.
Total(b) ==
  Cardinality({k \in InBucket(b) : b[k] # Dead /\ Kind[k] # "local"})

\* The keys the cursor passes from the start key on.  A descending iterator
\* pads its start key with 0xFF bytes, so that it also meets longer ids.
FromStart(b, o) ==
  IF o.start = NoKey THEN InBucket(b)
  ELSE IF o.descending
       THEN {k \in InBucket(b) : k <= o.start \/ <<k, o.start>> \in Longer}
       ELSE {k \in InBucket(b) : k >= o.start}

InOrder == [i \in 1..Cardinality(Keys) |-> i]

Cursor(b, o) ==
  LET keys == FromStart(b, o)
      up   == SelectSeq(InOrder, LAMBDA k : k \in keys)
  IN  IF o.descending THEN Reverse(up) ELSE up

\* Mutant: a skipped key must be one the listing could have shown.
AfterLiveSkip(b, o) ==
  LET live == SelectSeq(Cursor(b, o), LAMBDA k : b[k] # Dead)
  IN  SubSeq(live, o.skip + 1, Len(live))

\* Mutant: a start key takes the place of the skip, going up.
AfterStartOrSkip(b, o) ==
  LET keys == Cursor(b, o)
  IN  IF o.start = NoKey \/ o.descending THEN SubSeq(keys, o.skip + 1, Len(keys)) ELSE keys

\* Skipping counts keys, whatever is stored under them.
AfterSkip(b, o) ==
  LET keys == Cursor(b, o) IN SubSeq(keys, o.skip + 1, Len(keys))

\* Is k before the end key?
Within(o, k) ==
  \/ o.end = NoKey
  \/ k = o.end /\ ~o.exclusive
  \/ IF o.descending THEN k > o.end ELSE k < o.end

\* What First and Next return one after the other when there is no limit.
Documents(b, o) ==
  SelectSeq(AfterSkip(b, o),
            LAMBDA k : /\ b[k] # Dead
                       /\ ~(o.skipLocal /\ Kind[k] = "local")
                       /\ Within(o, k))

\* One turn of a loop over First, Continue and Next, on document k.  Next
\* uses up one of the limit for each document but the first; a document that
\* Want does not keep gives one back (IncLimit), when the loop counts so.
Visit(acc, k, Want(_), giveBack) ==
  LET left == IF acc.first \/ acc.left = NoLimit THEN acc.left ELSE acc.left - 1
  IN  IF acc.left = 0 \/ left = 0
      THEN [acc EXCEPT !.left = 0, !.first = FALSE]
      ELSE [out |-> IF Want(k) THEN Append(acc.out, k) ELSE acc.out,
            left |-> IF ~Want(k) /\ giveBack THEN left + 1 ELSE left,
            first |-> FALSE]

Loop(b, o, Want(_), giveBack) ==
  FoldLeft(LAMBDA acc, k : Visit(acc, k, Want, giveBack),
           [out |-> <<>>, left |-> o.limit, first |-> TRUE],
           Documents(b, o)).out

\* Database.AllDocs: a limit of 0 in the request is no limit.
AllDocs(b, o) ==
  IF Total(b) = 0 THEN <<>>
  ELSE LET limit == IF o.limit = 0 THEN NoLimit ELSE o.limit
       IN  Loop(b, [o EXCEPT !.limit = limit], LAMBDA k : TRUE, FALSE)

=============================================================================
