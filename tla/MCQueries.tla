----------------------------- MODULE MCQueries -----------------------------
(* Instances of Queries for TLC. *)
EXTENDS Queries

\* In byte order: "A", "_design/d", "_local/l", "p:a", "p:ab".
MCKind == <<"doc", "design", "local", "doc", "doc">>
MCLonger == {<<5, 4>>}
MCPartition == {4, 5}

X == [a |-> Number(1), b |-> Number(2)]
Y == [a |-> Text(1), b |-> Number(1)]
MCContents == {X, Y}

\* Any plain documents, with or without a local one, beside a design document.
MCBuckets ==
  {docs \in [Keys -> {Absent} \cup Stored] :
     docs[2] = Live(Y) /\ docs[3] \in {Absent, Live(X)}}

\* The view: two rows for X, one for Y, some with equal keys.
MCEmits ==
  (X :> <<[key |-> Array(<<1, 1>>), value |-> Number(1)],
          [key |-> Array(<<1, 2>>), value |-> Number(2)]>>) @@
  (Y :> <<[key |-> Array(<<1, 1>>), value |-> Array(<<1, 3>>)]>>)

AIsOne == <<Is(Condition("a", "$eq", Number(1)))>>
AIsOneOrText ==
  <<Group("$or", <<Condition("a", "$lte", Number(1)),
                   Condition("a", "$type", TypeName("string"))>>)>>
BIsBig == <<Is(Condition("b", "$gt", Number(1))),
            Group("$nor", <<Condition("a", "$in", Array(<<7>>))>>)>>

Listings ==
  {[Session("all_docs", by, n) EXCEPT !.options.skipLocal = l, !.options.end = e] :
     by \in {"skip", "startkey"}, n \in {1, 2}, l \in {TRUE}, e \in {NoKey, 4}}
  \cup {[Session("all_docs", "skip", 2) EXCEPT !.options.descending = TRUE,
                                               !.options.start = 5]}

Finds ==
  {[Session("find", "skip", 1) EXCEPT !.selector = sel] :
     sel \in {AIsOne, AIsOneOrText, BIsBig}}
  \cup {[Session("find", "bookmark", 2) EXCEPT !.selector = sel] :
     sel \in {AIsOneOrText, BIsBig}}
  \cup {[Session("find", "skip", 2) EXCEPT !.selector = AIsOneOrText,
           !.sort = <<[field |-> "b", desc |-> d]>>] : d \in BOOLEAN}

Views ==
  {[Session("view", "skip", 2) EXCEPT !.fn = "map", !.query.descending = d,
      !.query.end = e, !.query.exclusive = d] :
     d \in BOOLEAN, e \in {Unset, Array(<<1, 1>>)}}
  \cup {[Session("view", "skip", 0) EXCEPT !.fn = fn, !.query.level = l,
           !.query.group = g] :
          fn \in {"_count", "_sum", "_stats", "none"}, l \in {0, 1}, g \in BOOLEAN}

InPartition ==
  {[Session("partition", "skip", n) EXCEPT !.selector = AIsOne] : n \in {0, 2}}

\* Conditions that fail the query on some documents.
WithRegex ==
  {[Session("find", "skip", 2) EXCEPT
      !.selector = <<Is(Condition("a", "$regex", Text(1)))>>],
   [Session("find", "skip", 2) EXCEPT
      !.selector = <<Is(Condition("a", "$eq", Number(1))),
                     Is(Condition("b", "$regex", Text(1)))>>]}

MCSessions == Listings \cup Finds \cup Views \cup InPartition \cup WithRegex

\* What the counterexamples ask for.
OneByOne == {[Session("find", "bookmark", 1) EXCEPT !.selector = AIsOne]}
Descending ==
  {[Session("all_docs", "skip", 2) EXCEPT !.options.descending = TRUE,
                                          !.options.start = 4]}

=============================================================================
