--------------------------- MODULE MCIndexBuilder ---------------------------
(***************************************************************************)
(* A small instance of IndexBuilder: two documents in pages of one, two    *)
(* clients, two map functions that disagree on every body - one of them    *)
(* emits the same key twice - and a Mango index over either of two fields. *)
(***************************************************************************)
EXTENDS IndexBuilder

MCEmits ==
  [view  |-> [f |-> [a |-> <<"k">>, b |-> <<"k", "l">>],
              g |-> [a |-> <<"l", "l">>, b |-> <<>>]],
   mango |-> [f |-> [a |-> <<"k">>, b |-> <<"l">>],
              g |-> [a |-> <<"l">>, b |-> <<"l">>]]]
=============================================================================
