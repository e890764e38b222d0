----------------------------- MODULE MCDocStore -----------------------------
(* Instances of DocStore for TLC.  One run has two kinds of behaviour: in    *)
(* "races" two writers overlap as they like; in "serial" no two transactions *)
(* overlap, and there is one revision more.                                  *)
EXTENDS DocStore

CONSTANTS d1, w1, w2, SerialRevs, RaceRevs

VARIABLE mode

Pends == {w \in Writers : pend[w] # {}}

\* A peer's edit changes nothing a commit reads, so the serial instance need
\* not have one between the two steps of a transaction.
MayBegin == mode = "serial" => Pends = {}

\* No transaction begins that could not commit within MaxSeq.
Room == db.changesSeq + Cardinality(Pends) <= MaxSeq

Bound ==
  \A d \in Docs :
    Cardinality(known[d]) <= IF mode = "serial" THEN SerialRevs ELSE RaceRevs

MCInit == Init /\ mode \in {"races", "serial"}

MCNext ==
  /\ UNCHANGED mode
  /\ CommitNext \/ (MayBegin /\ (BeginEdit \/ PeerNext) /\ Bound' /\ Room')

MCSpec == MCInit /\ [][MCNext]_<<vars, mode>>

Symmetry == Permutations(Writers)

=============================================================================
