----------------------------- MODULE MCLiveFeed -----------------------------
(* An instance of LiveFeed for TLC.  A poll can hold up the goroutines that  *)
(* notify for ever (NotifierNeverStuck), and streams with them, so the two   *)
(* kinds of requests are checked apart, the polls with one document.  Writes *)
(* and requests need not happen: fairness asks for nothing that is cut off.  *)
EXTENDS LiveFeed

CONSTANTS d1, d2, w1, w2, s1, p1

OneKind ==
  \/ \A p \in Polls : poll[p].phase = "idle"
  \/ /\ \A s \in Streams : stream[s].phase = "off"
     /\ db.docs[d2] = NoDoc
     /\ \A w \in Writers : \A p \in pend[w] : p.op.id = d1

=============================================================================
