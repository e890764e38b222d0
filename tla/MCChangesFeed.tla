---------------------------- MODULE MCChangesFeed ----------------------------
(* Instances of ChangesFeed for TLC. *)
EXTENDS ChangesFeed

CONSTANTS d1, d2, w1, w2, replicator, client

\* What the run checks says nothing of a behaviour from its first overlap on:
\* TLC checks the state of the overlap and goes no further.
UntilOverlap == ~overlapped

=============================================================================
