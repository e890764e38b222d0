------------------------ MODULE MCReplicationService ------------------------
(* Instances of ReplicationService for TLC. *)
EXTENDS ReplicationService

CONSTANTS r1, r2

\* A continuous document is deleted and created again and the process stops; a
\* one-shot document is edited or deleted once.
MCBounds ==
  [c \in BOOLEAN |-> IF c THEN [writes |-> 2, stops |-> 1]
                    ELSE [writes |-> 1, stops |-> 0]]

\* For the counterexamples.
MoreBounds ==
  [c \in BOOLEAN |-> IF c THEN [writes |-> 3, stops |-> 0]
                    ELSE [writes |-> 0, stops |-> 1]]

=============================================================================
