--------------------------- MODULE MCWriteRequests ---------------------------
(* Instances of WriteRequests for TLC. *)
EXTENDS WriteRequests

CONSTANTS d1, d2, c1, c2

\* Every property is conditional on serial, which stays false: states past
\* an overlap show nothing.
Serial == serial

Symmetry == Permutations(Docs) \cup Permutations(Clients)

=============================================================================
