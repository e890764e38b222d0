---------------------------- MODULE MCCompaction ----------------------------
(* Instances of Compaction for TLC. *)
EXTENDS Compaction

CONSTANTS d1, d2, w1, w2

Symmetry == Permutations(Docs) \cup Permutations(Writers)

=============================================================================
