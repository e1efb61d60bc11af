---------------------------- MODULE MCSearchIndex ----------------------------
(* SearchIndex on three ids and two terms, for TLC. *)
EXTENDS SearchIndex, TLC

Symmetry == Permutations(Ids) \cup Permutations(Values)
=============================================================================
