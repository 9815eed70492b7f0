----------------------------- MODULE MCNotices -----------------------------
(* Notices on a handful of operators and simultaneous handlers.             *)
EXTENDS Notices, TLC

Symmetry == Permutations(Operators) \cup Permutations(Requests)
=============================================================================
