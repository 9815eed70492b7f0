--------------------------- MODULE MCCredentials ---------------------------
(* Credentials of one account: those of two never meet.                     *)
EXTENDS Credentials, TLC

Symmetry == Permutations(Tokens) \cup Permutations(Links) \cup Permutations(Requests)
=============================================================================
