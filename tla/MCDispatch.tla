----------------------------- MODULE MCDispatch -----------------------------
(* Dispatch on a handful of operators, calls and simultaneous requests.     *)
EXTENDS Dispatch, TLC

\* Operators, calls and requests are interchangeable.
Symmetry == Permutations(Operators) \cup Permutations(Sessions)
            \cup Permutations(Requests)
=============================================================================
