---------------------------- MODULE MCPresence ----------------------------
(* Presence with thresholds in the order of operator-presence.ts, scaled    *)
(* down to a few ticks.                                                     *)
EXTENDS Presence, TLC

\* Operators are interchangeable.
Symmetry == Permutations(Operators)
=============================================================================
