----------------------------- MODULE MCProfile -----------------------------
(* Profile on a handful of users, devices and keys.                         *)
EXTENDS Profile, TLC

Symmetry == Permutations(Users) \cup Permutations(Phones) \cup Permutations(Keys) \cup Permutations(Devices)
            \cup Permutations(Handlers)
=============================================================================
