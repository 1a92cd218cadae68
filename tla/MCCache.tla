------------------------------ MODULE MCCache ------------------------------
(* Instances of Cache for TLC: threads and keys are interchangeable. *)
EXTENDS Cache, TLC

Symmetry == Permutations(Threads) \union Permutations(Keys)
=============================================================================
