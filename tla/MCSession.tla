----------------------------- MODULE MCSession -----------------------------
(* Instances of Session for TLC: workers are interchangeable. *)
EXTENDS Session, TLC

Symmetry == Permutations(Queriers)
=============================================================================
